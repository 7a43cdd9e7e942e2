------------------------- MODULE RNTupleWriterProofs -------------------------
(***************************************************************************)
(* Proofs about RNTupleWriter, for any number of threads, tuples, calls,   *)
(* hits and I/O errors:                                                    *)
(*   - the control of the writers: types, life cycle and mutex;            *)
(*   - no hit is stored twice, none is lost, and a clean file is complete; *)
(*   - the hits of a call keep their order, and a sealed tuple its entries; *)
(*   - the writer implements the abstract store HitStore.                  *)
(***************************************************************************)
EXTENDS RNTupleWriter, DataLemmas

\* Before the job runs some writer is still to be constructed and none has
\* been destroyed.
LifeCycle ==
    /\ phase \in {"opening", "appending"} => appended < NReco + NSim
    /\ phase = "running" => appended = NReco + NSim
    /\ phase \notin {"teardown", "closed"} => sealed = {} /\ dying = 0
    /\ phase = "closed" => 1 .. appended \subseteq sealed /\ dying = 0

\* A thread has a call exactly when it is inside write(); it owns the mutex
\* exactly while it flushes; only the running phase has threads inside write().
LockInv ==
    /\ \A t \in Threads : pc[t] = "idle" <=> cur[t] = NoCall
    /\ \A t \in Threads : mutex = t <=> pc[t] = "commit"
    /\ phase # "running" => \A t \in Threads : pc[t] = "idle"

ControlInv == TypeOK /\ LifeCycle /\ LockInv

\* The initial states satisfy the control invariant.
LEMMA InitControl == Init => ControlInv
<1> SUFFICES ASSUME Init PROVE ControlInv
  OBVIOUS
<1>1. TypeOK
  BY BundleAssumption, FaultAssumption DEF Init, TypeOK
<1>2. LifeCycle /\ LockInv
  BY NullAssumption, BundleAssumption DEF Init, LifeCycle, LockInv
<1> QED
  BY <1>1, <1>2 DEF ControlInv

\* A hit just filled is one of the hits of the call that fills it.
LEMMA NextHitIsAHit ==
  ASSUME NEW c \in Calls, done[c] \in Nat, done[c] < Size[c]
  PROVE  <<c, done[c] + 1>> \in Hits
<1>1. Size[c] \in Nat
  BY CallAssumption
<1>2. done[c] + 1 \in 1 .. Size[c]
  BY <1>1
<1>3. <<c, done[c] + 1>> \in {c} \X (1 .. Size[c])
  BY <1>2
<1> QED
  BY <1>3 DEF Hits

\* Committing the cluster of a context keeps the types of the data.
LEMMA CommitTyped ==
  ASSUME TypeOK, NEW n \in Tuples, NEW t \in Threads, CommitCluster(n, t)
  PROVE  /\ committed' \in [Tuples -> Seq(Hits)]
         /\ buffer' \in [Tuples -> [Threads -> Seq(Hits)]]
<1>1. buffer[n][t] \in Seq(Hits) /\ committed[n] \in Seq(Hits)
  BY DEF TypeOK
<1>2. committed[n] \o buffer[n][t] \in Seq(Hits)
  BY <1>1
<1>3. committed' \in [Tuples -> Seq(Hits)]
  BY <1>2 DEF CommitCluster, TypeOK
<1>4. [buffer[n] EXCEPT ![t] = <<>>] \in [Threads -> Seq(Hits)]
  BY DEF TypeOK
<1>5. buffer' \in [Tuples -> [Threads -> Seq(Hits)]]
  BY <1>4 DEF CommitCluster, TypeOK
<1> QED
  BY <1>3, <1>5

\* Every step keeps the type invariant.
LEMMA TypeStep == ControlInv /\ [Next]_vars => TypeOK'
<1> SUFFICES ASSUME ControlInv, [Next]_vars PROVE TypeOK'
  OBVIOUS
<1> USE DEF ControlInv
<1> USE DEF job, threads, data
<1>1. CASE OpenFile
  BY <1>1 DEF OpenFile, TypeOK
<1>2. CASE OpenFails
  BY <1>2, FaultAssumption DEF OpenFails, Fault, TypeOK
<1>3. CASE AppendWriter
  <2>1. appended' \in 0 .. (NReco + NSim)
    BY <1>3, BundleAssumption DEF AppendWriter, TypeOK, LifeCycle
  <2> QED
    BY <1>3, <2>1 DEF AppendWriter, TypeOK
<1>4. CASE AppendFails
  BY <1>4, FaultAssumption DEF AppendFails, Fault, TypeOK
<1>5. CASE BeginTeardown
  BY <1>5 DEF BeginTeardown, TypeOK
<1>6. ASSUME NEW n \in Tuples, DestroyWriter(n) PROVE TypeOK'
  BY <1>6 DEF DestroyWriter, TypeOK
<1>7. ASSUME NEW t \in Threads, DestroyContext(t) PROVE TypeOK'
  <2>1. dying \in Tuples
    BY <1>7 DEF DestroyContext, TypeOK
  <2>2. /\ committed' \in [Tuples -> Seq(Hits)]
        /\ buffer' \in [Tuples -> [Threads -> Seq(Hits)]]
    BY <1>7, <2>1, CommitTyped DEF DestroyContext
  <2> QED
    BY <1>7, <2>1, <2>2 DEF DestroyContext, TypeOK
<1>8. ASSUME NEW t \in Threads, DestroyContextFails(t) PROVE TypeOK'
  <2>1. dying \in Tuples
    BY <1>8 DEF DestroyContextFails, TypeOK
  <2>2. [buffer[dying] EXCEPT ![t] = <<>>] \in [Threads -> Seq(Hits)]
    BY <2>1 DEF TypeOK
  <2> QED
    BY <1>8, <2>1, <2>2, FaultAssumption DEF DestroyContextFails, Fault, TypeOK
<1>9. CASE CommitDataset
  BY <1>9 DEF CommitDataset, TypeOK
<1>10. CASE CloseFile
  BY <1>10 DEF CloseFile, TypeOK
<1>11. ASSUME NEW t \in Threads, NEW c \in Calls, StartCall(t, c) PROVE TypeOK'
  BY <1>11 DEF StartCall, TypeOK
<1>12. ASSUME NEW t \in Threads, FillHit(t) PROVE TypeOK'
  <2> DEFINE c == cur[t]
             n == TupleOf[c]
  <2>1. c \in Calls
    BY <1>12 DEF FillHit, TypeOK, LockInv
  <2>2. n \in Tuples
    BY <2>1, CallAssumption
  <2>3. <<c, done[c] + 1>> \in Hits
    BY <1>12, <2>1, NextHitIsAHit DEF FillHit, TypeOK
  <2>4. [buffer[n] EXCEPT ![t] = Append(@, <<c, done[c] + 1>>)] \in [Threads -> Seq(Hits)]
    BY <2>2, <2>3 DEF TypeOK
  <2>5. buffer' \in [Tuples -> [Threads -> Seq(Hits)]]
    BY <1>12, <2>2, <2>4 DEF FillHit, TypeOK
  <2>6. done' \in [Calls -> Nat]
    BY <1>12, <2>1 DEF FillHit, TypeOK
  <2>7. pc' \in [Threads -> {"idle", "write", "flush", "commit"}]
    BY <1>12 DEF FillHit, TypeOK
  <2>8. ctx[n] \union {t} \in SUBSET Threads
    BY <2>2 DEF TypeOK
  <2>9. ctx' \in [Tuples -> SUBSET Threads]
    BY <1>12, <2>8 DEF FillHit, TypeOK
  <2> QED
    BY <1>12, <2>5, <2>6, <2>7, <2>9 DEF FillHit, TypeOK
<1>13. ASSUME NEW t \in Threads, AcquireFile(t) PROVE TypeOK'
  BY <1>13 DEF AcquireFile, TypeOK
<1>14. ASSUME NEW t \in Threads, FlushCluster(t) PROVE TypeOK'
  <2>1. TupleOf[cur[t]] \in Tuples
    BY <1>14, CallAssumption DEF FlushCluster, TypeOK, LockInv
  <2>2. /\ committed' \in [Tuples -> Seq(Hits)]
        /\ buffer' \in [Tuples -> [Threads -> Seq(Hits)]]
    BY <1>14, <2>1, CommitTyped DEF FlushCluster
  <2> QED
    BY <1>14, <2>2 DEF FlushCluster, TypeOK
<1>15. ASSUME NEW t \in Threads, FlushFails(t) PROVE TypeOK'
  BY <1>15, FaultAssumption DEF FlushFails, Fault, TypeOK
<1>16. ASSUME NEW t \in Threads, EndCall(t) PROVE TypeOK'
  BY <1>16 DEF EndCall, TypeOK
<1>17. CASE UNCHANGED vars
  BY <1>17 DEF vars, TypeOK
<1>18. ASSUME NEW t \in Threads, FillFails(t) PROVE TypeOK'
  <2>1. TupleOf[cur[t]] \in Tuples
    BY <1>18, CallAssumption DEF FillFails, TypeOK, LockInv
  <2>2. ctx' \in [Tuples -> SUBSET Threads]
    BY <1>18, <2>1 DEF FillFails, TypeOK
  <2> QED
    BY <1>18, <2>2, FaultAssumption DEF FillFails, Fault, TypeOK
<1>19. ASSUME NEW t \in Threads, FlushColumnsFails(t) PROVE TypeOK'
  BY <1>19, FaultAssumption DEF FlushColumnsFails, Fault, TypeOK
<1>20. CASE CommitDatasetFails
  BY <1>20, FaultAssumption DEF CommitDatasetFails, Fault, TypeOK
<1>21. CASE CloseFileFails
  BY <1>21, FaultAssumption DEF CloseFileFails, Fault, TypeOK
<1> QED
  BY <1>1, <1>2, <1>3, <1>4, <1>5, <1>6, <1>7, <1>8, <1>9, <1>10, <1>11, <1>12,
     <1>13, <1>14, <1>15, <1>16, <1>17, <1>18, <1>19, <1>20, <1>21
  DEF Next, MainStep, ThreadStep, Finished

\* Every step keeps the life cycle and lock invariants.
LEMMA LockStep == ControlInv /\ [Next]_vars => LifeCycle' /\ LockInv'
<1> SUFFICES ASSUME ControlInv, [Next]_vars PROVE LifeCycle' /\ LockInv'
  OBVIOUS
<1> USE NullAssumption, BundleAssumption DEF ControlInv, job, threads, data
<1>1. CASE OpenFile
  <2>1. phase # "running" /\ phase' # "running"
    BY <1>1 DEF OpenFile
  <2> QED
    BY <1>1, <2>1 DEF OpenFile, LifeCycle, LockInv
<1>2. CASE OpenFails
  BY <1>2 DEF OpenFails, LifeCycle, LockInv
<1>3. CASE AppendWriter
  <2>1. LifeCycle'
    BY <1>3 DEF AppendWriter, LifeCycle, TypeOK
  <2>2. LockInv'
    BY <1>3 DEF AppendWriter, LockInv
  <2> QED
    BY <2>1, <2>2
<1>4. CASE AppendFails
  BY <1>4 DEF AppendFails, LifeCycle, LockInv
<1>5. CASE BeginTeardown
  BY <1>5 DEF BeginTeardown, LifeCycle, LockInv
<1>6. ASSUME NEW n \in Tuples, DestroyWriter(n) PROVE LifeCycle' /\ LockInv'
  BY <1>6 DEF DestroyWriter, LifeCycle, LockInv
<1>7. ASSUME NEW t \in Threads, DestroyContext(t) PROVE LifeCycle' /\ LockInv'
  BY <1>7 DEF DestroyContext, LifeCycle, LockInv
<1>8. ASSUME NEW t \in Threads, DestroyContextFails(t) PROVE LifeCycle' /\ LockInv'
  BY <1>8 DEF DestroyContextFails, LifeCycle, LockInv
<1>9. CASE CommitDataset
  BY <1>9 DEF CommitDataset, LifeCycle, LockInv
<1>10. CASE CloseFile
  BY <1>10 DEF CloseFile, LifeCycle, LockInv
<1>11. ASSUME NEW t \in Threads, NEW c \in Calls, StartCall(t, c)
       PROVE  LifeCycle' /\ LockInv'
  BY <1>11 DEF StartCall, LifeCycle, LockInv, TypeOK
<1>12. ASSUME NEW t \in Threads, FillHit(t) PROVE LifeCycle' /\ LockInv'
  BY <1>12 DEF FillHit, LifeCycle, LockInv, TypeOK
<1>13. ASSUME NEW t \in Threads, AcquireFile(t) PROVE LifeCycle' /\ LockInv'
  BY <1>13 DEF AcquireFile, LifeCycle, LockInv, TypeOK
<1>14. ASSUME NEW t \in Threads, FlushCluster(t) PROVE LifeCycle' /\ LockInv'
  BY <1>14 DEF FlushCluster, LifeCycle, LockInv, TypeOK
<1>15. ASSUME NEW t \in Threads, FlushFails(t) PROVE LifeCycle' /\ LockInv'
  BY <1>15 DEF FlushFails, LifeCycle, LockInv, TypeOK
<1>16. ASSUME NEW t \in Threads, EndCall(t) PROVE LifeCycle' /\ LockInv'
  BY <1>16 DEF EndCall, LifeCycle, LockInv, TypeOK
<1>17. CASE UNCHANGED vars
  BY <1>17 DEF vars, LifeCycle, LockInv
<1>18. ASSUME NEW t \in Threads, FillFails(t) PROVE LifeCycle' /\ LockInv'
  BY <1>18 DEF FillFails, LifeCycle, LockInv, TypeOK
<1>19. ASSUME NEW t \in Threads, FlushColumnsFails(t) PROVE LifeCycle' /\ LockInv'
  BY <1>19 DEF FlushColumnsFails, LifeCycle, LockInv, TypeOK
<1>20. CASE CommitDatasetFails
  BY <1>20 DEF CommitDatasetFails, LifeCycle, LockInv
<1>21. CASE CloseFileFails
  BY <1>21 DEF CloseFileFails, LifeCycle, LockInv
<1> QED
  BY <1>1, <1>2, <1>3, <1>4, <1>5, <1>6, <1>7, <1>8, <1>9, <1>10, <1>11, <1>12,
     <1>13, <1>14, <1>15, <1>16, <1>17, <1>18, <1>19, <1>20, <1>21
  DEF Next, MainStep, ThreadStep, Finished

\* The control invariant holds in every reachable state.
THEOREM ControlCorrect == Spec => []ControlInv
<1>1. ControlInv /\ [Next]_vars => ControlInv'
  BY TypeStep, LockStep DEF ControlInv
<1> QED
  BY <1>1, InitControl, PTL DEF Spec

\* The variables of the writer keep their types, for all constants.
THEOREM TypeCorrect == Spec => []TypeOK
<1>1. ControlInv => TypeOK
  BY DEF ControlInv
<1> QED
  BY <1>1, ControlCorrect, PTL

\* No two flushes of the shared TFile overlap, and the main thread has it to
\* itself while writers are constructed and destroyed.
THEOREM FileIsExclusive == Spec => []FileExclusive
<1>1. ControlInv => FileExclusive
  BY NullAssumption DEF ControlInv, LockInv, FileExclusive, TypeOK
<1> QED
  BY <1>1, ControlCorrect, PTL

-------------------------------------------------------------------------------
(* The data: stored once, never lost. *)

\* Until an I/O error every call is waiting, running or entirely filled, and
\* the job is torn down only when none waits or runs.
CallInv ==
    /\ \A c \in Calls : done[c] <= Size[c]
    /\ faults = 0 => \A c \in Calls :
          c \in pending \/ (\E t \in Threads : cur[t] = c) \/ done[c] = Size[c]
    /\ faults = 0 /\ phase \in {"teardown", "closed"} =>
          pending = {} /\ appended = NReco + NSim

\* Hits wait only in contexts, and a sealed tuple has no context.
ContextInv ==
    /\ \A n \in Tuples, t \in Threads : t \notin ctx[n] => buffer[n][t] = <<>>
    /\ \A n \in sealed : ctx[n] = {}

WriterInv == ControlInv /\ CallInv /\ ContextInv /\ NoHitTwice /\ NoHitLost

-------------------------------------------------------------------------------
(* What a flush does to the stored hits. *)

\* A flush moves hits from the context to the file: of every tuple the same
\* hits are stored, and the entries of the file grow by the cluster.
LEMMA CommitStored ==
  ASSUME TypeOK, NEW n \in Tuples, NEW t \in Threads, CommitCluster(n, t)
  PROVE  /\ \A m \in Tuples : StoredOf(m)' = StoredOf(m)
         /\ Range(committed'[n]) = Range(committed[n]) \union Range(buffer[n][t])
         /\ \A m \in Tuples \ {n} : committed'[m] = committed[m]
<1>1. committed[n] \in Seq(Hits) /\ buffer[n][t] \in Seq(Hits)
  BY DEF TypeOK
<1>2. committed'[n] = committed[n] \o buffer[n][t]
  BY DEF CommitCluster, TypeOK
<1>3. Range(committed'[n]) = Range(committed[n]) \union Range(buffer[n][t])
  BY <1>1, <1>2, RangeConcatenation
<1>4. \A m \in Tuples \ {n} : committed'[m] = committed[m] /\ buffer'[m] = buffer[m]
  BY DEF CommitCluster, TypeOK
<1>5. /\ buffer'[n][t] = <<>>
      /\ \A u \in Threads \ {t} : buffer'[n][u] = buffer[n][u]
  BY DEF CommitCluster, TypeOK
<1>6. \A m \in Tuples \ {n} : StoredOf(m)' = StoredOf(m)
  BY <1>4 DEF StoredOf
<1>7. StoredOf(n)' = StoredOf(n)
  <2>1. StoredOf(n)' = Range(committed'[n]) \union UNION {Range(buffer'[n][u]) : u \in Threads}
    BY DEF StoredOf
  <2>2. UNION {Range(buffer[n][u]) : u \in Threads}
          = Range(buffer[n][t]) \union UNION {Range(buffer'[n][u]) : u \in Threads}
    <3>1. \A u \in Threads \ {t} : Range(buffer'[n][u]) = Range(buffer[n][u])
      BY <1>5
    <3>2. Range(buffer'[n][t]) = {}
      BY <1>5, EmptyRange
    <3> QED
      BY <3>1, <3>2
  <2> QED
    BY <2>1, <2>2, <1>3 DEF StoredOf
<1> QED
  BY <1>3, <1>4, <1>6, <1>7

\* A flush repeats nothing.
LEMMA CommitNotTwice ==
  ASSUME TypeOK, NoHitTwice, NEW n \in Tuples, NEW t \in Threads, CommitCluster(n, t)
  PROVE  NoHitTwice'
<1>1. committed[n] \in Seq(Hits) /\ buffer[n][t] \in Seq(Hits)
  BY DEF TypeOK
<1>2. committed'[n] = committed[n] \o buffer[n][t]
  BY DEF CommitCluster, TypeOK
<1>3. /\ Range(committed'[n]) = Range(committed[n]) \union Range(buffer[n][t])
      /\ IsInjective(committed'[n])
  <2>1. Range(committed'[n]) = Range(committed[n]) \union Range(buffer[n][t])
    BY CommitStored
  <2>2. /\ IsInjective(committed[n]) /\ IsInjective(buffer[n][t])
        /\ Range(committed[n]) \intersect Range(buffer[n][t]) = {}
    BY DEF NoHitTwice
  <2>3. IsInjective(committed[n] \o buffer[n][t])
    BY <1>1, <2>2, ConcatInjective
  <2> QED
    BY <1>2, <2>1, <2>3
<1>4. \A m \in Tuples \ {n} : committed'[m] = committed[m] /\ buffer'[m] = buffer[m]
  BY DEF CommitCluster, TypeOK
<1>5. /\ buffer'[n][t] = <<>>
      /\ \A u \in Threads \ {t} : buffer'[n][u] = buffer[n][u]
  BY DEF CommitCluster, TypeOK
<1>6. ASSUME NEW m \in Tuples, m # n
      PROVE  /\ IsInjective(committed'[m])
             /\ \A v \in Threads :
                  /\ IsInjective(buffer'[m][v])
                  /\ Range(buffer'[m][v]) \intersect Range(committed'[m]) = {}
                  /\ \A u \in Threads \ {v} :
                        Range(buffer'[m][v]) \intersect Range(buffer'[m][u]) = {}
  BY <1>4, <1>6 DEF NoHitTwice
<1>7. ASSUME NEW v \in Threads
      PROVE  /\ IsInjective(buffer'[n][v])
             /\ Range(buffer'[n][v]) \intersect Range(committed'[n]) = {}
             /\ \A u \in Threads \ {v} :
                   Range(buffer'[n][v]) \intersect Range(buffer'[n][u]) = {}
  <2>1. CASE v = t
    BY <2>1, <1>5, EmptyRange
  <2>2. CASE v # t
    <3>1. buffer'[n][v] = buffer[n][v]
      BY <1>5, <2>2
    <3>2. Range(buffer[n][v]) \intersect Range(buffer[n][t]) = {}
      BY <2>2 DEF NoHitTwice
    <3>3. Range(buffer'[n][v]) \intersect Range(committed'[n]) = {}
      BY <3>1, <3>2, <1>3 DEF NoHitTwice
    <3>4. ASSUME NEW u \in Threads \ {v}
          PROVE  Range(buffer'[n][v]) \intersect Range(buffer'[n][u]) = {}
      <4>1. CASE u = t
        BY <4>1, <1>5, EmptyRange
      <4>2. CASE u # t
        BY <4>2, <3>1, <1>5 DEF NoHitTwice
      <4> QED
        BY <4>1, <4>2
    <3> QED
      BY <3>1, <3>3, <3>4 DEF NoHitTwice
  <2> QED
    BY <2>1, <2>2
<1> QED
  BY <1>3, <1>6, <1>7 DEF NoHitTwice
-------------------------------------------------------------------------------
(* What filling a hit does to the stored hits. *)

\* The hits of a tuple are those of the calls that select it.
LEMMA HitsOfTuple ==
  \A n \in Tuples : \A h : h \in HitsOf(n) <=>
      \E d \in Calls : TupleOf[d] = n /\ \E i \in 1 .. Size[d] : h = <<d, i>>
BY DEF HitsOf

\* The accepted hits of a tuple, call by call.
LEMMA AcceptedMember ==
  \A n \in Tuples : \A h : h \in AcceptedOf(n) <=>
      \E d \in Calls, i \in Int :
          TupleOf[d] = n /\ i \in 1 .. Size[d] /\ i <= done[d] /\ h = <<d, i>>
<1> TAKE n \in Tuples
<1> TAKE h
<1>1. Size \in [Calls -> Nat]
  BY CallAssumption
<1> QED
  BY <1>1, HitsOfTuple DEF AcceptedOf

\* Thread t fills hit h into its context of tuple n: h becomes accepted.
HitFilled(t, n, h) ==
    /\ h \notin AcceptedOf(n)
    /\ AcceptedOf(n)' = AcceptedOf(n) \union {h}
    /\ \A m \in Tuples \ {n} : AcceptedOf(m)' = AcceptedOf(m)
    /\ buffer'[n][t] = Append(buffer[n][t], h)
    /\ \A u \in Threads \ {t} : buffer'[n][u] = buffer[n][u]
    /\ \A m \in Tuples \ {n} : buffer'[m] = buffer[m]
    /\ committed' = committed

\* Filling accepts one hit, which no call had filled before, and stores it in
\* the context of the thread.
LEMMA FillStored ==
  ASSUME ControlInv, NEW t \in Threads, FillHit(t)
  PROVE  \E n \in Tuples, h \in Hits : HitFilled(t, n, h)
<1> PICK c : c = cur[t]
  OBVIOUS
<1> PICK n : n = TupleOf[c]
  OBVIOUS
<1> PICK h : h = <<c, done[c] + 1>>
  OBVIOUS
<1>1. c \in Calls /\ done[c] < Size[c] /\ Size[c] \in Nat /\ done[c] \in Nat
  BY CallAssumption DEF ControlInv, FillHit, TypeOK, LockInv
<1>2. n \in Tuples /\ h \in Hits
  BY <1>1, CallAssumption, NextHitIsAHit
<1>3. h \notin AcceptedOf(n)
  BY <1>1, <1>2, AcceptedMember
<1>4. /\ done'[c] = done[c] + 1
      /\ \A d \in Calls \ {c} : done'[d] = done[d]
      /\ \A d \in Calls : done[d] \in Nat
  BY <1>1 DEF FillHit, ControlInv, TypeOK
<1>5. AcceptedOf(n)' = AcceptedOf(n) \union {h}
  <2>1. ASSUME NEW g PROVE g \in AcceptedOf(n)' <=> g \in AcceptedOf(n) \/ g = h
    <3>a. AcceptedOf(n)' = {k \in HitsOf(n) : k[2] <= done'[k[1]]}
      BY DEF AcceptedOf
    <3>b. Size \in [Calls -> Nat]
      BY CallAssumption
    <3>1. g \in AcceptedOf(n)' <=> \E d \in Calls, i \in Int :
             TupleOf[d] = n /\ i \in 1 .. Size[d] /\ i <= done'[d] /\ g = <<d, i>>
      BY <1>2, <3>a, <3>b, HitsOfTuple
    <3>2. g \in AcceptedOf(n) <=> \E d \in Calls, i \in Int :
             TupleOf[d] = n /\ i \in 1 .. Size[d] /\ i <= done[d] /\ g = <<d, i>>
      BY <1>2, AcceptedMember
    <3>3. ASSUME NEW d \in Calls, NEW i \in Int, i <= done'[d], g = <<d, i>>
          PROVE  i <= done[d] \/ g = h
      BY <1>1, <1>4, <3>3
    <3>4. ASSUME NEW d \in Calls, NEW i \in Int, i <= done[d] PROVE i <= done'[d]
      BY <1>1, <1>4, <3>4
    <3>5. g = h => g \in AcceptedOf(n)'
      BY <1>1, <1>4, <3>1
    <3> QED
      BY <3>1, <3>2, <3>3, <3>4, <3>5
  <2> QED
    BY <2>1
<1>6. ASSUME NEW m \in Tuples \ {n} PROVE AcceptedOf(m)' = AcceptedOf(m)
  <2>1. ASSUME NEW g \in HitsOf(m) PROVE g[1] \in Calls \ {c}
    BY HitsOfTuple
  <2> QED
    BY <2>1, <1>4 DEF AcceptedOf
<1>7. /\ buffer'[n][t] = Append(buffer[n][t], h)
      /\ \A u \in Threads \ {t} : buffer'[n][u] = buffer[n][u]
      /\ \A m \in Tuples \ {n} : buffer'[m] = buffer[m]
      /\ committed' = committed
  BY <1>2 DEF FillHit, ControlInv, TypeOK
<1>8. HitFilled(t, n, h)
  BY <1>3, <1>5, <1>6, <1>7 DEF HitFilled
<1> QED
  BY <1>2, <1>8
-------------------------------------------------------------------------------
(* The data invariants, action by action. *)

\* A step that touches neither hits nor the count of filled hits.
LEMMA UntouchedKeeps ==
  ASSUME NoHitTwice, NoHitLost, UNCHANGED <<done, buffer, committed>>,
         faults' = 0 => faults = 0
  PROVE  NoHitTwice' /\ NoHitLost'
<1>1. NoHitTwice'
  BY DEF NoHitTwice
<1>2. \A n \in Tuples : StoredOf(n)' = StoredOf(n) /\ AcceptedOf(n)' = AcceptedOf(n)
  BY DEF StoredOf, AcceptedOf
<1>3. NoHitLost'
  BY <1>2 DEF NoHitLost
<1> QED
  BY <1>1, <1>3

\* A flush moves hits from a context to the file: it repeats and loses none.
LEMMA CommitKeeps ==
  ASSUME TypeOK, NoHitTwice, NoHitLost, NEW n \in Tuples, NEW t \in Threads,
         CommitCluster(n, t), UNCHANGED <<done, faults>>
  PROVE  NoHitTwice' /\ NoHitLost'
<1>1. \A m \in Tuples : AcceptedOf(m)' = AcceptedOf(m)
  BY DEF AcceptedOf
<1>2. \A m \in Tuples : StoredOf(m)' = StoredOf(m)
  BY CommitStored
<1>3. NoHitLost'
  BY <1>1, <1>2 DEF NoHitLost
<1> QED
  BY <1>3, CommitNotTwice

\* Filling a hit, which is new, repeats none and stores it.
LEMMA FillKeeps ==
  ASSUME ControlInv, NoHitTwice, NoHitLost, NEW t \in Threads, FillHit(t)
  PROVE  NoHitTwice' /\ NoHitLost'
<1> PICK n \in Tuples, h \in Hits : HitFilled(t, n, h)
  BY FillStored
<1>1. /\ h \notin AcceptedOf(n)
      /\ AcceptedOf(n)' = AcceptedOf(n) \union {h}
      /\ \A m \in Tuples \ {n} : AcceptedOf(m)' = AcceptedOf(m)
      /\ buffer'[n][t] = Append(buffer[n][t], h)
      /\ \A u \in Threads \ {t} : buffer'[n][u] = buffer[n][u]
      /\ \A m \in Tuples \ {n} : buffer'[m] = buffer[m]
      /\ committed' = committed
  BY DEF HitFilled
<1>2. h \notin StoredOf(n)
  BY <1>1 DEF NoHitLost
<1>3. h \notin Range(committed[n]) /\ \A u \in Threads : h \notin Range(buffer[n][u])
  BY <1>2 DEF StoredOf
<1>4. buffer[n][t] \in Seq(Hits)
  BY <1>1 DEF ControlInv, TypeOK
<1>5. /\ Range(buffer'[n][t]) = Range(buffer[n][t]) \union {h}
      /\ IsInjective(buffer'[n][t])
  <2>1. IsInjective(buffer[n][t])
    BY <1>1 DEF NoHitTwice
  <2> QED
    BY <2>1, <1>1, <1>3, <1>4, AppendRange
<1>6. NoHitTwice'
  <2>1. ASSUME NEW m \in Tuples, m # n
        PROVE  /\ IsInjective(committed'[m])
               /\ \A v \in Threads :
                    /\ IsInjective(buffer'[m][v])
                    /\ Range(buffer'[m][v]) \intersect Range(committed'[m]) = {}
                    /\ \A u \in Threads \ {v} :
                          Range(buffer'[m][v]) \intersect Range(buffer'[m][u]) = {}
    BY <1>1, <2>1 DEF NoHitTwice
  <2>2. ASSUME NEW v \in Threads
        PROVE  /\ IsInjective(buffer'[n][v])
               /\ Range(buffer'[n][v]) \intersect Range(committed'[n]) = {}
    <3>1. CASE v = t
      BY <3>1, <1>1, <1>3, <1>5 DEF NoHitTwice
    <3>2. CASE v # t
      BY <3>2, <1>1 DEF NoHitTwice
    <3> QED
      BY <3>1, <3>2
  <2>3. ASSUME NEW v \in Threads, NEW u \in Threads \ {v}
        PROVE  Range(buffer'[n][v]) \intersect Range(buffer'[n][u]) = {}
    <3>1. Range(buffer[n][v]) \intersect Range(buffer[n][u]) = {}
      BY <1>1 DEF NoHitTwice
    <3>2. CASE v = t
      BY <3>1, <3>2, <1>1, <1>3, <1>5
    <3>3. CASE u = t
      BY <3>1, <3>3, <1>1, <1>3, <1>5
    <3>4. CASE v # t /\ u # t
      BY <3>1, <3>4, <1>1
    <3> QED
      BY <3>2, <3>3, <3>4
  <2>4. IsInjective(committed'[n])
    BY <1>1 DEF NoHitTwice
  <2> QED
    BY <2>1, <2>2, <2>3, <2>4 DEF NoHitTwice
<1>7. StoredOf(n)' = StoredOf(n) \union {h}
  <2>1. StoredOf(n)' = Range(committed'[n]) \union UNION {Range(buffer'[n][u]) : u \in Threads}
    BY DEF StoredOf
  <2>2. \A u \in Threads \ {t} : Range(buffer'[n][u]) = Range(buffer[n][u])
    BY <1>1
  <2>3. UNION {Range(buffer'[n][u]) : u \in Threads}
          = {h} \union UNION {Range(buffer[n][u]) : u \in Threads}
    BY <1>5, <2>2
  <2> QED
    BY <1>1, <2>1, <2>3 DEF StoredOf
<1>8. \A m \in Tuples \ {n} : StoredOf(m)' = StoredOf(m)
  BY <1>1 DEF StoredOf
<1>9. faults' = faults
  BY DEF FillHit
<1>10. NoHitLost'
  BY <1>1, <1>7, <1>8, <1>9 DEF NoHitLost
<1> QED
  BY <1>6, <1>10

\* A failing destructor drops the cluster of one context, which an I/O error
\* permits, and repeats nothing.
LEMMA DropKeeps ==
  ASSUME ControlInv, NoHitTwice, NoHitLost, NEW t \in Threads, DestroyContextFails(t)
  PROVE  NoHitTwice' /\ NoHitLost'
<1> PICK n : n = dying
  OBVIOUS
<1>1. /\ n \in Tuples
      /\ buffer' = [buffer EXCEPT ![n][t] = <<>>]
      /\ committed' = committed /\ done' = done
  BY DEF DestroyContextFails, ControlInv, TypeOK, threads
<1>2. faults' # 0
  BY DEF DestroyContextFails, Fault, ControlInv, TypeOK
<1>3. \A m \in Tuples, u \in Threads :
         buffer'[m][u] = buffer[m][u] \/ buffer'[m][u] = <<>>
  BY <1>1 DEF ControlInv, TypeOK
<1>4. NoHitTwice'
  <2>1. \A m \in Tuples, u \in Threads :
          /\ Range(buffer'[m][u]) \subseteq Range(buffer[m][u])
          /\ IsInjective(buffer'[m][u])
    BY <1>3, EmptyRange DEF NoHitTwice
  <2>2. ASSUME NEW m \in Tuples, NEW v \in Threads
        PROVE  /\ Range(buffer'[m][v]) \intersect Range(committed'[m]) = {}
               /\ \A u \in Threads \ {v} :
                     Range(buffer'[m][v]) \intersect Range(buffer'[m][u]) = {}
    <3>1. Range(buffer[m][v]) \intersect Range(committed[m]) = {}
      BY DEF NoHitTwice
    <3>2. ASSUME NEW u \in Threads \ {v}
          PROVE  Range(buffer'[m][v]) \intersect Range(buffer'[m][u]) = {}
      <4>1. Range(buffer[m][v]) \intersect Range(buffer[m][u]) = {}
        BY DEF NoHitTwice
      <4> QED
        BY <4>1, <2>1
    <3> QED
      BY <3>1, <3>2, <2>1, <1>1
  <2>3. \A m \in Tuples : IsInjective(committed'[m])
    BY <1>1 DEF NoHitTwice
  <2> QED
    BY <2>1, <2>2, <2>3 DEF NoHitTwice
<1>5. ASSUME NEW m \in Tuples PROVE StoredOf(m)' \subseteq StoredOf(m)
  <2>1. \A u \in Threads : Range(buffer'[m][u]) \subseteq Range(buffer[m][u])
    BY <1>3, EmptyRange
  <2>2. Range(committed'[m]) = Range(committed[m])
    BY <1>1
  <2> QED
    BY <2>1, <2>2 DEF StoredOf
<1>6. \A m \in Tuples : AcceptedOf(m)' = AcceptedOf(m)
  BY <1>1 DEF AcceptedOf
<1>7. NoHitLost'
  BY <1>2, <1>5, <1>6 DEF NoHitLost
<1> QED
  BY <1>4, <1>7
-------------------------------------------------------------------------------
(* The writer invariant is inductive. *)

\* The initial states satisfy the writer invariant.
LEMMA InitWriter == Init => WriterInv
<1> SUFFICES ASSUME Init PROVE WriterInv
  OBVIOUS
<1>1. ControlInv
  BY InitControl
<1>2. CallInv
  BY CallAssumption DEF Init, CallInv
<1>3. ContextInv
  BY DEF Init, ContextInv
<1>4. NoHitTwice
  BY EmptyRange DEF Init, NoHitTwice
<1>5. NoHitLost
  <2>1. \A n \in Tuples : StoredOf(n) = {}
    BY EmptyRange DEF Init, StoredOf
  <2>2. \A n \in Tuples : AcceptedOf(n) = {}
    <3> SUFFICES ASSUME NEW n \in Tuples, NEW h \in AcceptedOf(n) PROVE FALSE
      OBVIOUS
    <3>1. PICK d \in Calls, i \in Int : i \in 1 .. Size[d] /\ i <= done[d]
      BY AcceptedMember
    <3>2. done[d] = 0
      BY DEF Init
    <3> QED
      BY <3>1, <3>2, CallAssumption
  <2> QED
    BY <2>1, <2>2 DEF NoHitLost
<1> QED
  BY <1>1, <1>2, <1>3, <1>4, <1>5 DEF WriterInv

\* Every step keeps the bookkeeping of calls.
LEMMA CallStep == ControlInv /\ CallInv /\ [Next]_vars => CallInv'
<1> SUFFICES ASSUME ControlInv, CallInv, [Next]_vars PROVE CallInv'
  OBVIOUS
<1> USE CallAssumption, NullAssumption DEF ControlInv, job, threads, data
<1>1. CASE OpenFile
  BY <1>1 DEF OpenFile, CallInv
<1>2. CASE OpenFails
  BY <1>2 DEF OpenFails, Fault, CallInv, TypeOK
<1>3. CASE AppendWriter
  BY <1>3 DEF AppendWriter, CallInv
<1>4. CASE AppendFails
  BY <1>4 DEF AppendFails, Fault, CallInv, TypeOK
<1>5. CASE BeginTeardown
  BY <1>5 DEF BeginTeardown, CallInv, LifeCycle, TypeOK
<1>6. ASSUME NEW n \in Tuples, DestroyWriter(n) PROVE CallInv'
  BY <1>6 DEF DestroyWriter, CallInv
<1>7. ASSUME NEW t \in Threads, DestroyContext(t) PROVE CallInv'
  BY <1>7 DEF DestroyContext, CallInv
<1>8. ASSUME NEW t \in Threads, DestroyContextFails(t) PROVE CallInv'
  BY <1>8 DEF DestroyContextFails, Fault, CallInv, TypeOK
<1>9. CASE CommitDataset
  BY <1>9 DEF CommitDataset, CallInv
<1>10. CASE CloseFile
  BY <1>10 DEF CloseFile, CallInv
<1>11. ASSUME NEW t \in Threads, NEW c \in Calls, StartCall(t, c) PROVE CallInv'
  BY <1>11 DEF StartCall, CallInv, TypeOK, LockInv
<1>12. ASSUME NEW t \in Threads, FillHit(t) PROVE CallInv'
  BY <1>12 DEF FillHit, CallInv, TypeOK, LockInv
<1>13. ASSUME NEW t \in Threads, AcquireFile(t) PROVE CallInv'
  BY <1>13 DEF AcquireFile, CallInv
<1>14. ASSUME NEW t \in Threads, FlushCluster(t) PROVE CallInv'
  BY <1>14 DEF FlushCluster, CallInv
<1>15. ASSUME NEW t \in Threads, FlushFails(t) PROVE CallInv'
  BY <1>15 DEF FlushFails, Fault, CallInv, TypeOK
<1>16. ASSUME NEW t \in Threads, EndCall(t) PROVE CallInv'
  BY <1>16 DEF EndCall, CallInv, TypeOK, LockInv
<1>17. CASE UNCHANGED vars
  BY <1>17 DEF vars, CallInv
<1>18. ASSUME NEW t \in Threads, FillFails(t) \/ FlushColumnsFails(t) PROVE CallInv'
  BY <1>18 DEF FillFails, FlushColumnsFails, Fault, CallInv, TypeOK
<1>19. CASE CommitDatasetFails \/ CloseFileFails
  BY <1>19 DEF CommitDatasetFails, CloseFileFails, Fault, CallInv, TypeOK
<1> QED
  BY <1>1, <1>2, <1>3, <1>4, <1>5, <1>6, <1>7, <1>8, <1>9, <1>10, <1>11, <1>12,
     <1>13, <1>14, <1>15, <1>16, <1>17, <1>18, <1>19 DEF Next, MainStep, ThreadStep, Finished

\* Every step keeps hits inside contexts, and sealed tuples without contexts.
LEMMA ContextStep == ControlInv /\ ContextInv /\ [Next]_vars => ContextInv'
<1> SUFFICES ASSUME ControlInv, ContextInv, [Next]_vars PROVE ContextInv'
  OBVIOUS
<1> USE CallAssumption, NullAssumption DEF ControlInv, job, threads, data
<1>1. ASSUME UNCHANGED <<ctx, buffer, sealed>> PROVE ContextInv'
  BY <1>1 DEF ContextInv
<1>2. ASSUME NEW t \in Threads, DestroyContext(t) PROVE ContextInv'
  <2> PICK n : n = dying
    OBVIOUS
  <2>1. n \in Tuples
    BY <1>2 DEF DestroyContext, TypeOK
  <2>2. /\ ctx' = [ctx EXCEPT ![n] = @ \ {t}]
        /\ buffer' = [buffer EXCEPT ![n][t] = <<>>]
        /\ sealed' = sealed
    BY <1>2 DEF DestroyContext, CommitCluster
  <2> QED
    BY <2>1, <2>2 DEF ContextInv, TypeOK
<1>3. ASSUME NEW t \in Threads, DestroyContextFails(t) PROVE ContextInv'
  <2> PICK n : n = dying
    OBVIOUS
  <2>1. n \in Tuples
    BY <1>3 DEF DestroyContextFails, TypeOK
  <2>2. /\ ctx' = [ctx EXCEPT ![n] = @ \ {t}]
        /\ buffer' = [buffer EXCEPT ![n][t] = <<>>]
        /\ sealed' = sealed
    BY <1>3 DEF DestroyContextFails
  <2> QED
    BY <2>1, <2>2 DEF ContextInv, TypeOK
<1>4. CASE CommitDataset \/ CommitDatasetFails
  BY <1>4 DEF CommitDataset, CommitDatasetFails, ContextInv, TypeOK
<1>5. ASSUME NEW t \in Threads, FillHit(t) PROVE ContextInv'
  <2> PICK n : n = TupleOf[cur[t]]
    OBVIOUS
  <2>1. n \in Tuples /\ sealed = {} /\ sealed' = {}
    BY <1>5 DEF FillHit, TypeOK, LockInv, LifeCycle
  <2>2. /\ ctx' = [ctx EXCEPT ![n] = @ \union {t}]
        /\ \E h : buffer' = [buffer EXCEPT ![n][t] = Append(@, h)]
    BY <1>5 DEF FillHit
  <2> QED
    BY <2>1, <2>2 DEF ContextInv, TypeOK
<1>6. ASSUME NEW t \in Threads, FlushCluster(t) PROVE ContextInv'
  <2> PICK n : n = TupleOf[cur[t]]
    OBVIOUS
  <2>1. n \in Tuples
    BY <1>6 DEF FlushCluster, TypeOK, LockInv
  <2>2. /\ ctx' = ctx /\ sealed' = sealed
        /\ buffer' = [buffer EXCEPT ![n][t] = <<>>]
    BY <1>6 DEF FlushCluster, CommitCluster
  <2> QED
    BY <2>1, <2>2 DEF ContextInv, TypeOK
<1>7. ASSUME NEW t \in Threads, FillFails(t) PROVE ContextInv'
  <2> PICK n : n = TupleOf[cur[t]]
    OBVIOUS
  <2>1. n \in Tuples /\ sealed = {} /\ sealed' = {}
    BY <1>7 DEF FillFails, TypeOK, LockInv, LifeCycle
  <2>2. PICK made \in SUBSET {t} : ctx' = [ctx EXCEPT ![n] = @ \union made] /\ buffer' = buffer
    BY <1>7 DEF FillFails
  <2> QED
    BY <2>1, <2>2 DEF ContextInv, TypeOK
<1> QED
  BY <1>1, <1>2, <1>3, <1>4, <1>5, <1>6, <1>7
  DEF Next, MainStep, ThreadStep, Finished, vars, OpenFile, OpenFails, AppendWriter,
      AppendFails, BeginTeardown, DestroyWriter, CloseFile, CloseFileFails, StartCall,
      AcquireFile, FlushColumnsFails, FlushFails, EndCall
-------------------------------------------------------------------------------
\* Every step keeps what is said of the stored hits.
LEMMA StoreStep ==
  ControlInv /\ NoHitTwice /\ NoHitLost /\ [Next]_vars => NoHitTwice' /\ NoHitLost'
<1> SUFFICES ASSUME ControlInv, NoHitTwice, NoHitLost, [Next]_vars
             PROVE  NoHitTwice' /\ NoHitLost'
  OBVIOUS
<1>1. ASSUME NEW t \in Threads, FillHit(t) PROVE NoHitTwice' /\ NoHitLost'
  BY <1>1, FillKeeps
<1>2. ASSUME NEW t \in Threads, FlushCluster(t) PROVE NoHitTwice' /\ NoHitLost'
  <2> PICK n : n = TupleOf[cur[t]]
    OBVIOUS
  <2>1. n \in Tuples
    BY <1>2, CallAssumption DEF FlushCluster, ControlInv, TypeOK, LockInv
  <2>2. CommitCluster(n, t) /\ UNCHANGED <<done, faults>>
    BY <1>2 DEF FlushCluster
  <2> QED
    BY <2>1, <2>2, CommitKeeps DEF ControlInv
<1>3. ASSUME NEW t \in Threads, DestroyContext(t) PROVE NoHitTwice' /\ NoHitLost'
  <2> PICK n : n = dying
    OBVIOUS
  <2>1. n \in Tuples
    BY <1>3 DEF DestroyContext, ControlInv, TypeOK
  <2>2. CommitCluster(n, t) /\ UNCHANGED <<done, faults>>
    BY <1>3 DEF DestroyContext, threads
  <2> QED
    BY <2>1, <2>2, CommitKeeps DEF ControlInv
<1>4. ASSUME NEW t \in Threads, DestroyContextFails(t) PROVE NoHitTwice' /\ NoHitLost'
  BY <1>4, DropKeeps
<1>5. ASSUME UNCHANGED <<done, buffer, committed>>, faults' \in {faults, faults + 1}
      PROVE  NoHitTwice' /\ NoHitLost'
  <2>1. faults' = 0 => faults = 0
    BY <1>5 DEF ControlInv, TypeOK
  <2> QED
    BY <1>5, <2>1, UntouchedKeeps
<1> QED
  BY <1>1, <1>2, <1>3, <1>4, <1>5
  DEF Next, MainStep, ThreadStep, Finished, vars, job, threads, data, Fault, OpenFile,
      OpenFails, AppendWriter, AppendFails, BeginTeardown, DestroyWriter, CommitDataset,
      CommitDatasetFails, CloseFile, CloseFileFails, StartCall, FillFails, AcquireFile,
      FlushColumnsFails, FlushFails, EndCall

\* The writer invariant holds in every reachable state.
THEOREM WriterCorrect == Spec => []WriterInv
<1>1. WriterInv /\ [Next]_vars => WriterInv'
  BY TypeStep, LockStep, CallStep, ContextStep, StoreStep DEF WriterInv, ControlInv
<1> QED
  BY <1>1, InitWriter, PTL DEF Spec

\* No hit is written twice, whatever the interleaving of the threads.
THEOREM HitsNotTwice == Spec => []NoHitTwice
<1>1. WriterInv => NoHitTwice
  BY DEF WriterInv
<1> QED
  BY <1>1, WriterCorrect, PTL

\* Every hit handed over is stored until an I/O error happens, and nothing else
\* is ever stored.
THEOREM HitsNotLost == Spec => []NoHitLost
<1>1. WriterInv => NoHitLost
  BY DEF WriterInv
<1> QED
  BY <1>1, WriterCorrect, PTL

\* In a closed file without I/O error each tuple holds what was accepted for
\* it, and everything was accepted.
LEMMA ClosedComplete ==
  ASSUME WriterInv, phase = "closed", faults = 0, NEW n \in Tuples
  PROVE  Range(committed[n]) = AcceptedOf(n) /\ AcceptedOf(n) = HitsOf(n)
<1> USE DEF WriterInv, ControlInv
<1>1. appended = NReco + NSim /\ pending = {}
  BY DEF CallInv
<1>2. n \in sealed
  BY <1>1 DEF LifeCycle, Tuples
<1>3. \A t \in Threads : Range(buffer[n][t]) = {}
  BY <1>2, EmptyRange DEF ContextInv
<1>4. Range(committed[n]) = AcceptedOf(n)
  <2>1. StoredOf(n) = Range(committed[n])
    BY <1>3 DEF StoredOf
  <2> QED
    BY <2>1 DEF NoHitLost
<1>5. \A t \in Threads : cur[t] = NoCall
  BY DEF LockInv
<1>6. \A c \in Calls : done[c] = Size[c]
  BY <1>1, <1>5, NullAssumption DEF CallInv
<1>7. HitsOf(n) \subseteq AcceptedOf(n)
  <2> SUFFICES ASSUME NEW h \in HitsOf(n) PROVE h \in AcceptedOf(n)
    OBVIOUS
  <2>1. PICK d \in Calls : TupleOf[d] = n /\ \E i \in 1 .. Size[d] : h = <<d, i>>
    BY HitsOfTuple
  <2>2. Size[d] \in Nat
    BY CallAssumption
  <2>3. h[2] <= done[h[1]]
    BY <2>1, <2>2, <1>6
  <2> QED
    BY <2>3 DEF AcceptedOf
<1>8. AcceptedOf(n) \subseteq HitsOf(n)
  BY DEF AcceptedOf
<1> QED
  BY <1>4, <1>7, <1>8

\* Without I/O error the closed file holds every hit of every call.
THEOREM ClosedFileIsComplete == Spec => []CleanCloseIsComplete
<1>1. WriterInv => CleanCloseIsComplete
  BY ClosedComplete DEF CleanCloseIsComplete
<1> QED
  BY <1>1, WriterCorrect, PTL

-------------------------------------------------------------------------------
(* The order of the stored hits. *)

\* The hits of one call are in order in a sequence of hits.
InCallOrder(s) ==
    \A p, q \in DOMAIN s : p < q /\ s[p][1] = s[q][1] => s[p][2] < s[q][2]

\* The hits of one call in s all come before those of that call in r.
CallsBefore(s, r) ==
    \A p \in DOMAIN s, q \in DOMAIN r : s[p][1] = r[q][1] => s[p][2] < r[q][2]

\* A call is taken by one thread, and has filled nothing before that.
OneThreadPerCall ==
    /\ \A t, u \in Threads : cur[t] = cur[u] /\ cur[t] # NoCall => t = u
    /\ \A t \in Threads : cur[t] \notin pending
    /\ \A c \in pending : done[c] = 0

\* Hits of one call wait in one context only, that of the thread that runs it.
OneContextPerCall ==
    \A n \in Tuples, t, u \in Threads : \A p \in DOMAIN buffer[n][t] :
        /\ cur[u] = buffer[n][t][p][1] => t = u
        /\ \A q \in DOMAIN buffer[n][u] : buffer[n][t][p][1] = buffer[n][u][q][1] => t = u

\* In the file and in each context the hits of a call are in order, and those
\* that wait come after those in the file.
StoredInOrder ==
    \A n \in Tuples :
        /\ InCallOrder(committed[n])
        /\ \A t \in Threads : InCallOrder(buffer[n][t]) /\ CallsBefore(committed[n], buffer[n][t])

OrderInv == WriterInv /\ OneThreadPerCall /\ OneContextPerCall /\ StoredInOrder

\* Two sequences in call order, no call of the second reaching before the
\* first, concatenate in call order.
LEMMA ConcatInOrder ==
  ASSUME NEW S, NEW s \in Seq(S), NEW r \in Seq(S),
         InCallOrder(s), InCallOrder(r), CallsBefore(s, r)
  PROVE  InCallOrder(s \o r)
<1> SUFFICES ASSUME NEW a \in DOMAIN (s \o r), NEW b \in DOMAIN (s \o r),
                    a < b, (s \o r)[a][1] = (s \o r)[b][1]
             PROVE  (s \o r)[a][2] < (s \o r)[b][2]
  BY DEF InCallOrder
<1>1. /\ a \in 1 .. Len(s) + Len(r)
      /\ b \in 1 .. Len(s) + Len(r)
      /\ Len(s) \in Nat /\ Len(r) \in Nat
      /\ DOMAIN s = 1 .. Len(s) /\ DOMAIN r = 1 .. Len(r)
  OBVIOUS
<1>2. \A i \in 1 .. Len(s) + Len(r) :
         (s \o r)[i] = IF i <= Len(s) THEN s[i] ELSE r[i - Len(s)]
  BY ConcatProperties
<1>3. CASE b <= Len(s)
  <2>1. a \in DOMAIN s /\ b \in DOMAIN s /\ (s \o r)[a] = s[a] /\ (s \o r)[b] = s[b]
    BY <1>1, <1>2, <1>3
  <2> QED
    BY <2>1 DEF InCallOrder
<1>4. CASE a > Len(s)
  <2>1. /\ a - Len(s) \in DOMAIN r /\ b - Len(s) \in DOMAIN r
        /\ a - Len(s) < b - Len(s)
        /\ (s \o r)[a] = r[a - Len(s)] /\ (s \o r)[b] = r[b - Len(s)]
    BY <1>1, <1>2, <1>4
  <2> QED
    BY <2>1 DEF InCallOrder
<1>5. CASE a <= Len(s) /\ b > Len(s)
  <2>1. /\ a \in DOMAIN s /\ b - Len(s) \in DOMAIN r
        /\ (s \o r)[a] = s[a] /\ (s \o r)[b] = r[b - Len(s)]
    BY <1>1, <1>2, <1>5
  <2> QED
    BY <2>1 DEF CallsBefore
<1> QED
  BY <1>1, <1>3, <1>4, <1>5

\* What holds of the elements of a range holds position by position.
LEMMA StoredPositions ==
  ASSUME TypeOK, NoHitLost, NEW n \in Tuples
  PROVE  /\ \A p \in DOMAIN committed[n] : committed[n][p] \in AcceptedOf(n)
         /\ \A t \in Threads : \A p \in DOMAIN buffer[n][t] : buffer[n][t][p] \in AcceptedOf(n)
<1>1. \A p \in DOMAIN committed[n] : committed[n][p] \in StoredOf(n)
  BY DEF StoredOf, Range
<1>2. ASSUME NEW t \in Threads, NEW p \in DOMAIN buffer[n][t]
      PROVE  buffer[n][t][p] \in StoredOf(n)
  <2>1. buffer[n][t][p] \in Range(buffer[n][t])
    BY DEF Range
  <2> QED
    BY <2>1 DEF StoredOf
<1> QED
  BY <1>1, <1>2 DEF NoHitLost

\* A flush keeps the hits of each call in order.
LEMMA CommitOrdered ==
  ASSUME TypeOK, OneContextPerCall, StoredInOrder,
         NEW n \in Tuples, NEW t \in Threads, CommitCluster(n, t), UNCHANGED cur
  PROVE  OneContextPerCall' /\ StoredInOrder'
<1>1. committed[n] \in Seq(Hits) /\ buffer[n][t] \in Seq(Hits)
  BY DEF TypeOK
<1>2. committed'[n] = committed[n] \o buffer[n][t]
  BY DEF CommitCluster, TypeOK
<1>3. /\ \A m \in Tuples \ {n} : committed'[m] = committed[m] /\ buffer'[m] = buffer[m]
      /\ buffer'[n][t] = <<>>
      /\ \A u \in Threads \ {t} : buffer'[n][u] = buffer[n][u]
  BY DEF CommitCluster, TypeOK
<1>4. DOMAIN buffer'[n][t] = {}
  BY <1>3
<1>5. \A m \in Tuples, u \in Threads :
         m # n \/ u # t => buffer'[m][u] = buffer[m][u]
  BY <1>3
<1>6. OneContextPerCall'
  <2> SUFFICES ASSUME NEW m \in Tuples, NEW u \in Threads, NEW v \in Threads,
                      NEW p \in DOMAIN buffer'[m][u]
               PROVE  /\ cur'[v] = buffer'[m][u][p][1] => u = v
                      /\ \A q \in DOMAIN buffer'[m][v] :
                            buffer'[m][u][p][1] = buffer'[m][v][q][1] => u = v
    BY DEF OneContextPerCall
  <2>1. m # n \/ u # t
    BY <1>4
  <2>2. buffer'[m][u] = buffer[m][u]
    BY <1>5, <2>1
  <2>3. CASE m = n /\ v = t
    BY <2>2, <2>3, <1>4 DEF OneContextPerCall
  <2>4. CASE m # n \/ v # t
    <3>1. buffer'[m][v] = buffer[m][v]
      BY <1>5, <2>4
    <3> QED
      BY <2>2, <3>1 DEF OneContextPerCall
  <2> QED
    BY <2>3, <2>4
<1>7. InCallOrder(committed'[n])
  <2>1. InCallOrder(committed[n]) /\ InCallOrder(buffer[n][t]) /\ CallsBefore(committed[n], buffer[n][t])
    BY DEF StoredInOrder
  <2> QED
    BY <1>1, <1>2, <2>1, ConcatInOrder
<1>8. ASSUME NEW u \in Threads
      PROVE  InCallOrder(buffer'[n][u]) /\ CallsBefore(committed'[n], buffer'[n][u])
  <2>1. CASE u = t
    BY <1>4, <2>1 DEF InCallOrder, CallsBefore
  <2>2. CASE u # t
    <3>1. buffer'[n][u] = buffer[n][u]
      BY <1>3, <2>2
    <3>2. InCallOrder(buffer[n][u]) /\ CallsBefore(committed[n], buffer[n][u])
      BY DEF StoredInOrder
    <3>3. ASSUME NEW p \in DOMAIN committed'[n], NEW q \in DOMAIN buffer[n][u],
                 committed'[n][p][1] = buffer[n][u][q][1]
          PROVE  committed'[n][p][2] < buffer[n][u][q][2]
      <4>1. CASE p \in DOMAIN committed[n] /\ committed'[n][p] = committed[n][p]
        BY <4>1, <3>2, <3>3 DEF CallsBefore
      <4>2. CASE /\ p - Len(committed[n]) \in DOMAIN buffer[n][t]
                 /\ committed'[n][p] = buffer[n][t][p - Len(committed[n])]
        BY <4>2, <3>3, <2>2 DEF OneContextPerCall
      <4>3. p \in DOMAIN (committed[n] \o buffer[n][t])
        BY <1>2
      <4>4. \/ /\ p \in DOMAIN committed[n]
               /\ (committed[n] \o buffer[n][t])[p] = committed[n][p]
            \/ /\ p - Len(committed[n]) \in DOMAIN buffer[n][t]
               /\ (committed[n] \o buffer[n][t])[p] = buffer[n][t][p - Len(committed[n])]
        BY <1>1, <4>3, ConcatPosition, Zenon
      <4> QED
        BY <1>2, <4>1, <4>2, <4>4
    <3> QED
      BY <3>1, <3>2, <3>3 DEF CallsBefore
  <2> QED
    BY <2>1, <2>2
<1>9. StoredInOrder'
  <2>1. ASSUME NEW m \in Tuples, m # n
        PROVE  /\ InCallOrder(committed'[m])
               /\ \A u \in Threads : InCallOrder(buffer'[m][u])
                                     /\ CallsBefore(committed'[m], buffer'[m][u])
    BY <1>3, <2>1 DEF StoredInOrder
  <2> QED
    BY <2>1, <1>7, <1>8 DEF StoredInOrder
<1> QED
  BY <1>6, <1>9

\* Filling the next hit of a call puts it behind all those filled before.
LEMMA FillOrdered ==
  ASSUME ControlInv, NoHitLost, OneThreadPerCall, OneContextPerCall, StoredInOrder,
         NEW t \in Threads, FillHit(t)
  PROVE  OneContextPerCall' /\ StoredInOrder'
<1> PICK c : c = cur[t]
  OBVIOUS
<1> PICK n : n = TupleOf[c]
  OBVIOUS
<1> PICK h : h = <<c, done[c] + 1>>
  OBVIOUS
<1>1. c \in Calls /\ done[c] < Size[c] /\ Size[c] \in Nat /\ done[c] \in Nat
  BY CallAssumption DEF ControlInv, FillHit, TypeOK, LockInv
<1>2. n \in Tuples /\ h \in Hits
  BY <1>1, CallAssumption, NextHitIsAHit
<1>3. /\ buffer'[n][t] = Append(buffer[n][t], h)
      /\ \A m \in Tuples, u \in Threads : m # n \/ u # t => buffer'[m][u] = buffer[m][u]
      /\ committed' = committed /\ cur' = cur
  BY <1>2 DEF FillHit, ControlInv, TypeOK
<1>4. ASSUME NEW g \in AcceptedOf(n), g[1] = c PROVE g[2] < h[2]
  <2>1. PICK d \in Calls, i \in Int : i <= done[d] /\ g = <<d, i>>
    BY <1>2, AcceptedMember
  <2> QED
    BY <2>1, <1>1, <1>4
<1>5. /\ \A p \in DOMAIN committed[n] : committed[n][p][1] = c => committed[n][p][2] < h[2]
      /\ \A u \in Threads : \A p \in DOMAIN buffer[n][u] :
            buffer[n][u][p][1] = c => buffer[n][u][p][2] < h[2]
  BY <1>2, <1>4, StoredPositions DEF ControlInv
<1>6. buffer[n][t] \in Seq(Hits)
  BY <1>2 DEF ControlInv, TypeOK
<1>7. ASSUME NEW p \in DOMAIN buffer'[n][t], NEW q \in DOMAIN buffer'[n][t], p < q
      PROVE  p \in DOMAIN buffer[n][t] /\ buffer'[n][t][p] = buffer[n][t][p]
  <2> SUFFICES ASSUME NEW s \in Seq(Hits), p \in DOMAIN Append(s, h), q \in DOMAIN Append(s, h)
               PROVE  p \in DOMAIN s /\ Append(s, h)[p] = s[p]
    BY <1>3, <1>6
  <2> QED
    BY <1>2, <1>7, AppendProperties
<1>8. h[1] = c
  OBVIOUS
<1>9. ASSUME NEW p \in DOMAIN buffer'[n][t]
      PROVE  \/ p \in DOMAIN buffer[n][t] /\ buffer'[n][t][p] = buffer[n][t][p]
             \/ buffer'[n][t][p] = h
  <2> SUFFICES ASSUME NEW s \in Seq(Hits), p \in DOMAIN Append(s, h)
               PROVE  (p \in DOMAIN s /\ Append(s, h)[p] = s[p]) \/ Append(s, h)[p] = h
    BY <1>3, <1>6
  <2> QED
    BY <1>2, AppendPosition
<1>10. \A v \in Threads : cur[v] = c => v = t
  BY <1>1, NullAssumption DEF OneThreadPerCall
<1>11. OneContextPerCall'
  <2> SUFFICES ASSUME NEW m \in Tuples, NEW u \in Threads, NEW v \in Threads,
                      NEW p \in DOMAIN buffer'[m][u]
               PROVE  /\ cur'[v] = buffer'[m][u][p][1] => u = v
                      /\ \A q \in DOMAIN buffer'[m][v] :
                            buffer'[m][u][p][1] = buffer'[m][v][q][1] => u = v
    BY DEF OneContextPerCall
  <2>1. CASE m # n
    <3>1. buffer'[m][u] = buffer[m][u] /\ buffer'[m][v] = buffer[m][v] /\ cur'[v] = cur[v]
      BY <1>3, <2>1
    <3>2. p \in DOMAIN buffer[m][u]
      BY <3>1
    <3> QED
      BY <3>1, <3>2 DEF OneContextPerCall
  <2>2. CASE m = n /\ u # t
    <3>1. buffer'[n][u] = buffer[n][u] /\ p \in DOMAIN buffer[n][u]
      BY <1>2, <1>3, <2>2
    <3>2. buffer[n][u][p][1] # c
      BY <1>2, <3>1, <2>2 DEF OneContextPerCall
    <3>3. cur[v] = buffer[n][u][p][1] => u = v
      BY <1>2, <3>1 DEF OneContextPerCall
    <3>4. ASSUME NEW q \in DOMAIN buffer'[n][v], buffer[n][u][p][1] = buffer'[n][v][q][1]
          PROVE  u = v
      <4>1. CASE v = t
        <5>1. q \in DOMAIN buffer[n][t] /\ buffer'[n][t][q] = buffer[n][t][q]
          BY <1>8, <1>9, <3>2, <3>4, <4>1
        <5> QED
          BY <5>1, <1>2, <3>1, <3>4, <4>1 DEF OneContextPerCall
      <4>2. CASE v # t
        <5>1. buffer'[n][v] = buffer[n][v]
          BY <4>2, <1>2, <1>3
        <5> QED
          BY <5>1, <1>2, <3>1, <3>4 DEF OneContextPerCall
      <4> QED
        BY <4>1, <4>2
    <3> QED
      BY <3>1, <3>3, <3>4, <1>3, <2>2
  <2>3. CASE m = n /\ u = t
    <3>1. ASSUME cur[v] = buffer'[n][t][p][1] PROVE t = v
      <4>1. CASE p \in DOMAIN buffer[n][t] /\ buffer'[n][t][p] = buffer[n][t][p]
        BY <4>1, <3>1, <1>2 DEF OneContextPerCall
      <4>2. CASE buffer'[n][t][p] = h
        BY <4>2, <3>1, <1>8, <1>10
      <4> QED
        BY <4>1, <4>2, <1>9, <2>3
    <3>2. ASSUME NEW q \in DOMAIN buffer'[n][v], v # t, buffer'[n][t][p][1] = buffer'[n][v][q][1]
          PROVE  FALSE
      <4>1. buffer'[n][v] = buffer[n][v] /\ q \in DOMAIN buffer[n][v]
        BY <1>2, <1>3, <3>2
      <4>2. buffer[n][v][q][1] # c
        BY <1>2, <4>1, <3>2 DEF OneContextPerCall
      <4>3. p \in DOMAIN buffer[n][t] /\ buffer'[n][t][p] = buffer[n][t][p]
        BY <1>8, <1>9, <2>3, <3>2, <4>1, <4>2
      <4> QED
        BY <4>1, <4>3, <1>2, <3>2 DEF OneContextPerCall
    <3> QED
      BY <3>1, <3>2, <2>3, <1>3
  <2> QED
    BY <2>1, <2>2, <2>3
<1>12. InCallOrder(buffer'[n][t])
  <2> SUFFICES ASSUME NEW p \in DOMAIN buffer'[n][t], NEW q \in DOMAIN buffer'[n][t],
                      p < q, buffer'[n][t][p][1] = buffer'[n][t][q][1]
               PROVE  buffer'[n][t][p][2] < buffer'[n][t][q][2]
    BY DEF InCallOrder
  <2>1. p \in DOMAIN buffer[n][t] /\ buffer'[n][t][p] = buffer[n][t][p]
    BY <1>7
  <2>2. CASE q \in DOMAIN buffer[n][t] /\ buffer'[n][t][q] = buffer[n][t][q]
    BY <2>1, <2>2, <1>2 DEF StoredInOrder, InCallOrder
  <2>3. CASE buffer'[n][t][q] = h
    BY <2>1, <2>3, <1>5, <1>8
  <2> QED
    BY <2>2, <2>3, <1>9
<1>13. CallsBefore(committed[n], buffer'[n][t])
  <2> SUFFICES ASSUME NEW p \in DOMAIN committed[n], NEW q \in DOMAIN buffer'[n][t],
                      committed[n][p][1] = buffer'[n][t][q][1]
               PROVE  committed[n][p][2] < buffer'[n][t][q][2]
    BY DEF CallsBefore
  <2>1. CASE q \in DOMAIN buffer[n][t] /\ buffer'[n][t][q] = buffer[n][t][q]
    BY <2>1, <1>2 DEF StoredInOrder, CallsBefore
  <2>2. CASE buffer'[n][t][q] = h
    BY <2>2, <1>5, <1>8
  <2> QED
    BY <2>1, <2>2, <1>9
<1>14. StoredInOrder'
  <2> SUFFICES ASSUME NEW m \in Tuples, NEW u \in Threads
               PROVE  /\ InCallOrder(committed'[m])
                      /\ InCallOrder(buffer'[m][u]) /\ CallsBefore(committed'[m], buffer'[m][u])
    BY <1>3 DEF StoredInOrder
  <2>1. CASE m = n /\ u = t
    BY <2>1, <1>3, <1>12, <1>13 DEF StoredInOrder
  <2>2. CASE m # n \/ u # t
    BY <2>2, <1>3 DEF StoredInOrder
  <2> QED
    BY <2>1, <2>2
<1> QED
  BY <1>11, <1>14

\* A context dropped by a failing destructor takes its hits out of the order.
LEMMA DropOrdered ==
  ASSUME ControlInv, OneContextPerCall, StoredInOrder, NEW t \in Threads, DestroyContextFails(t)
  PROVE  OneContextPerCall' /\ StoredInOrder'
<1> PICK n : n = dying
  OBVIOUS
<1>1. /\ n \in Tuples
      /\ buffer' = [buffer EXCEPT ![n][t] = <<>>]
      /\ committed' = committed /\ cur' = cur
  BY DEF DestroyContextFails, ControlInv, TypeOK, threads
<1>2. ASSUME NEW m \in Tuples, NEW u \in Threads
      PROVE  buffer'[m][u] = buffer[m][u] \/ DOMAIN buffer'[m][u] = {}
  <2>1. buffer'[m][u] = buffer[m][u] \/ buffer'[m][u] = <<>>
    BY <1>1 DEF ControlInv, TypeOK
  <2> QED
    BY <2>1
<1>3. OneContextPerCall'
  <2> SUFFICES ASSUME NEW m \in Tuples, NEW u \in Threads, NEW v \in Threads,
                      NEW p \in DOMAIN buffer'[m][u]
               PROVE  /\ cur'[v] = buffer'[m][u][p][1] => u = v
                      /\ \A q \in DOMAIN buffer'[m][v] :
                            buffer'[m][u][p][1] = buffer'[m][v][q][1] => u = v
    BY DEF OneContextPerCall
  <2>1. buffer'[m][u] = buffer[m][u] /\ p \in DOMAIN buffer[m][u]
    BY <1>2
  <2> QED
    BY <2>1, <1>1, <1>2 DEF OneContextPerCall
<1>4. StoredInOrder'
  <2> SUFFICES ASSUME NEW m \in Tuples, NEW u \in Threads
               PROVE  /\ InCallOrder(committed'[m])
                      /\ InCallOrder(buffer'[m][u]) /\ CallsBefore(committed'[m], buffer'[m][u])
    BY <1>1 DEF StoredInOrder
  <2>1. CASE buffer'[m][u] = buffer[m][u]
    BY <1>1, <2>1 DEF StoredInOrder
  <2>2. CASE DOMAIN buffer'[m][u] = {}
    BY <1>1, <2>2 DEF StoredInOrder, InCallOrder, CallsBefore
  <2> QED
    BY <2>1, <2>2, <1>2
<1> QED
  BY <1>3, <1>4

\* A thread that takes a call finds no hit of it in any context.
LEMMA StartOrdered ==
  ASSUME ControlInv, NoHitLost, OneThreadPerCall, OneContextPerCall,
         NEW t \in Threads, NEW c \in Calls, StartCall(t, c)
  PROVE  OneContextPerCall'
<1>1. /\ cur' = [cur EXCEPT ![t] = c] /\ c \in pending
      /\ buffer' = buffer
  BY DEF StartCall, data
<1>2. ASSUME NEW n \in Tuples, NEW u \in Threads, NEW p \in DOMAIN buffer[n][u]
      PROVE  buffer[n][u][p][1] # c
  <2>1. buffer[n][u][p] \in AcceptedOf(n)
    BY StoredPositions DEF ControlInv
  <2>2. PICK d \in Calls, i \in Int : i \in 1 .. Size[d] /\ i <= done[d] /\ buffer[n][u][p] = <<d, i>>
    BY <2>1, AcceptedMember
  <2>3. done[d] >= 1
    BY <2>2, CallAssumption DEF ControlInv, TypeOK
  <2> QED
    BY <1>1, <2>2, <2>3 DEF OneThreadPerCall
<1>3. \A v \in Threads : cur'[v] = cur[v] \/ cur'[v] = c
  BY <1>1 DEF ControlInv, TypeOK
<1> QED
  BY <1>1, <1>2, <1>3 DEF OneContextPerCall

\* A thread that ends its call, or whose flush failed, runs none.
LEMMA StopOrdered ==
  ASSUME ControlInv, NoHitLost, OneContextPerCall, NEW t \in Threads,
         cur' = [cur EXCEPT ![t] = NoCall], UNCHANGED buffer
  PROVE  OneContextPerCall'
<1>1. ASSUME NEW n \in Tuples, NEW u \in Threads, NEW p \in DOMAIN buffer[n][u]
      PROVE  buffer[n][u][p][1] # NoCall
  <2>1. buffer[n][u][p] \in AcceptedOf(n)
    BY StoredPositions DEF ControlInv
  <2> QED
    BY <2>1, AcceptedMember, NullAssumption
<1>2. \A v \in Threads : cur'[v] = cur[v] \/ cur'[v] = NoCall
  BY DEF ControlInv, TypeOK
<1> QED
  BY <1>1, <1>2 DEF OneContextPerCall

\* Every step keeps a call on one thread.
LEMMA OneThreadStep == ControlInv /\ OneThreadPerCall /\ [Next]_vars => OneThreadPerCall'
<1> SUFFICES ASSUME ControlInv, OneThreadPerCall, [Next]_vars PROVE OneThreadPerCall'
  OBVIOUS
<1> USE NullAssumption, CallAssumption
<1>1. ASSUME UNCHANGED <<pending, cur, done>> PROVE OneThreadPerCall'
  BY <1>1 DEF OneThreadPerCall
<1>2. ASSUME NEW t \in Threads, NEW c \in Calls, StartCall(t, c) PROVE OneThreadPerCall'
  BY <1>2 DEF StartCall, OneThreadPerCall, ControlInv, TypeOK
<1>3. ASSUME NEW t \in Threads, FillHit(t) PROVE OneThreadPerCall'
  BY <1>3 DEF FillHit, OneThreadPerCall, ControlInv, TypeOK, LockInv
<1>4. ASSUME NEW t \in Threads,
             FillFails(t) \/ FlushColumnsFails(t) \/ FlushFails(t) \/ EndCall(t)
      PROVE  OneThreadPerCall'
  <2>1. cur' = [cur EXCEPT ![t] = NoCall] /\ pending' = pending /\ done' = done
    BY <1>4 DEF FillFails, FlushColumnsFails, FlushFails, EndCall
  <2>2. \A u \in Threads : cur'[u] = IF u = t THEN NoCall ELSE cur[u]
    BY <2>1 DEF ControlInv, TypeOK
  <2>3. NoCall \notin pending
    BY DEF ControlInv, TypeOK
  <2> QED
    BY <2>1, <2>2, <2>3 DEF OneThreadPerCall
<1> QED
  BY <1>1, <1>2, <1>3, <1>4
  DEF Next, MainStep, ThreadStep, Finished, vars, job, threads, data, OpenFile, OpenFails,
      AppendWriter, AppendFails, BeginTeardown, DestroyWriter, DestroyContext,
      DestroyContextFails, CommitDataset, CommitDatasetFails, CloseFile, CloseFileFails,
      AcquireFile, FlushCluster

\* Every step keeps the order of the stored hits.
LEMMA OrderStep ==
  WriterInv /\ OneThreadPerCall /\ OneContextPerCall /\ StoredInOrder /\ [Next]_vars
    => OneContextPerCall' /\ StoredInOrder'
<1> SUFFICES ASSUME ControlInv, NoHitLost, OneThreadPerCall, OneContextPerCall, StoredInOrder,
                    [Next]_vars
             PROVE  OneContextPerCall' /\ StoredInOrder'
  BY DEF WriterInv
<1>1. ASSUME UNCHANGED <<buffer, committed, cur>> PROVE OneContextPerCall' /\ StoredInOrder'
  BY <1>1 DEF OneContextPerCall, StoredInOrder
<1>2. ASSUME UNCHANGED <<buffer, committed>> PROVE StoredInOrder'
  BY <1>2 DEF StoredInOrder
<1>3. ASSUME NEW t \in Threads, NEW c \in Calls, StartCall(t, c)
      PROVE  OneContextPerCall' /\ StoredInOrder'
  BY <1>2, <1>3, StartOrdered DEF StartCall, data
<1>4. ASSUME NEW t \in Threads, FillHit(t) PROVE OneContextPerCall' /\ StoredInOrder'
  BY <1>4, FillOrdered
<1>5. ASSUME NEW t \in Threads,
             FillFails(t) \/ FlushColumnsFails(t) \/ FlushFails(t) \/ EndCall(t)
      PROVE  OneContextPerCall' /\ StoredInOrder'
  BY <1>2, <1>5, StopOrdered DEF FillFails, FlushColumnsFails, FlushFails, EndCall, data
<1>6. ASSUME NEW t \in Threads, FlushCluster(t) PROVE OneContextPerCall' /\ StoredInOrder'
  <2> PICK n : n = TupleOf[cur[t]]
    OBVIOUS
  <2>1. n \in Tuples
    BY <1>6, CallAssumption DEF FlushCluster, ControlInv, TypeOK, LockInv
  <2>2. CommitCluster(n, t) /\ UNCHANGED cur
    BY <1>6 DEF FlushCluster
  <2> QED
    BY <2>1, <2>2, CommitOrdered DEF ControlInv
<1>7. ASSUME NEW t \in Threads, DestroyContext(t) PROVE OneContextPerCall' /\ StoredInOrder'
  <2> PICK n : n = dying
    OBVIOUS
  <2>1. n \in Tuples
    BY <1>7 DEF DestroyContext, ControlInv, TypeOK
  <2>2. CommitCluster(n, t) /\ UNCHANGED cur
    BY <1>7 DEF DestroyContext, threads
  <2> QED
    BY <2>1, <2>2, CommitOrdered DEF ControlInv
<1>8. ASSUME NEW t \in Threads, DestroyContextFails(t) PROVE OneContextPerCall' /\ StoredInOrder'
  BY <1>8, DropOrdered
<1> QED
  BY <1>1, <1>3, <1>4, <1>5, <1>6, <1>7, <1>8
  DEF Next, MainStep, ThreadStep, Finished, vars, job, threads, data, OpenFile, OpenFails,
      AppendWriter, AppendFails, BeginTeardown, DestroyWriter, CommitDataset,
      CommitDatasetFails, CloseFile, CloseFileFails, AcquireFile

\* The initial states satisfy the order invariant.
LEMMA InitOrder == Init => OneThreadPerCall /\ OneContextPerCall /\ StoredInOrder
<1> SUFFICES ASSUME Init PROVE OneThreadPerCall /\ OneContextPerCall /\ StoredInOrder
  OBVIOUS
<1>1. /\ \A n \in Tuples : DOMAIN committed[n] = {}
      /\ \A n \in Tuples, t \in Threads : DOMAIN buffer[n][t] = {}
  BY DEF Init
<1>2. OneThreadPerCall
  BY NullAssumption DEF Init, OneThreadPerCall
<1> QED
  BY <1>1, <1>2 DEF OneContextPerCall, StoredInOrder, InCallOrder, CallsBefore

\* The order invariant holds in every reachable state.
THEOREM OrderCorrect == Spec => []OrderInv
<1>1. Init => OrderInv
  BY InitOrder, InitWriter DEF OrderInv
<1>2. WriterInv /\ [Next]_vars => WriterInv'
  BY TypeStep, LockStep, CallStep, ContextStep, StoreStep DEF WriterInv, ControlInv
<1>3. OrderInv /\ [Next]_vars => OrderInv'
  BY <1>2, OneThreadStep, OrderStep DEF OrderInv, WriterInv
<1> QED
  BY <1>1, <1>3, PTL DEF Spec

\* In the file the hits of a call are in the order of its vector, whichever
\* clusters of other calls the threads flush in between.
THEOREM CallsStayInOrder == Spec => []CallOrder
<1>1. OrderInv => CallOrder
  BY DEF OrderInv, StoredInOrder, InCallOrder, CallOrder
<1> QED
  BY <1>1, OrderCorrect, PTL

\* A tuple being destroyed is not sealed yet.
DyingInv == dying \notin sealed

\* Only a writer whose dataset is not committed starts to be destroyed.
LEMMA DyingStep == ControlInv /\ DyingInv /\ [Next]_vars => DyingInv'
<1> SUFFICES ASSUME ControlInv, DyingInv, [Next]_vars PROVE DyingInv'
  OBVIOUS
<1>1. 0 \notin sealed
  BY BundleAssumption DEF ControlInv, TypeOK, Tuples
<1>2. ASSUME UNCHANGED <<dying, sealed>> PROVE DyingInv'
  BY <1>2 DEF DyingInv
<1>3. ASSUME NEW n \in Tuples, DestroyWriter(n) PROVE DyingInv'
  BY <1>3 DEF DestroyWriter, Destroyable, DyingInv
<1>4. CASE CommitDataset \/ CommitDatasetFails
  BY <1>1, <1>4 DEF CommitDataset, CommitDatasetFails, DyingInv
<1> QED
  BY <1>2, <1>3, <1>4
  DEF Next, MainStep, ThreadStep, Finished, vars, job, threads, data, OpenFile, OpenFails,
      AppendWriter, AppendFails, BeginTeardown, CloseFile, CloseFileFails, DestroyContext,
      DestroyContextFails, StartCall, FillHit, FillFails, AcquireFile, FlushColumnsFails,
      FlushCluster, FlushFails, EndCall

\* A flush of an unsealed tuple only adds entries at the end of that tuple.
LEMMA CommitGrows ==
  ASSUME TypeOK, NEW n \in Tuples, NEW t \in Threads, CommitCluster(n, t), n \notin sealed
  PROVE  \A m \in Tuples :
            /\ m \in sealed => committed'[m] = committed[m]
            /\ Len(committed[m]) <= Len(committed'[m])
            /\ SubSeq(committed'[m], 1, Len(committed[m])) = committed[m]
<1>1. \A m \in Tuples : committed[m] \in Seq(Hits)
  BY DEF TypeOK
<1>2. buffer[n][t] \in Seq(Hits)
  BY DEF TypeOK
<1>3. committed'[n] = committed[n] \o buffer[n][t]
  BY DEF CommitCluster, TypeOK
<1>4. \A m \in Tuples \ {n} : committed'[m] = committed[m]
  BY DEF CommitCluster, TypeOK
<1>5. \A s \in Seq(Hits) : Len(s) <= Len(s) /\ SubSeq(s, 1, Len(s)) = s
  OBVIOUS
<1>6. /\ Len(committed[n]) <= Len(committed'[n])
      /\ SubSeq(committed'[n], 1, Len(committed[n])) = committed[n]
  <2> SUFFICES ASSUME NEW s \in Seq(Hits), NEW r \in Seq(Hits)
               PROVE  Len(s) <= Len(s \o r) /\ SubSeq(s \o r, 1, Len(s)) = s
    BY <1>1, <1>2, <1>3
  <2> QED
    OBVIOUS
<1> QED
  BY <1>1, <1>4, <1>5, <1>6

\* Every step of the job is one that SealedIsFrozen allows.
LEMMA FrozenStep ==
  ControlInv /\ DyingInv /\ [Next]_vars
    => [\A n \in Tuples :
          /\ n \in sealed => committed'[n] = committed[n]
          /\ Len(committed[n]) <= Len(committed'[n])
          /\ SubSeq(committed'[n], 1, Len(committed[n])) = committed[n]]_vars
<1> SUFFICES ASSUME ControlInv, DyingInv, Next
             PROVE  \A n \in Tuples :
                      /\ n \in sealed => committed'[n] = committed[n]
                      /\ Len(committed[n]) <= Len(committed'[n])
                      /\ SubSeq(committed'[n], 1, Len(committed[n])) = committed[n]
  OBVIOUS
<1>0. TypeOK
  BY DEF ControlInv
<1>1. ASSUME UNCHANGED committed
      PROVE  \A n \in Tuples :
                /\ n \in sealed => committed'[n] = committed[n]
                /\ Len(committed[n]) <= Len(committed'[n])
                /\ SubSeq(committed'[n], 1, Len(committed[n])) = committed[n]
  <2>1. \A n \in Tuples : committed[n] \in Seq(Hits)
    BY <1>0 DEF TypeOK
  <2>2. \A s \in Seq(Hits) : Len(s) <= Len(s) /\ SubSeq(s, 1, Len(s)) = s
    OBVIOUS
  <2> QED
    BY <1>1, <2>1, <2>2
<1>2. ASSUME NEW t \in Threads, FlushCluster(t)
      PROVE  \E n \in Tuples : n \notin sealed /\ CommitCluster(n, t)
  BY <1>2, CallAssumption DEF FlushCluster, ControlInv, TypeOK, LockInv, LifeCycle
<1>3. ASSUME NEW t \in Threads, DestroyContext(t)
      PROVE  \E n \in Tuples : n \notin sealed /\ CommitCluster(n, t)
  BY <1>3 DEF DestroyContext, ControlInv, TypeOK, DyingInv
<1>4. CASE \E t \in Threads : FlushCluster(t) \/ DestroyContext(t)
  <2>1. PICK t \in Threads, n \in Tuples : n \notin sealed /\ CommitCluster(n, t)
    BY <1>2, <1>3, <1>4
  <2> QED
    BY <1>0, <2>1, CommitGrows
<1>5. CASE UNCHANGED committed
  BY <1>1, <1>5
<1> QED
  BY <1>4, <1>5
  DEF Next, MainStep, ThreadStep, Finished, vars, job, threads, data, OpenFile, OpenFails,
      AppendWriter, AppendFails, BeginTeardown, DestroyWriter, CommitDataset,
      CommitDatasetFails, CloseFile, CloseFileFails, DestroyContextFails, StartCall, FillHit,
      FillFails, AcquireFile, FlushColumnsFails, FlushFails, EndCall

\* No behaviour writes to a tuple whose dataset is committed, and no entry of
\* any tuple is ever changed or removed.
THEOREM SealedTuplesAreFrozen == Spec => SealedIsFrozen
<1>1. Init => DyingInv
  BY DEF Init, DyingInv
<1> QED
  BY <1>1, ControlCorrect, DyingStep, FrozenStep, PTL DEF Spec, SealedIsFrozen

-------------------------------------------------------------------------------
(* The writer implements the abstract store. *)

Acc == [n \in Tuples |-> AcceptedOf(n)]
Dur == [n \in Tuples |-> Range(committed[n])]
Stat == IF phase = "closed" THEN IF faults = 0 THEN "complete" ELSE "damaged"
        ELSE IF faults = 0 THEN "open" ELSE "faulty"

\* The initial states of the writer are those of the empty open store.
LEMMA InitStore == Init => Store!Init
<1> SUFFICES ASSUME Init PROVE Store!Init
  OBVIOUS
<1>1. \A n \in Tuples : Range(committed[n]) = {} /\ StoredOf(n) = {}
  BY EmptyRange DEF Init, StoredOf
<1>2. \A n \in Tuples : AcceptedOf(n) = {}
  BY <1>1, InitWriter DEF WriterInv, NoHitLost, Init
<1> QED
  BY <1>1, <1>2 DEF Store!Init, Init

\* A step that leaves the hits and the outcome alone is a stutter of the store.
LEMMA Stutter ==
  ASSUME UNCHANGED <<done, committed, faults>>, phase' = "closed" <=> phase = "closed"
  PROVE  UNCHANGED Store!vars
<1>1. Acc' = Acc /\ Dur' = Dur
  BY DEF Acc, Dur, AcceptedOf
<1>2. Stat' = Stat
  BY DEF Stat
<1> QED
  BY <1>1, <1>2 DEF Store!vars, Acc, Dur, Stat

\* An I/O error is a fault of the store.
LEMMA FaultRefines ==
  ASSUME TypeOK, Fault, UNCHANGED <<done, committed>>, phase # "closed", phase' # "closed"
  PROVE  Store!Fault
<1>1. Acc' = Acc /\ Dur' = Dur
  BY DEF Acc, Dur, AcceptedOf
<1>2. faults' # 0
  BY DEF Fault, TypeOK
<1>3. Stat \notin {"complete", "damaged"} /\ Stat' = "faulty"
  BY <1>2 DEF Stat
<1> QED
  BY <1>1, <1>3 DEF Store!Fault, Store!Closed, Acc, Dur, Stat

\* An error while the file is closed leaves the store damaged.
LEMMA CloseFailsRefines ==
  ASSUME TypeOK, CloseFileFails
  PROVE  Store!CloseFails
<1>1. Acc' = Acc /\ Dur' = Dur
  BY DEF CloseFileFails, threads, data, Acc, Dur, AcceptedOf
<1>2. faults' # 0
  BY DEF CloseFileFails, Fault, TypeOK
<1>3. Stat \notin {"complete", "damaged"} /\ Stat' = "damaged"
  BY <1>2 DEF CloseFileFails, Stat
<1> QED
  BY <1>1, <1>3 DEF Store!CloseFails, Store!Closed, Acc, Dur, Stat

\* Filling a hit accepts it.
LEMMA FillRefines ==
  ASSUME ControlInv, NEW t \in Threads, FillHit(t)
  PROVE  \E n \in Tuples, h \in Hits : Store!Accept(n, h)
<1> PICK n \in Tuples, h \in Hits : HitFilled(t, n, h)
  BY FillStored
<1>1. Acc' = [Acc EXCEPT ![n] = @ \union {h}] /\ h \notin Acc[n]
  BY DEF HitFilled, Acc
<1>2. Dur' = Dur
  BY DEF HitFilled, Dur
<1>3. Stat' = Stat /\ Stat \notin {"complete", "damaged"}
  BY DEF Stat, FillHit, ControlInv, LockInv, job
<1>4. Store!Accept(n, h)
  BY <1>1, <1>2, <1>3 DEF Store!Accept, Store!Closed, Acc, Dur, Stat
<1> QED
  BY <1>4

\* Flushing a cluster makes its hits durable.
LEMMA CommitRefines ==
  ASSUME WriterInv, NEW n \in Tuples, NEW t \in Threads, CommitCluster(n, t),
         UNCHANGED <<done, faults, phase>>, phase # "closed"
  PROVE  \E m \in Tuples : \E H \in SUBSET (Acc[m] \ Dur[m]) : Store!Persist(m, H)
<1> PICK H : H = Range(buffer[n][t])
  OBVIOUS
<1>2. H \subseteq Acc[n] \ Dur[n]
  <2>1. H \subseteq StoredOf(n)
    BY DEF StoredOf
  <2> QED
    BY <2>1 DEF WriterInv, NoHitLost, NoHitTwice, Acc, Dur
<1>3. Dur' = [Dur EXCEPT ![n] = @ \union H]
  <2>1. /\ Range(committed'[n]) = Range(committed[n]) \union H
        /\ \A m \in Tuples \ {n} : committed'[m] = committed[m]
    BY CommitStored DEF WriterInv, ControlInv
  <2> QED
    BY <2>1 DEF Dur
<1>4. Acc' = Acc
  BY DEF Acc, AcceptedOf
<1>5. Stat' = Stat /\ Stat \notin {"complete", "damaged"}
  BY DEF Stat
<1>6. Store!Persist(n, H)
  BY <1>2, <1>3, <1>4, <1>5 DEF Store!Persist, Store!Closed, Acc, Dur, Stat
<1> QED
  BY <1>2, <1>6

\* Closing the file closes the store: as complete only if every accepted hit is
\* in the file.
LEMMA CloseRefines ==
  ASSUME WriterInv, WriterInv', CloseFile
  PROVE  Store!Close
<1>1. Acc' = Acc /\ Dur' = Dur /\ faults' = faults
  BY DEF CloseFile, threads, data, Acc, Dur, AcceptedOf
<1>2. CASE faults = 0
  <2>1. \A n \in Tuples : Range(committed[n])' = AcceptedOf(n)'
    <3> SUFFICES ASSUME NEW n \in Tuples PROVE Range(committed'[n]) = AcceptedOf(n)'
      OBVIOUS
    <3>1. phase' = "closed" /\ faults' = 0
      BY <1>1, <1>2 DEF CloseFile
    <3>2. (WriterInv /\ phase = "closed" /\ faults = 0 => Range(committed[n]) = AcceptedOf(n))'
      BY ClosedComplete, PTL
    <3> QED
      BY <3>1, <3>2
  <2>2. Dur = Acc
    BY <1>1, <2>1 DEF Dur, Acc
  <2>3. Stat = "open" /\ Stat' = "complete"
    BY <1>1, <1>2 DEF Stat, CloseFile
  <2> QED
    BY <1>1, <2>2, <2>3 DEF Store!Close, Acc, Dur, Stat
<1>3. CASE faults # 0
  <2>1. Stat = "faulty" /\ Stat' = "damaged"
    BY <1>1, <1>3 DEF Stat, CloseFile
  <2> QED
    BY <1>1, <2>1 DEF Store!Close, Acc, Dur, Stat
<1> QED
  BY <1>2, <1>3

\* Every step of the writer is a step of the store or a stutter.
LEMMA StepRefines == WriterInv /\ WriterInv' /\ [Next]_vars => [Store!Next]_(Store!vars)
<1> SUFFICES ASSUME WriterInv, WriterInv', [Next]_vars PROVE [Store!Next]_(Store!vars)
  OBVIOUS
<1>0. ControlInv /\ TypeOK
  BY DEF WriterInv, ControlInv
<1>1. CASE \/ OpenFails \/ AppendFails \/ CommitDatasetFails
           \/ \E t \in Threads : \/ FillFails(t) \/ FlushColumnsFails(t) \/ FlushFails(t)
                                 \/ DestroyContextFails(t)
  <2>1. Fault /\ UNCHANGED <<done, committed>> /\ phase # "closed" /\ phase' # "closed"
    BY <1>0, <1>1 DEF OpenFails, AppendFails, CommitDatasetFails, FillFails,
       FlushColumnsFails, FlushFails, DestroyContextFails, job, threads, data, ControlInv,
       LockInv, LifeCycle, TypeOK
  <2> QED
    BY <1>0, <2>1, FaultRefines DEF Store!Next
<1>2. ASSUME NEW t \in Threads, FillHit(t) PROVE Store!Next
  BY <1>0, <1>2, FillRefines DEF Store!Next
<1>3. ASSUME NEW t \in Threads, FlushCluster(t) PROVE Store!Next
  <2> PICK n : n = TupleOf[cur[t]]
    OBVIOUS
  <2>1. n \in Tuples /\ phase # "closed"
    BY <1>0, <1>3, CallAssumption DEF FlushCluster, ControlInv, TypeOK, LockInv
  <2>2. CommitCluster(n, t) /\ UNCHANGED <<done, faults, phase>>
    BY <1>3 DEF FlushCluster, job
  <2> QED
    BY <2>1, <2>2, CommitRefines DEF Store!Next, Acc, Dur
<1>4. ASSUME NEW t \in Threads, DestroyContext(t) PROVE Store!Next
  <2> PICK n : n = dying
    OBVIOUS
  <2>1. n \in Tuples /\ phase # "closed"
    BY <1>0, <1>4 DEF DestroyContext, ControlInv, TypeOK, LifeCycle
  <2>2. CommitCluster(n, t) /\ UNCHANGED <<done, faults, phase>>
    BY <1>4 DEF DestroyContext, threads, job
  <2> QED
    BY <2>1, <2>2, CommitRefines DEF Store!Next, Acc, Dur
<1>5. CASE CloseFile
  BY <1>5, CloseRefines DEF Store!Next
<1>8. CASE CloseFileFails
  BY <1>0, <1>8, CloseFailsRefines DEF Store!Next
<1>6. ASSUME UNCHANGED <<done, committed, faults>>, phase' = "closed" <=> phase = "closed"
      PROVE  UNCHANGED Store!vars
  BY <1>6, Stutter
<1>7. CASE \/ OpenFile \/ AppendWriter \/ BeginTeardown \/ CommitDataset
           \/ \E n \in Tuples : DestroyWriter(n)
           \/ \E t \in Threads : AcquireFile(t) \/ EndCall(t) \/ \E c \in Calls : StartCall(t, c)
           \/ UNCHANGED vars
  <2>1. UNCHANGED <<done, committed, faults>> /\ (phase' = "closed" <=> phase = "closed")
    BY <1>0, <1>7 DEF OpenFile, AppendWriter, BeginTeardown, CommitDataset, DestroyWriter,
       AcquireFile, EndCall, StartCall, vars, job, threads, data
  <2> QED
    BY <1>6, <2>1
<1> QED
  BY <1>1, <1>2, <1>3, <1>4, <1>5, <1>7, <1>8 DEF Next, MainStep, ThreadStep, Finished

\* HitRNTupleWriter implements the abstract store of hits.
THEOREM ImplementsStore == Spec => StoreSpec
<1>1. WriterInv /\ WriterInv' /\ [Next]_vars => [Store!Next]_(Store!vars)
  BY StepRefines
<1>2. WriterInv /\ [Next]_vars => WriterInv'
  BY TypeStep, LockStep, CallStep, ContextStep, StoreStep DEF WriterInv, ControlInv
<1> QED
  BY <1>1, <1>2, WriterCorrect, InitStore, PTL DEF Spec, StoreSpec, Store!Spec
===============================================================================
