-------------------------- MODULE LifecycleProofs ---------------------------
(***************************************************************************)
(* LInv is an inductive invariant of Lifecycle; the safety properties of   *)
(* the shutdown follow from it.                                            *)
(***************************************************************************)
EXTENDS Lifecycle, TLAPS

\* Before run() does anything LInv holds.
LEMMA InitLInv == Init => LInv
BY RequestAssumption
   DEF Init, LInv, TypeOK, StoreOutlivesDispatcher, GracefulExit,
       ReadyIsTruthful, InFlight

\* Who is in flight depends on the requests and the probe only.
LEMMA SameInFlight == UNCHANGED hvars => InFlight' = InFlight
BY DEF InFlight, hvars, pvars

\* The steps that set a Boolean or the WAL keep the types; for the others the
\* provers see it at once.
LEMMA TypeSelectError == TypeOK /\ SelectError => TypeOK'
<1>1. SelectError => err' \in BOOLEAN /\ errCh' \in BOOLEAN
      BY DEF SelectError
<1> QED
    BY <1>1 DEF TypeOK, SelectError, dbvars, hvars, pvars

\* The same for the listening socket.
LEMMA TypeListen == TypeOK /\ Listen => TypeOK'
<1>1. TypeOK /\ Listen => errCh' \in BOOLEAN
      BY DEF Listen, TypeOK
<1> QED
    BY <1>1 DEF TypeOK, Listen, dbvars, hvars, pvars

\* The same for the end of Serve.
LEMMA TypeServeReturns == TypeOK /\ ServeReturns => TypeOK'
<1>1. TypeOK /\ ServeReturns => errCh' \in BOOLEAN
      BY DEF ServeReturns, TypeOK
<1> QED
    BY <1>1 DEF TypeOK, ServeReturns, dbvars, hvars, pvars

\* The same for the checkpoint.
LEMMA TypeCheckpoint == TypeOK /\ Checkpoint => TypeOK'
<1> SUFFICES ASSUME TypeOK, Checkpoint PROVE TypeOK'
    OBVIOUS
<1>1. flushed' \in BOOLEAN
      BY DEF TypeOK, Checkpoint
<1>2. wal' \subseteq {"dispatcher", "probe"} \cup Request
      BY DEF TypeOK, Checkpoint
<1> QED
    BY <1>1, <1>2 DEF TypeOK, Checkpoint, svars, hvars, pvars

\* The same for a request's commit, which frees the connection.
LEMMA TypeCommit == ASSUME TypeOK, NEW r \in Request, Commit(r) PROVE TypeOK'
<1>1. wal' \subseteq {"dispatcher", "probe"} \cup Request
      BY DEF TypeOK, Commit
<1>2. \A x \in Request : conn' = x <=> req'[x] = "tx"
      BY RequestAssumption DEF TypeOK, Commit
<1> QED
    BY <1>1, <1>2 DEF TypeOK, Commit, svars, hvars, pvars

\* The same for the store's readiness check.
LEMMA TypeStoreCheck == TypeOK /\ StoreCheck => TypeOK'
<1> SUFFICES ASSUME TypeOK, StoreCheck PROVE TypeOK'
    OBVIOUS
<1>1. wal' \subseteq {"dispatcher", "probe"} \cup Request
      BY DEF TypeOK, StoreCheck
<1>2. failed' \in BOOLEAN
      BY DEF TypeOK, StoreCheck
<1>3. probeLate' \in BOOLEAN
      BY DEF StoreCheck
<1>4. probe' \in {"second", "answer"}
      BY DEF StoreCheck, AfterCheck
<1> QED
    BY <1>1, <1>2, <1>3, <1>4 DEF TypeOK, StoreCheck, svars, hvars, pvars

\* The same for its arrival.
LEMMA TypeProbeArrives == TypeOK /\ ProbeArrives => TypeOK'
<1> SUFFICES ASSUME TypeOK, ProbeArrives PROVE TypeOK'
    OBVIOUS
<1>1. failed' \in BOOLEAN /\ probeLate' \in BOOLEAN
      BY DEF ProbeArrives
<1>2. probe' \in {"first"}
      BY DEF ProbeArrives
<1> QED
    BY <1>1, <1>2 DEF TypeOK, ProbeArrives, svars, dbvars

\* The steps of run() itself preserve LInv: main alone closes the store.
LEMMA MainInv == LInv /\ MainStep => LInv'
<1> SUFFICES ASSUME LInv, MainStep PROVE LInv'
    OBVIOUS
<1> USE SameInFlight
    DEF LInv, TypeOK, StoreOutlivesDispatcher, GracefulExit, ReadyIsTruthful,
        svars, dbvars, hvars, pvars
<1>1. CASE OpenStore
      BY <1>1 DEF OpenStore
<1>2. CASE StartGoroutines
      BY <1>2 DEF StartGoroutines
<1>3. CASE SelectError
  <2>1. TypeOK'
        BY <1>3, TypeSelectError
  <2>2. GracefulExit' /\ StoreOutlivesDispatcher' /\ ReadyIsTruthful'
        BY <1>3 DEF SelectError
  <2> QED
      BY <1>3, <2>1, <2>2 DEF SelectError
<1>4. CASE SelectSignal
      BY <1>4 DEF SelectSignal
<1>5. CASE ShutdownOK
  <2>1. TypeOK'
        BY <1>5 DEF ShutdownOK
  <2>2. GracefulExit' /\ StoreOutlivesDispatcher' /\ ReadyIsTruthful'
        BY <1>5 DEF ShutdownOK
  <2> QED
      BY <1>5, <2>1, <2>2 DEF ShutdownOK
<1>6. CASE ShutdownTimeout
      BY <1>6 DEF ShutdownTimeout
<1>7. CASE DispatcherCancel
      BY <1>7 DEF DispatcherCancel
<1>8. CASE AwaitDispatcher
      BY <1>8 DEF AwaitDispatcher
<1>9. CASE Checkpoint
  <2>1. TypeOK'
        BY <1>9, TypeCheckpoint
  <2>2. GracefulExit' /\ StoreOutlivesDispatcher' /\ ReadyIsTruthful'
        BY <1>9 DEF Checkpoint
  <2> QED
      BY <1>9, <2>1, <2>2 DEF Checkpoint
<1>10. CASE CloseDB
      BY <1>10 DEF CloseDB
<1> QED
    BY <1>1, <1>2, <1>3, <1>4, <1>5, <1>6, <1>7, <1>8, <1>9, <1>10
       DEF MainStep

\* A failed start, a signal and the end of the process preserve LInv.
LEMMA ProcessInv == LInv /\ (BootFails \/ Signal \/ Kill) => LInv'
<1> SUFFICES ASSUME LInv, BootFails \/ Signal \/ Kill PROVE LInv'
    OBVIOUS
<1> USE SameInFlight
    DEF LInv, TypeOK, StoreOutlivesDispatcher, GracefulExit, ReadyIsTruthful,
        svars, dbvars, hvars, pvars, Alive
<1>1. CASE BootFails
      BY <1>1 DEF BootFails
<1>2. CASE Signal
      BY <1>2 DEF Signal
<1>3. CASE Kill
      BY <1>3 DEF Kill
<1> QED
    BY <1>1, <1>2, <1>3

\* The server's and the dispatcher's goroutines preserve LInv: a dispatcher
\* that returned neither marks nor runs again.
LEMMA GoroutineInv ==
    LInv /\ (ServerStep \/ ServeReturns \/ DispatcherStep \/ DispatcherMarks)
        => LInv'
<1> SUFFICES ASSUME LInv,
                    ServerStep \/ ServeReturns \/ DispatcherStep \/ DispatcherMarks
             PROVE  LInv'
    OBVIOUS
<1> USE SameInFlight
    DEF LInv, TypeOK, StoreOutlivesDispatcher, GracefulExit, ReadyIsTruthful,
        svars, dbvars, hvars, pvars, Alive
<1>1. CASE Listen
  <2>1. TypeOK'
        BY <1>1, TypeListen
  <2>2. GracefulExit' /\ StoreOutlivesDispatcher' /\ ReadyIsTruthful'
        BY <1>1 DEF Listen
  <2> QED
      BY <1>1, <2>1, <2>2 DEF Listen
<1>2. CASE Serve
      BY <1>2 DEF Serve
<1>3. CASE ServeReturns
  <2>1. TypeOK'
        BY <1>3, TypeServeReturns
  <2>2. GracefulExit' /\ StoreOutlivesDispatcher' /\ ReadyIsTruthful'
        BY <1>3 DEF ServeReturns
  <2> QED
      BY <1>3, <2>1, <2>2 DEF ServeReturns
<1>4. CASE RunStarts
      BY <1>4 DEF RunStarts
<1>5. CASE RunDrains
      BY <1>5 DEF RunDrains
<1>6. CASE RunReturns
      BY <1>6 DEF RunReturns
<1>7. CASE DispatcherMarks
      BY <1>7 DEF DispatcherMarks
<1> QED
    BY <1>1, <1>2, <1>3, <1>4, <1>5, <1>6, <1>7 DEF ServerStep, DispatcherStep

\* A webhook request's steps preserve LInv: on the orderly path there is none
\* in flight once main has gone past srv.Shutdown, and none can arrive.
LEMMA RequestInv ==
    ASSUME LInv, NEW r \in Request,
           Arrive(r) \/ BeginTx(r) \/ Commit(r) \/ Fail(r) \/ Reply(r)
    PROVE  LInv'
<1> USE RequestAssumption
    DEF LInv, TypeOK, StoreOutlivesDispatcher, GracefulExit, ReadyIsTruthful,
        InFlight, svars, dbvars, hvars, pvars, Alive
<1>1. CASE Arrive(r)
      BY <1>1 DEF Arrive, Accepting
<1>2. CASE BeginTx(r)
      BY <1>2 DEF BeginTx
<1>3. CASE Commit(r)
  <2>1. TypeOK'
        BY <1>3, TypeCommit
  <2>2. GracefulExit' /\ StoreOutlivesDispatcher' /\ ReadyIsTruthful'
        BY <1>3 DEF Commit
  <2> QED
      BY <1>3, <2>1, <2>2 DEF Commit
<1>4. CASE Fail(r)
      BY <1>4 DEF Fail
<1>5. CASE Reply(r)
      BY <1>5 DEF Reply
<1> QED
    BY <1>1, <1>2, <1>3, <1>4, <1>5

\* The readiness probe's steps preserve LInv.
LEMMA ProbeInv ==
    LInv /\ (ProbeArrives \/ StoreCheck \/ DispatcherCheck \/ ProbeAnswer) => LInv'
<1> SUFFICES ASSUME LInv,
                    ProbeArrives \/ StoreCheck \/ DispatcherCheck \/ ProbeAnswer
             PROVE  LInv'
    OBVIOUS
<1> USE DEF LInv, TypeOK, StoreOutlivesDispatcher, GracefulExit,
            ReadyIsTruthful, InFlight, svars, dbvars, hvars, pvars, Alive
<1>1. CASE ProbeArrives
  <2>1. TypeOK'
        BY <1>1, TypeProbeArrives
  <2>2. GracefulExit' /\ StoreOutlivesDispatcher' /\ ReadyIsTruthful'
        BY <1>1 DEF ProbeArrives, Accepting
  <2> QED
      BY <1>1, <2>1, <2>2 DEF ProbeArrives, Accepting
<1>2. CASE StoreCheck
  <2>1. TypeOK'
        BY <1>2, TypeStoreCheck
  <2>2. GracefulExit' /\ StoreOutlivesDispatcher' /\ ReadyIsTruthful'
        BY <1>2 DEF StoreCheck, Checker, AfterCheck
  <2> QED
      BY <1>2, <2>1, <2>2 DEF StoreCheck, Checker, AfterCheck
<1>3. CASE DispatcherCheck
      BY <1>3 DEF DispatcherCheck, Checker, AfterCheck
<1>4. CASE ProbeAnswer
      BY <1>4 DEF ProbeAnswer
<1> QED
    BY <1>1, <1>2, <1>3, <1>4

\* LInv holds throughout every life of the process.
THEOREM LifecycleInvariance == Spec => []LInv
<1>1. LInv /\ [Next]_vars => LInv'
  <2> SUFFICES ASSUME LInv, [Next]_vars PROVE LInv'
      OBVIOUS
  <2>1. CASE Next
        BY <2>1, MainInv, ProcessInv, GoroutineInv, RequestInv, ProbeInv
           DEF Next
  <2>2. CASE UNCHANGED vars
        BY <2>2 DEF vars, svars, dbvars, hvars, pvars, LInv, TypeOK,
                    StoreOutlivesDispatcher, GracefulExit, ReadyIsTruthful,
                    InFlight
  <2> QED
      BY <2>1, <2>2
<1> QED
    BY <1>1, InitLInv, PTL DEF Spec

\* The database is never closed, nor its last checkpoint taken, under a
\* dispatcher that may still mark a group, on any path through run().
THEOREM StoreIsClosedLast == Spec => []StoreOutlivesDispatcher
BY LifecycleInvariance, PTL DEF LInv

\* run() returns nil only after a complete shutdown: nothing in flight, the
\* dispatcher returned, every commit checkpointed.
THEOREM OrderlyExit == Spec => []GracefulExit
BY LifecycleInvariance, PTL DEF LInv

\* A probe is answered 200 only if the dispatcher was still running after the
\* probe's wait for the connection.
THEOREM ProbesTellTheTruth == Spec => []ReadyIsTruthful
BY LifecycleInvariance, PTL DEF LInv

\* The stages of run(), the goroutines and the probe stay in their ranges, and
\* the only connection is with the request that has a transaction open.
THEOREM LifecycleTypes == Spec => []TypeOK
BY LifecycleInvariance, PTL DEF LInv
=============================================================================
