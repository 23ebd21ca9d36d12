----------------------------- MODULE Lifecycle ------------------------------
(***************************************************************************)
(* One life of the process: run() of main.go with the goroutines it starts *)
(* (the HTTP server, the dispatcher), the HTTP requests in flight, and the *)
(* single database connection they all share.                              *)
(*                                                                         *)
(* The dispatcher is reduced to the phases main can see (module Dispatcher *)
(* has its inside): Run starting, polling and marking groups, draining its *)
(* workers, returned.  A webhook request is reduced to the transaction of  *)
(* Save; the readiness probe to its two checks.                            *)
(***************************************************************************)
EXTENDS Naturals, FiniteSets

CONSTANT Request    \* the webhook requests that arrive during this life

\* The other users of the connection.
ASSUME RequestAssumption == {"free", "dispatcher", "probe"} \cap Request = {}

VARIABLES
    main,       \* where run() is
    err,        \* run() is going to return an error
    ctxDone,    \* SIGINT or SIGTERM was received: ctx is cancelled
    dispCancel, \* dispatcherCancel() was called
    start,      \* where the goroutine of srv.Start is
    errCh,      \* srv.Start's error waits in errCh
    inShutdown, \* httpServer.Shutdown was called
    disp,       \* where the dispatcher goroutine is
    store,      \* the sql.DB
    conn,       \* who holds its single connection
    wal,        \* whose commits are in the WAL only
    flushed,    \* the checkpoint of Close did not fail
    req,        \* where each webhook request is
    probe,      \* where the readiness probe is
    failed,     \* one of its checks has failed
    probeLate   \* the dispatcher had returned when its store check ended

pvars == <<probe, failed, probeLate>>
hvars == <<req, pvars>>
svars == <<start, errCh, inShutdown>>
dbvars == <<store, conn, wal, flushed>>
vars == <<main, err, ctxDone, dispCancel, disp, svars, dbvars, hvars>>

Alive == main \notin {"exited", "killed"}

Init ==
    /\ main = "boot"
    /\ err = FALSE
    /\ ctxDone = FALSE
    /\ dispCancel = FALSE
    /\ start = "none"
    /\ errCh = FALSE
    /\ inShutdown = FALSE
    /\ disp = "none"
    /\ store = "none"
    /\ conn = "free"
    /\ wal = {}
    /\ flushed = TRUE
    /\ req = [r \in Request |-> "none"]
    /\ probe = "idle"
    /\ failed = FALSE
    /\ probeLate = FALSE

-----------------------------------------------------------------------------
(* run()                                                                   *)

\* sqlite.New: the pool is opened and the pragmas are set.
OpenStore ==
    /\ main = "boot"
    /\ main' = "wire"
    /\ store' = "open"
    /\ UNCHANGED <<err, ctxDone, dispCancel, disp, svars, conn, wal, flushed,
                   hvars>>

\* config.Load, sqlite.New or template.NewEngine fails: nothing was started.
BootFails ==
    /\ main \in {"boot", "wire"}
    /\ main' = "exited"
    /\ err' = TRUE
    /\ UNCHANGED <<ctxDone, dispCancel, disp, svars, dbvars, hvars>>

\* The goroutines of dispatcher.Run and srv.Start are started.
StartGoroutines ==
    /\ main = "wire"
    /\ main' = "select"
    /\ disp' = "starting"
    /\ start' = "listen"
    /\ UNCHANGED <<err, ctxDone, dispCancel, errCh, inShutdown, dbvars, hvars>>

\* signal.NotifyContext (called while wiring): a second signal changes nothing.
Signal ==
    /\ Alive /\ main # "boot"
    /\ ~ctxDone
    /\ ctxDone' = TRUE
    /\ UNCHANGED <<main, err, dispCancel, disp, svars, dbvars, hvars>>

\* SIGKILL, out of memory: the process is gone.
Kill ==
    /\ Alive
    /\ main' = "killed"
    /\ UNCHANGED <<err, ctxDone, dispCancel, disp, svars, dbvars, hvars>>

\* case err := <-errCh: on to cleanup(), without srv.Shutdown.
SelectError ==
    /\ main = "select"
    /\ errCh
    /\ errCh' = FALSE
    /\ err' = TRUE
    /\ main' = "cancel"
    /\ UNCHANGED <<ctxDone, dispCancel, start, inShutdown, disp, dbvars, hvars>>

\* case <-ctx.Done(): srv.Shutdown closes the listener and idle connections.
SelectSignal ==
    /\ main = "select"
    /\ ctxDone
    /\ main' = "shutdown"
    /\ inShutdown' = TRUE
    /\ UNCHANGED <<err, ctxDone, dispCancel, start, errCh, disp, dbvars, hvars>>

\* A request has reached a handler and its answer is not written yet.
InFlight ==
    {r \in Request : req[r] \in {"new", "tx", "saved"}}
        \cup (IF probe \in {"first", "second", "answer"} THEN {"probe"} ELSE {})

\* Seeded fault: Shutdown does not wait for the requests in flight.
ShutdownOK_NoWait ==
    /\ main = "shutdown"
    /\ start # "accepting"
    /\ main' = "cancel"
    /\ UNCHANGED <<err, ctxDone, dispCancel, disp, svars, dbvars, hvars>>

\* httpServer.Shutdown returns nil: Serve has left its accept loop, or never
\* entered it, and every request is answered.
ShutdownOK ==
    /\ main = "shutdown"
    /\ start # "accepting"
    /\ InFlight = {}
    /\ main' = "cancel"
    /\ UNCHANGED <<err, ctxDone, dispCancel, disp, svars, dbvars, hvars>>

\* Seeded fault: Shutdown is called with a context that never expires.
ShutdownTimeout_Never ==
    /\ FALSE
    /\ UNCHANGED vars

\* SHUTDOWN_TIMEOUT expires first: on to cleanup(), requests still in flight.
ShutdownTimeout ==
    /\ main = "shutdown"
    /\ start # "accepting"
    /\ main' = "cancel"
    /\ err' = TRUE
    /\ UNCHANGED <<ctxDone, dispCancel, disp, svars, dbvars, hvars>>

\* Seeded fault: main relies on the signal to stop the dispatcher.
DispatcherCancel_Missing ==
    /\ main = "cancel"
    /\ main' = "await"
    /\ UNCHANGED <<err, ctxDone, dispCancel, disp, svars, dbvars, hvars>>

\* dispatcherCancel(), in cleanup() and in step 2/3.
DispatcherCancel ==
    /\ main = "cancel"
    /\ dispCancel' = TRUE
    /\ main' = "await"
    /\ UNCHANGED <<err, ctxDone, disp, svars, dbvars, hvars>>

\* Seeded fault: the store is closed without waiting for the dispatcher.
AwaitDispatcher_Skipped ==
    /\ main = "await"
    /\ main' = "close"
    /\ UNCHANGED <<err, ctxDone, dispCancel, disp, svars, dbvars, hvars>>

\* <-dispatcherDone
AwaitDispatcher ==
    /\ main = "await"
    /\ disp = "done"
    /\ main' = "close"
    /\ UNCHANGED <<err, ctxDone, dispCancel, disp, svars, dbvars, hvars>>

\* store.Close: PRAGMA wal_checkpoint(TRUNCATE) on the single connection.  A
\* failure is logged and the store is closed anyway.
Checkpoint ==
    /\ main = "close"
    /\ store = "open"
    /\ conn = "free"
    /\ store' = "checkpointed"
    /\ \/ wal' = {} /\ UNCHANGED flushed
       \/ flushed' = FALSE /\ UNCHANGED wal
    /\ UNCHANGED <<main, err, ctxDone, dispCancel, disp, svars, conn, hvars>>

\* db.Close: no new statement may start; a transaction that holds the
\* connection may still end.
CloseDB ==
    /\ main = "close"
    /\ store = "checkpointed"
    /\ store' = "closed"
    /\ main' = "exited"
    /\ UNCHANGED <<err, ctxDone, dispCancel, disp, svars, conn, wal, flushed,
                   hvars>>

-----------------------------------------------------------------------------
(* The goroutine of srv.Start                                              *)

\* lc.Listen: it may fail, the more so when ctx is already cancelled.
Listen ==
    /\ Alive
    /\ start = "listen"
    /\ \/ start' = "serve" /\ UNCHANGED errCh
       \/ start' = "returned" /\ errCh' = TRUE
    /\ UNCHANGED <<main, err, ctxDone, dispCancel, inShutdown, disp, dbvars,
                   hvars>>

\* httpServer.Serve enters its accept loop unless Shutdown came first.
Serve ==
    /\ Alive
    /\ start = "serve"
    /\ start' = IF inShutdown THEN "returned" ELSE "accepting"
    /\ UNCHANGED <<main, err, ctxDone, dispCancel, errCh, inShutdown, disp,
                   dbvars, hvars>>

\* Serve returns: http.ErrServerClosed becomes nil, an accept error goes to
\* errCh.  After an error the open connections are still being served.
ServeReturns ==
    /\ Alive
    /\ start = "accepting"
    /\ \/ inShutdown /\ start' = "returned" /\ UNCHANGED errCh
       \/ ~inShutdown /\ start' = "failed" /\ errCh' = TRUE
    /\ UNCHANGED <<main, err, ctxDone, dispCancel, inShutdown, disp, dbvars,
                   hvars>>

-----------------------------------------------------------------------------
(* The dispatcher goroutine, as main sees it                               *)

RunStarts ==
    /\ Alive
    /\ disp = "starting"
    /\ disp' = "running"
    /\ UNCHANGED <<main, err, ctxDone, dispCancel, svars, dbvars, hvars>>

\* poll marks a group, with a context that the shutdown does not cancel.
DispatcherMarks ==
    /\ Alive
    /\ disp = "running"
    /\ store # "closed"
    /\ conn = "free"
    /\ wal' = wal \cup {"dispatcher"}
    /\ UNCHANGED <<main, err, ctxDone, dispCancel, svars, disp, store, conn,
                   flushed, hvars>>

\* dispatcherCtx derives from ctx: a signal cancels it as dispatcherCancel does.
RunDrains ==
    /\ Alive
    /\ disp = "running"
    /\ ctxDone \/ dispCancel
    /\ disp' = "draining"
    /\ UNCHANGED <<main, err, ctxDone, dispCancel, svars, dbvars, hvars>>

\* dispatcherDone <- dispatcher.Run(...); the channel has room for it.
RunReturns ==
    /\ Alive
    /\ disp = "draining"
    /\ disp' = "done"
    /\ UNCHANGED <<main, err, ctxDone, dispCancel, svars, dbvars, hvars>>

-----------------------------------------------------------------------------
(* Requests                                                                *)

\* New requests are served while the listener or a kept-alive connection is
\* open.
Accepting == Alive /\ start \in {"accepting", "failed"} /\ ~inShutdown

Arrive(r) ==
    /\ Accepting
    /\ req[r] = "none"
    /\ req' = [req EXCEPT ![r] = "new"]
    /\ UNCHANGED <<main, err, ctxDone, dispCancel, svars, disp, dbvars, pvars>>

\* db.BeginTx waits for the connection.
BeginTx(r) ==
    /\ Alive
    /\ req[r] = "new"
    /\ store # "closed"
    /\ conn = "free"
    /\ conn' = r
    /\ req' = [req EXCEPT ![r] = "tx"]
    /\ UNCHANGED <<main, err, ctxDone, dispCancel, svars, disp, store, wal,
                   flushed, pvars>>

Commit(r) ==
    /\ Alive
    /\ req[r] = "tx"
    /\ conn' = "free"
    /\ wal' = wal \cup {r}
    /\ req' = [req EXCEPT ![r] = "saved"]
    /\ UNCHANGED <<main, err, ctxDone, dispCancel, svars, disp, store, flushed,
                   pvars>>

\* Seeded fault: the transaction is not rolled back on an error.
Fail_NoRollback(r) ==
    /\ Alive
    /\ req[r] \in {"new", "tx"}
    /\ req' = [req EXCEPT ![r] = "failed"]
    /\ UNCHANGED <<main, err, ctxDone, dispCancel, svars, disp, dbvars, pvars>>

\* An error at any point of the handler (a closed database, a bad payload, a
\* client that went away): rollback and an error answer.
Fail(r) ==
    /\ Alive
    /\ req[r] \in {"new", "tx"}
    /\ conn' = IF req[r] = "tx" THEN "free" ELSE conn
    /\ req' = [req EXCEPT ![r] = "failed"]
    /\ UNCHANGED <<main, err, ctxDone, dispCancel, svars, disp, store, wal,
                   flushed, pvars>>

\* 200 is written.
Reply(r) ==
    /\ Alive
    /\ req[r] = "saved"
    /\ req' = [req EXCEPT ![r] = "ok"]
    /\ UNCHANGED <<main, err, ctxDone, dispCancel, svars, disp, dbvars, pvars>>

-----------------------------------------------------------------------------
(* GET /readyz: HandleReadyz asks the checkers one after the other         *)

ProbeArrives ==
    /\ Accepting
    /\ probe \in {"idle", "ready", "unready"}
    /\ probe' = "first"
    /\ failed' = FALSE
    /\ probeLate' = FALSE
    /\ UNCHANGED <<main, err, ctxDone, dispCancel, svars, disp, dbvars, req>>

\* Seeded fault: server.New is given the checkers the other way round.
Checker_Swapped(turn) == IF turn = "first" THEN "dispatcher" ELSE "store"

\* server.New is given storeChecker, then dispatcher.
Checker(turn) == IF turn = "first" THEN "store" ELSE "dispatcher"

\* The loop goes on to the next checker, also after a failure.
AfterCheck == IF probe = "first" THEN "second" ELSE "answer"

\* Store.Check waits for the connection and writes to health_check; any error,
\* a closed database included, fails the check.
StoreCheck ==
    /\ Alive
    /\ probe \in {"first", "second"}
    /\ Checker(probe) = "store"
    /\ \/ /\ store # "closed"
          /\ conn = "free"
          /\ wal' = wal \cup {"probe"}
          /\ UNCHANGED failed
       \/ failed' = TRUE /\ UNCHANGED wal
    /\ probeLate' = (disp = "done")
    /\ probe' = AfterCheck
    /\ UNCHANGED <<main, err, ctxDone, dispCancel, svars, disp, store, conn,
                   flushed, req>>

\* Dispatcher.Check reads the running flag, which stays set while the workers
\* are drained.
DispatcherCheck ==
    /\ Alive
    /\ probe \in {"first", "second"}
    /\ Checker(probe) = "dispatcher"
    /\ failed' = (failed \/ disp \notin {"running", "draining"})
    /\ probe' = AfterCheck
    /\ UNCHANGED <<main, err, ctxDone, dispCancel, svars, disp, dbvars, req,
                   probeLate>>

\* 200 when no check failed, otherwise 503.
ProbeAnswer ==
    /\ Alive
    /\ probe = "answer"
    /\ probe' = IF failed THEN "unready" ELSE "ready"
    /\ UNCHANGED <<main, err, ctxDone, dispCancel, svars, disp, dbvars, req,
                   failed, probeLate>>

-----------------------------------------------------------------------------

MainStep ==
    \/ OpenStore \/ StartGoroutines
    \/ SelectError \/ SelectSignal
    \/ ShutdownOK \/ ShutdownTimeout
    \/ DispatcherCancel \/ AwaitDispatcher \/ Checkpoint \/ CloseDB

ServerStep == Listen \/ Serve

DispatcherStep == RunStarts \/ RunDrains \/ RunReturns

Next ==
    \/ MainStep \/ BootFails \/ Signal \/ Kill
    \/ ServerStep \/ ServeReturns
    \/ DispatcherStep \/ DispatcherMarks
    \/ \E r \in Request :
           Arrive(r) \/ BeginTx(r) \/ Commit(r) \/ Fail(r) \/ Reply(r)
    \/ ProbeArrives \/ StoreCheck \/ DispatcherCheck \/ ProbeAnswer

Spec == Init /\ [][Next]_vars

-----------------------------------------------------------------------------
(* Safety                                                                  *)

\* Each variable has its type, and the connection's holder is the one request
\* that has a transaction open.
TypeOK ==
    /\ main \in {"boot", "wire", "select", "shutdown", "cancel", "await",
                 "close", "exited", "killed"}
    /\ err \in BOOLEAN /\ ctxDone \in BOOLEAN /\ dispCancel \in BOOLEAN
    /\ errCh \in BOOLEAN /\ inShutdown \in BOOLEAN /\ flushed \in BOOLEAN
    /\ failed \in BOOLEAN /\ probeLate \in BOOLEAN
    /\ start \in {"none", "listen", "serve", "accepting", "failed", "returned"}
    /\ disp \in {"none", "starting", "running", "draining", "done"}
    /\ store \in {"none", "open", "checkpointed", "closed"}
    /\ conn \in {"free"} \cup Request
    /\ wal \subseteq {"dispatcher", "probe"} \cup Request
    /\ req \in [Request -> {"none", "new", "tx", "saved", "ok", "failed"}]
    /\ probe \in {"idle", "first", "second", "answer", "ready", "unready"}
    /\ \A r \in Request : conn = r <=> req[r] = "tx"

\* The store is checkpointed and closed only after dispatcher.Run returned, on
\* the orderly path (main.go:171-177) as in cleanup() (main.go:134-142): a
\* MarkSent never meets a closed database.
StoreOutlivesDispatcher ==
    store \in {"checkpointed", "closed"} => disp = "done"

\* When run() returns nil (main.go:183) the shutdown was complete: every
\* request that reached a handler was answered, the dispatcher returned, and
\* nothing was committed after a successful checkpoint, so the WAL is empty.
GracefulExit ==
    main = "exited" /\ ~err =>
        /\ InFlight = {}
        /\ disp = "done"
        /\ store = "closed"
        /\ flushed => wal = {}

\* A readiness probe is answered 200 only if the dispatcher was still running
\* when the store check was over, however long that check waited for the
\* connection and whatever happened meanwhile: the running flag is read after
\* the wait (health.go:37-45, main.go:123-124), so that the answer is never
\* based on what was true before it.
ReadyIsTruthful == probe = "ready" => ~probeLate

-----------------------------------------------------------------------------
(* The invariant the safety properties rest on                             *)

\* Once run() is past srv.Shutdown without an error no request is in flight
\* and none can arrive; the store is closed by main alone, after the
\* dispatcher; nothing commits once it is checkpointed.
LInv ==
    /\ TypeOK
    /\ StoreOutlivesDispatcher
    /\ GracefulExit
    /\ ReadyIsTruthful
    /\ main \in {"boot", "wire"} => disp = "none" /\ start = "none"
    /\ main = "boot" <=> store = "none" /\ main \notin {"exited", "killed"}
    /\ main = "shutdown" => inShutdown
    /\ main = "close" => disp = "done"
    /\ store = "checkpointed" => main \in {"close", "killed"}
    /\ store = "closed" => main = "exited"
    /\ main \in {"cancel", "await", "close"} /\ ~err => inShutdown /\ InFlight = {}
    /\ main = "close" /\ store = "checkpointed" /\ ~err /\ flushed => wal = {}
    /\ probeLate => disp = "done"
    /\ probe = "answer" /\ ~failed => ~probeLate

-----------------------------------------------------------------------------
(* Liveness                                                                *)

\* The scheduler runs every goroutine that can run, SHUTDOWN_TIMEOUT expires,
\* and a statement or a transaction that has the connection ends.  Nothing is
\* assumed of a request that is not at the database, since its client may be
\* slow, nor of a dispatcher that drains, since it waits for its workers.
FairSpec ==
    /\ Spec
    /\ WF_vars(MainStep)
    /\ WF_vars(ServerStep)
    /\ WF_vars(inShutdown /\ ServeReturns)
    /\ WF_vars(RunStarts \/ RunDrains)
    /\ \A r \in Request : WF_vars(req[r] = "tx" /\ (Commit(r) \/ Fail(r)))

\* A draining dispatcher returns.  It does when the sends under way do
\* (ShutdownCompletes of Dispatcher); an SMTP server that says nothing can keep
\* an email, and with it dispatcher.Run, for ever.
DrainEnds == WF_vars(RunReturns)

\* After a signal that main has begun to listen for, the process ends, however
\* slow the clients of the requests in flight are, provided that the dispatcher
\* returns: main waits for it without a limit (main.go:172).  When the server
\* cannot listen or stops accepting it ends too (main.go:152-154): it does not
\* linger without a listener.
ProcessEnds == DrainEnds => (ctxDone \/ errCh ~> ~Alive)
=============================================================================
