------------------------------- MODULE Intake -------------------------------
(***************************************************************************)
(* The way of a webhook request to the database and back: HandleWebhook    *)
(* and Service.Receive of internal/alerts between the middleware's         *)
(* Logging and Recovery, and the transaction of Store.Save at the grain of *)
(* its statements.  Requests run concurrently; the pool has a single       *)
(* connection, which a transaction holds from BeginTx to its end and which *)
(* the dispatcher's query needs too.                                       *)
(*                                                                         *)
(* The context of a request is cancelled when net/http notices that its    *)
(* client has gone.  A second delivery of a payload by Alertmanager is one *)
(* more request with that payload.  A handler may panic at any step.       *)
(***************************************************************************)
EXTENDS Validation, Middleware, FiniteSets

CONSTANTS Request,   \* the requests that are made
          Payload    \* the alert groups they carry

ASSUME IntakeAssumption ==
    /\ {"none", "poller"} \cap Request = {}
    /\ Payload \subseteq AlertGroup
    /\ Payload # {}

\* What arrives: a body that decodes to a group; one that carries a group but
\* is not read to its end, because the connection breaks or ReadTimeout
\* passes; or one that does not get far enough for its group to matter.
Input == [wire : {"ok", "broken"}, group : Payload]
             \cup [wire : {"contentType", "tooLarge", "malformed"},
                   group : {CHOOSE p \in Payload : TRUE}]

\* The rows of one group: who wrote it last, and its rows in table alerts.
EmptyRow == [by |-> "none", rows |-> {}]

VARIABLES
    in,         \* what each request carries
    pc,         \* where its handler is
    cancelled,  \* r.Context() is cancelled
    writer,     \* its response writer
    logged,     \* the status and length of Logging's entry for it
    conn,       \* who holds the connection
    tx,         \* what the open transaction sees
    db,         \* what is committed
    log,        \* the requests whose transactions committed, in order
    \* Auxiliary: what the properties say about the past.
    panicked,   \* the handler panicked
    before      \* the requests that were over when this one arrived

rvars == <<in, cancelled>>
avars == <<panicked, before>>
vars == <<rvars, pc, writer, logged, conn, tx, db, log, avars>>

Init ==
    /\ in = [r \in Request |->
                [wire |-> "malformed", group |-> CHOOSE p \in Payload : TRUE]]
    /\ pc = [r \in Request |-> "none"]
    /\ cancelled = [r \in Request |-> FALSE]
    /\ writer = [r \in Request |-> NewWriter]
    /\ logged = [r \in Request |-> <<0, 0>>]
    /\ conn = "none"
    /\ db = [g \in Groups |-> EmptyRow]
    /\ tx = db
    /\ log = <<>>
    /\ panicked = [r \in Request |-> FALSE]
    /\ before = [r \in Request |-> {}]

KeyOf(r) == in[r].group.groupKey
AlertsOf(r) == DOMAIN in[r].group.alerts

\* The index of the alert that r's transaction inserts next.
NextAlert(r) == 1 + Cardinality({x \in tx[KeyOf(r)].rows : x[1] = r})

\* The handler sets the status of its answer; the body follows.
Respond(r, c) ==
    /\ pc' = [pc EXCEPT ![r] = "body"]
    /\ writer' = [writer EXCEPT ![r] = WriteHeader(@, c)]

\* Seeded fault: a validation error loses its sentinel and is answered as an
\* internal error.
RefusalCode_Lost(x) ==
    CASE x.wire = "contentType" -> 415
      [] x.wire = "tooLarge" -> 413
      [] x.wire \in {"malformed", "broken"} -> 400
      [] OTHER -> IF ValidatePayload(x.group) = "nil" THEN 0 ELSE 500

\* The answer to a request that does not reach the store; 0 if it does.
RefusalCode(x) ==
    CASE x.wire = "contentType" -> 415
      [] x.wire = "tooLarge" -> 413
      [] x.wire \in {"malformed", "broken"} -> 400
      [] OTHER -> CASE ValidatePayload(x.group) = Invalid -> 400
                    [] ValidatePayload(x.group) = TooLarge -> 413
                    [] OTHER -> 0

\* No step of r's handler can follow, or none that stores anything.
Over(r) == pc[r] \in {"done", "lost"} \/ cancelled[r]

\* A request arrives, is decoded and validated.
HandleWebhook(r) ==
    /\ pc[r] = "none"
    /\ \E x \in Input :
           /\ in' = [in EXCEPT ![r] = x]
           /\ \/ RefusalCode(x) # 0 /\ Respond(r, RefusalCode(x))
              \/ /\ RefusalCode(x) = 0
                 /\ pc' = [pc EXCEPT ![r] = "begin"]
                 /\ UNCHANGED writer
    /\ before' = [before EXCEPT ![r] = {s \in Request : Over(s)}]
    /\ UNCHANGED <<cancelled, logged, conn, tx, db, log, panicked>>

\* Seeded fault: Save is called with a context of its own.
CtxAlive_Detached(r) == TRUE

\* The context that HandleWebhook passes to Receive and Save to each of its
\* statements is that of the request.
CtxAlive(r) == ~cancelled[r]

\* s.db.BeginTx: waits for the connection.
BeginTx(r) ==
    /\ pc[r] = "begin"
    /\ CtxAlive(r)
    /\ conn = "none"
    /\ conn' = r
    /\ tx' = db
    /\ pc' = [pc EXCEPT ![r] = "upsert"]
    /\ UNCHANGED <<rvars, writer, logged, avars, db, log>>

\* INSERT ... ON CONFLICT(group_key) DO UPDATE ... RETURNING id: the group's
\* id, and with it its alerts, stay as they are.
Upsert(r) ==
    /\ pc[r] = "upsert"
    /\ CtxAlive(r)
    /\ tx' = [tx EXCEPT ![KeyOf(r)].by = r]
    /\ pc' = [pc EXCEPT ![r] = "delete"]
    /\ UNCHANGED <<rvars, writer, logged, avars, conn, db, log>>

\* Seeded fault: the old alerts are not deleted.
DeleteOld_Missing(r) ==
    /\ pc[r] = "delete"
    /\ CtxAlive(r)
    /\ pc' = [pc EXCEPT ![r] = "insert"]
    /\ UNCHANGED <<rvars, tx, writer, logged, avars, conn, db, log>>

\* DELETE FROM alerts WHERE alert_group_id = ?
DeleteOld(r) ==
    /\ pc[r] = "delete"
    /\ CtxAlive(r)
    /\ tx' = [tx EXCEPT ![KeyOf(r)].rows = {}]
    /\ pc' = [pc EXCEPT ![r] = "insert"]
    /\ UNCHANGED <<rvars, writer, logged, avars, conn, db, log>>

\* One round of the loop that inserts the alerts.
InsertAlert(r) ==
    /\ pc[r] = "insert"
    /\ CtxAlive(r)
    /\ NextAlert(r) \in AlertsOf(r)
    /\ tx' = [tx EXCEPT ![KeyOf(r)].rows = @ \cup {<<r, NextAlert(r)>>}]
    /\ UNCHANGED <<rvars, pc, writer, logged, avars, conn, db, log>>

\* tx.Commit, which looks at the context once more.
Commit(r) ==
    /\ pc[r] = "insert"
    /\ CtxAlive(r)
    /\ NextAlert(r) \notin AlertsOf(r)
    /\ db' = tx
    /\ log' = Append(log, r)
    /\ conn' = "none"
    /\ pc' = [pc EXCEPT ![r] = "saved"]
    /\ UNCHANGED <<rvars, writer, logged, avars, tx>>

\* Seeded fault: the error of Save is logged and dropped.
SaveFails_Dropped(r) ==
    /\ pc[r] \in {"begin", "upsert", "delete", "insert"}
    /\ conn' = IF conn = r THEN "none" ELSE conn
    /\ tx' = IF conn = r THEN db ELSE tx
    /\ Respond(r, 200)
    /\ UNCHANGED <<rvars, logged, avars, db, log>>

\* Seeded fault: no deferred Rollback.
SaveFails_NoRollback(r) ==
    /\ pc[r] \in {"begin", "upsert", "delete", "insert"}
    /\ Respond(r, 500)
    /\ UNCHANGED <<rvars, logged, avars, conn, tx, db, log>>

\* The deferred Rollback gives the connection back; nothing to do if r has no
\* transaction.
Rollback(r) ==
    /\ conn' = IF conn = r THEN "none" ELSE conn
    /\ tx' = IF conn = r THEN db ELSE tx

\* A statement of Save fails, because the context is cancelled or for any
\* other reason: 500.
SaveFails(r) ==
    /\ pc[r] \in {"begin", "upsert", "delete", "insert"}
    /\ Rollback(r)
    /\ Respond(r, 500)
    /\ UNCHANGED <<rvars, logged, avars, db, log>>

\* Receive returned nil.
AnswerOK(r) ==
    /\ pc[r] = "saved"
    /\ Respond(r, 200)
    /\ UNCHANGED <<rvars, logged, avars, conn, tx, db, log>>

\* The handler writes the body, and with it the status, and returns.
WriteBody(r) ==
    /\ pc[r] = "body"
    /\ writer' = [writer EXCEPT ![r] = Write(@, "handler")]
    /\ pc' = [pc EXCEPT ![r] = "returned"]
    /\ UNCHANGED <<rvars, logged, avars, conn, tx, db, log>>

\* The handler panics: its deferred calls run, then Recovery answers.
Panic(r) ==
    /\ pc[r] \in {"begin", "upsert", "delete", "insert", "saved", "body",
                  "returned"}
    /\ ~panicked[r]
    /\ Rollback(r)
    /\ writer' = [writer EXCEPT ![r] = Recover(@)]
    /\ panicked' = [panicked EXCEPT ![r] = TRUE]
    /\ pc' = [pc EXCEPT ![r] = "returned"]
    /\ UNCHANGED <<rvars, logged, before, db, log>>

\* Logging, after next.ServeHTTP: flushHeader and the log entry.
Logging(r) ==
    /\ pc[r] = "returned"
    /\ LET w == FlushHeader(writer[r])
       IN  /\ writer' = [writer EXCEPT ![r] = w]
           /\ logged' = [logged EXCEPT ![r] = <<w.status, Len(w.body)>>]
    /\ pc' = [pc EXCEPT ![r] = "done"]
    /\ UNCHANGED <<rvars, avars, conn, tx, db, log>>

\* The client of r has gone and net/http notices; once the transaction is
\* over the handler does not look at its context any more.
Disconnect(r) ==
    /\ pc[r] \in {"begin", "upsert", "delete", "insert"}
    /\ ~cancelled[r]
    /\ cancelled' = [cancelled EXCEPT ![r] = TRUE]
    /\ UNCHANGED <<in, pc, writer, logged, avars, conn, tx, db, log>>

\* GetPending holds the connection until its rows are closed.
PollBegin ==
    /\ conn = "none"
    /\ conn' = "poller"
    /\ UNCHANGED <<rvars, pc, writer, logged, avars, tx, db, log>>

PollEnd ==
    /\ conn = "poller"
    /\ conn' = "none"
    /\ UNCHANGED <<rvars, pc, writer, logged, avars, tx, db, log>>

\* The process dies and starts again: only what is committed remains.
Crash ==
    /\ pc' = [r \in Request |->
                 IF pc[r] \in {"none", "done"} THEN pc[r] ELSE "lost"]
    /\ conn' = "none"
    /\ tx' = db
    /\ UNCHANGED <<rvars, writer, logged, avars, db, log>>

SaveStep(r) ==
    \/ BeginTx(r) \/ Upsert(r) \/ DeleteOld(r) \/ InsertAlert(r) \/ Commit(r)

Next ==
    \/ \E r \in Request :
           \/ HandleWebhook(r) \/ SaveStep(r) \/ SaveFails(r)
           \/ AnswerOK(r) \/ WriteBody(r) \/ Panic(r) \/ Logging(r)
           \/ Disconnect(r)
    \/ PollBegin \/ PollEnd \/ Crash

Spec == Init /\ [][Next]_vars

-----------------------------------------------------------------------------
(* Safety                                                                  *)

\* Each variable has its type, and the connection belongs to the request that
\* has a transaction open, if there is one.
TypeOK ==
    /\ in \in [Request -> Input]
    /\ pc \in [Request -> {"none", "begin", "upsert", "delete", "insert",
                           "saved", "body", "returned", "done", "lost"}]
    /\ cancelled \in [Request -> BOOLEAN]
    /\ writer \in [Request -> Writer]
    /\ logged \in [Request -> Nat \X Nat]
    /\ conn \in {"none", "poller"} \cup Request
    /\ \A t \in {tx, db} :
           t \in [Groups -> [by : {"none"} \cup Request,
                             rows : SUBSET (Request \X Nat)]]
    /\ log \in Seq(Request)
    /\ panicked \in [Request -> BOOLEAN]
    /\ before \in [Request -> SUBSET Request]
    /\ \A r \in Request : conn = r <=> pc[r] \in {"upsert", "delete", "insert"}

\* The status the client of r gets; 0 as long as it has none.
Code(r) == writer[r].wire

\* The requests that committed a write to group g, as positions in log.
WritesTo(g) == {i \in DOMAIN log : KeyOf(log[i]) = g}

\* r's write to its group, whole.
Whole(r) == [by |-> r, rows |-> {r} \X AlertsOf(r)]

\* The committed tables are those of the last committed request of each group,
\* its alerts all there and no one else's among them (store.go:89-145),
\* however requests interleave, fail halfway or die with the process.
TableIsLastCommit ==
    \A g \in Groups :
        IF WritesTo(g) = {} THEN db[g] = EmptyRow
        ELSE \E i \in WritesTo(g) :
                 /\ \A j \in WritesTo(g) : j <= i
                 /\ db[g] = Whole(log[i])

\* The answer tells the sender what became of its alerts: 200 exactly when
\* they were committed, so that Alertmanager's retry after any other answer
\* repeats nothing that is stored.  The one exception is a handler that panics
\* between the commit and its answer: Recovery's 500 makes Alertmanager send
\* the group again, and nothing is lost.
AnswerTellsOutcome ==
    \A r \in Request : Code(r) # 0 =>
        /\ Code(r) = 200 => \E i \in DOMAIN log : log[i] = r
        /\ (\E i \in DOMAIN log : log[i] = r) =>
               Code(r) = IF panicked[r] /\ writer[r].body[1] = "recovery"
                         THEN 500 ELSE 200

\* An answer makes Alertmanager send again (500) only what may be accepted
\* then, and never keeps it (4xx) from sending again what would be accepted;
\* a panic is always answered 500 unless the client has the status already.
\* The exception: a group whose body is not read to its end is refused with
\* 400 like any other body that does not decode (handler.go:47-48), whether
\* it is well-formed or not.
RetryOnlyWhenUseful ==
    \A r \in Request :
        LET wire  == in[r].wire
            sound == WellFormed(in[r].group)
        IN  /\ Code(r) = 500 => (wire = "ok" /\ sound) \/ panicked[r]
            /\ wire = "ok" /\ sound => Code(r) \notin {400, 413, 415}
            /\ wire = "broken" /\ sound => Code(r) \notin {413, 415}
            /\ panicked[r] /\ Code(r) # 500 => writer[r].body[1] = "handler"

\* The access log tells what the client got, status and length, also when the
\* handler panicked before or after its status was on the way.
LoggedIsSent ==
    \A r \in Request :
        pc[r] = "done" => logged[r] = <<Code(r), Len(writer[r].body)>>

\* A delivery never replaces one that arrived after it was over: neither after
\* its answer, nor after its client was seen to be gone, nor after a restart.
\* Of two that overlap either may win.
NewerIsKept ==
    \A i, j \in DOMAIN log : i < j => log[j] \notin before[log[i]]

-----------------------------------------------------------------------------
(* Liveness                                                                *)

\* Handlers run, a query ends, and whoever waits for the connection gets it in
\* the end: database/sql hands a connection that is given back to a waiter.
FairSpec ==
    /\ Spec
    /\ WF_vars(PollEnd)
    /\ \A r \in Request :
           /\ WF_vars(Upsert(r) \/ DeleteOld(r) \/ InsertAlert(r) \/ Commit(r))
           /\ SF_vars(BeginTx(r))
           /\ WF_vars(cancelled[r] /\ SaveFails(r))
           /\ WF_vars(AnswerOK(r) \/ WriteBody(r) \/ Logging(r))

\* Every request is answered unless the process dies: no path through Save
\* keeps the only connection, and nobody starves for it.
EveryRequestAnswered ==
    \A r \in Request : pc[r] # "none" ~> pc[r] \in {"done", "lost"}
=============================================================================
