----------------------------- MODULE Dispatcher -----------------------------
(***************************************************************************)
(* internal/notify: the dispatcher's polling loop, one bounded queue and   *)
(* one worker per channel, the shared result channel, and the graceful     *)
(* shutdown; together with the webhook's upserts into the table the        *)
(* dispatcher polls, the shutdown signal, and the end of the process at    *)
(* any point.                                                              *)
(*                                                                         *)
(* The dispatcher goroutine (dpc, batch, ci, enqueued, collected, allOK)   *)
(* and the worker goroutines (wpc, wjob, wok) interleave freely.  What     *)
(* crosses between them goes through queue[c] and resultCh.  Only tbl,     *)
(* handed and delivered survive the process: handed is what the endpoints  *)
(* of the channels (an SMTP server, the Pachca API) have been called with, *)
(* delivered what they have executed of it, in time or late.               *)
(***************************************************************************)
EXTENDS AlertStore

CONSTANTS NumChannels,  \* len(d.channels): main.go builds it from the config
          BatchSize,    \* NOTIFY_BATCH_SIZE
          QueueSize,    \* NOTIFY_QUEUE_SIZE
          MaxVersion    \* bound of the model: upserts of each group

ASSUME DispatcherAssumption ==
    /\ NumChannels \in Nat
    /\ BatchSize \in Nat \ {0}
    /\ QueueSize \in Nat \ {0}
    /\ MaxVersion \in [Groups -> Nat]

\* A channel is its position in d.channels; its queue has the same name.
Channel == 1 .. NumChannels

Notification == [key : Groups, ver : Nat]

SendResult == [key : Groups, ch : Channel, ok : BOOLEAN]

Delivery == [key : Groups, ver : Nat, ch : Channel]

\* What the endpoint of channel c is asked to deliver when n is sent.
Request(n, c) == [key |-> n.key, ver |-> n.ver, ch |-> c]

\* cap(resultCh)
ResultCap == NumChannels * BatchSize + 1

NoJob == [key |-> "none", ver |-> 0]

VARIABLES
    tbl,        \* alert_groups
    now,        \* the stamp datetime('now') gave last
    handed,     \* what Send was called with: the endpoint may execute it
    delivered,  \* what each channel's recipient has received
    ctxDone,    \* the context passed to Run is cancelled
    running,    \* d.running
    dpc,        \* where the dispatcher goroutine is
    batch,      \* poll's groups, the one being fanned out first
    ci,         \* the channel whose queue is next in the enqueue loop
    enqueued,   \* the channels that accepted it (the code keeps their number)
    collected,  \* results received so far for it
    allOK,      \* none of them was an error
    queue,      \* q.ch of each channel
    closed,     \* the queues' done channels are closed
    wpc,        \* where each worker goroutine is
    wjob,       \* the notification it is sending
    wok,        \* sendErr = nil
    resultCh    \* results not collected yet, oldest first

dvars == <<dpc, batch, ci, enqueued, collected, allOK>>
wvars == <<wpc, wjob, wok>>
vars  == <<tbl, now, handed, delivered, ctxDone, running, dvars, queue, closed,
           wvars, resultCh>>

-----------------------------------------------------------------------------
(* The process                                                             *)

\* No process is running: nothing volatile exists.
Init ==
    /\ tbl = EmptyTable
    /\ now = 0
    /\ handed = {}
    /\ delivered = {}
    /\ ctxDone = FALSE
    /\ running = FALSE
    /\ dpc = "down"
    /\ batch = <<>>
    /\ ci = 1
    /\ enqueued = {}
    /\ collected = 0
    /\ allOK = TRUE
    /\ queue = [c \in Channel |-> <<>>]
    /\ closed = FALSE
    /\ wpc = [c \in Channel |-> "stopped"]
    /\ wjob = [c \in Channel |-> NoJob]
    /\ wok = [c \in Channel |-> FALSE]
    /\ resultCh = <<>>

\* Run creates the queues and the result channel and starts the workers.
Start ==
    /\ dpc = "down"
    /\ dpc' = "idle"
    /\ running' = TRUE
    /\ wpc' = [c \in Channel |-> "wait"]
    /\ UNCHANGED <<tbl, now, handed, delivered, ctxDone, batch, ci, enqueued,
                   collected, allOK, queue, closed, wjob, wok, resultCh>>

\* SIGINT or SIGTERM: signal.NotifyContext cancels ctx, and dispatcherCtx,
\* which derives from it.
Signal ==
    /\ dpc # "down"
    /\ ~ctxDone
    /\ ctxDone' = TRUE
    /\ UNCHANGED <<tbl, now, handed, delivered, running, dvars, queue, closed,
                   wvars, resultCh>>

\* The process ends: it returned from main, was killed or lost its node's
\* memory.  Whatever was queued, in flight or uncollected is gone.
ProcessEnds ==
    /\ dpc # "down"
    /\ dpc' = "down"
    /\ ctxDone' = FALSE
    /\ running' = FALSE
    /\ batch' = <<>>
    /\ ci' = 1
    /\ enqueued' = {}
    /\ collected' = 0
    /\ allOK' = TRUE
    /\ queue' = [c \in Channel |-> <<>>]
    /\ closed' = FALSE
    /\ wpc' = [c \in Channel |-> "stopped"]
    /\ wjob' = [c \in Channel |-> NoJob]
    /\ wok' = [c \in Channel |-> FALSE]
    /\ resultCh' = <<>>
    /\ UNCHANGED <<tbl, now, handed, delivered>>

\* Service.Receive commits an upsert of group g, in the same second as the
\* previous one or in a later one.
Receive(g) ==
    /\ dpc # "down"
    /\ tbl[g].ver < MaxVersion[g]
    /\ \E stamp \in {now, now + 1} :
           /\ now' = stamp
           /\ tbl' = Save(tbl, g, stamp)
    /\ UNCHANGED <<handed, delivered, ctxDone, running, dvars, queue, closed,
                   wvars, resultCh>>

-----------------------------------------------------------------------------
(* The dispatcher goroutine                                                *)

NewNotification(g) == [key |-> g, ver |-> tbl[g].ver]

\* A tick of the poll timer finds pending groups.  A tick that finds none, a
\* failing query (a cancelled ctx makes it fail) and a dispatcher without
\* channels leave everything as it is.
Poll ==
    /\ dpc = "idle"
    /\ ~ctxDone
    /\ NumChannels > 0
    /\ \E keys \in GetPending(tbl, BatchSize) :
           /\ keys # <<>>
           /\ batch' = [i \in DOMAIN keys |-> NewNotification(keys[i])]
    /\ dpc' = "enqueue"
    /\ UNCHANGED <<tbl, now, handed, delivered, ctxDone, running, ci, enqueued,
                   collected, allOK, queue, closed, wvars, resultCh>>

\* Seeded fault: a group that is not marked ends the whole poll.
NextGroup_AbortsBatch ==
    /\ batch' = IF dpc = "mark" THEN Tail(batch) ELSE <<>>
    /\ dpc' = IF dpc = "mark" /\ Tail(batch) # <<>> THEN "enqueue" ELSE "idle"
    /\ ci' = 1
    /\ enqueued' = {}
    /\ collected' = 0
    /\ allOK' = TRUE

\* Seeded fault: the collect loop's count outlives the group.
NextGroup_KeepsCount ==
    /\ batch' = Tail(batch)
    /\ dpc' = IF Tail(batch) = <<>> THEN "idle" ELSE "enqueue"
    /\ ci' = 1
    /\ enqueued' = {}
    /\ allOK' = TRUE
    /\ UNCHANGED collected

\* fanOutAndCollect returns: poll goes on with the next group of the batch
\* without looking at ctx, or returns to the select of Run.
NextGroup ==
    /\ batch' = Tail(batch)
    /\ dpc' = IF Tail(batch) = <<>> THEN "idle" ELSE "enqueue"
    /\ ci' = 1
    /\ enqueued' = {}
    /\ collected' = 0
    /\ allOK' = TRUE

\* q.Enqueue succeeds: there is room in the buffered channel.
EnqueueOK ==
    /\ dpc = "enqueue"
    /\ ~closed
    /\ Len(queue[ci]) < QueueSize
    /\ queue' = [queue EXCEPT ![ci] = Append(@, Head(batch))]
    /\ enqueued' = enqueued \cup {ci}
    /\ dpc' = IF ci < NumChannels THEN "enqueue" ELSE "collect"
    /\ ci' = IF ci < NumChannels THEN ci + 1 ELSE 1
    /\ UNCHANGED <<tbl, now, handed, delivered, ctxDone, running, batch,
                   collected, allOK, closed, wvars, resultCh>>

\* q.Enqueue may fail: its context is cancelled (select then picks either
\* ready case), the queue is closed, or it stays full until the timeout.  A
\* call that finds room is assumed not to last until its timeout of seconds.
EnqueueMayFail == ctxDone \/ closed \/ Len(queue[ci]) = QueueSize

\* The failure is logged and the loop goes on with the next channel.
EnqueueErr ==
    /\ dpc = "enqueue"
    /\ EnqueueMayFail
    /\ ci < NumChannels \/ enqueued # {}
    /\ dpc' = IF ci < NumChannels THEN "enqueue" ELSE "collect"
    /\ ci' = IF ci < NumChannels THEN ci + 1 ELSE 1
    /\ UNCHANGED <<tbl, now, handed, delivered, ctxDone, running, batch,
                   enqueued, collected, allOK, queue, closed, wvars, resultCh>>

\* Seeded fault: the early return for enqueued == 0 is missing; the collect
\* loop has nothing to wait for and finds allOK still true.
SkipGroup_Marks ==
    /\ dpc = "enqueue"
    /\ EnqueueMayFail
    /\ ci = NumChannels
    /\ enqueued = {}
    /\ dpc' = "mark"
    /\ ci' = 1
    /\ UNCHANGED <<tbl, now, handed, delivered, ctxDone, running, batch,
                   enqueued, collected, allOK, queue, closed, wvars, resultCh>>

\* No queue accepted the notification: the group is left pending.
SkipGroup ==
    /\ dpc = "enqueue"
    /\ EnqueueMayFail
    /\ ci = NumChannels
    /\ enqueued = {}
    /\ NextGroup
    /\ UNCHANGED <<tbl, now, handed, delivered, ctxDone, running, queue,
                   closed, wvars, resultCh>>

\* What follows a result: the collect loop waits for the next one, or ends
\* and the group is marked if all results were successes.
AfterResult(ok, last) ==
    \/ /\ ~last
       /\ allOK' = ok
       /\ collected' = collected + 1
       /\ UNCHANGED <<dpc, batch, ci, enqueued>>
    \/ /\ last /\ ok
       /\ allOK' = ok
       /\ collected' = collected + 1
       /\ dpc' = "mark"
       /\ UNCHANGED <<batch, ci, enqueued>>
    \/ last /\ ~ok /\ NextGroup

\* Seeded fault: the first failed channel ends the collect loop.
Collect_StopsAtError ==
    /\ dpc = "collect"
    /\ resultCh # <<>>
    /\ resultCh' = Tail(resultCh)
    /\ AfterResult(Head(resultCh).ok,
                   ~Head(resultCh).ok \/ collected + 1 = Cardinality(enqueued))
    /\ UNCHANGED <<tbl, now, handed, delivered, ctxDone, running, queue,
                   closed, wvars>>

\* Seeded fault: a cancelled ctx ends the collect loop.
Collect_StopsAtCancel ==
    /\ dpc = "collect"
    /\ \/ ctxDone /\ NextGroup /\ UNCHANGED resultCh
       \/ /\ resultCh # <<>>
          /\ resultCh' = Tail(resultCh)
          /\ AfterResult(allOK /\ Head(resultCh).ok,
                         collected + 1 = Cardinality(enqueued))
    /\ UNCHANGED <<tbl, now, handed, delivered, ctxDone, running, queue,
                   closed, wvars>>

\* Seeded fault: the last result decides instead of all of them.
Collect_LastDecides ==
    /\ dpc = "collect"
    /\ resultCh # <<>>
    /\ resultCh' = Tail(resultCh)
    /\ AfterResult(Head(resultCh).ok, collected + 1 = Cardinality(enqueued))
    /\ UNCHANGED <<tbl, now, handed, delivered, ctxDone, running, queue,
                   closed, wvars>>

\* r := <-resultCh, once for each queue that accepted the notification.
Collect ==
    /\ dpc = "collect"
    /\ resultCh # <<>>
    /\ resultCh' = Tail(resultCh)
    /\ AfterResult(allOK /\ Head(resultCh).ok,
                   collected + 1 = Cardinality(enqueued))
    /\ UNCHANGED <<tbl, now, handed, delivered, ctxDone, running, queue,
                   closed, wvars>>

\* store.MarkSent with a context of its own.
MarkGroup ==
    /\ dpc = "mark"
    /\ MarkSentFinds(tbl, Head(batch).key)
    /\ tbl' = MarkSent(tbl, Head(batch).key)
    /\ NextGroup
    /\ UNCHANGED <<now, handed, delivered, ctxDone, running, queue, closed,
                   wvars, resultCh>>

\* The statement fails: logged, and the group stays pending.
MarkGroupErr ==
    /\ dpc = "mark"
    /\ NextGroup
    /\ UNCHANGED <<tbl, now, handed, delivered, ctxDone, running, queue,
                   closed, wvars, resultCh>>

\* Seeded fault: shutdown waits for the workers without closing the queues.
Shutdown_LeavesOpen ==
    /\ dpc = "idle"
    /\ ctxDone
    /\ dpc' = "drain"
    /\ UNCHANGED <<tbl, now, handed, delivered, ctxDone, running, batch, ci,
                   enqueued, collected, allOK, queue, closed, wvars, resultCh>>

\* The select of Run sees ctx.Done(): shutdown closes every queue.
Shutdown ==
    /\ dpc = "idle"
    /\ ctxDone
    /\ closed' = TRUE
    /\ dpc' = "drain"
    /\ UNCHANGED <<tbl, now, handed, delivered, ctxDone, running, batch, ci,
                   enqueued, collected, allOK, queue, wvars, resultCh>>

\* workerWg.Wait() returns; the result channel is closed and emptied, and the
\* deferred running.Store(false) runs.
RunReturns ==
    /\ dpc = "drain"
    /\ \A c \in Channel : wpc[c] = "stopped"
    /\ resultCh' = <<>>
    /\ running' = FALSE
    /\ dpc' = "done"
    /\ UNCHANGED <<tbl, now, handed, delivered, ctxDone, batch, ci, enqueued,
                   collected, allOK, queue, closed, wvars>>

-----------------------------------------------------------------------------
(* The worker goroutine of channel c                                       *)

\* queue.Dequeue returns a notification, also after Close, and ch.Send is
\* called with it.
Dequeue(c) ==
    /\ wpc[c] = "wait"
    /\ queue[c] # <<>>
    /\ handed' = handed \cup {Request(Head(queue[c]), c)}
    /\ wjob' = [wjob EXCEPT ![c] = Head(queue[c])]
    /\ queue' = [queue EXCEPT ![c] = Tail(@)]
    /\ wpc' = [wpc EXCEPT ![c] = "send"]
    /\ UNCHANGED <<tbl, now, delivered, ctxDone, running, dvars, closed, wok,
                   resultCh>>

\* queue.Dequeue returns ErrQueueClosed and the worker ends.
WorkerStops(c) ==
    /\ wpc[c] = "wait"
    /\ closed
    /\ queue[c] = <<>>
    /\ wpc' = [wpc EXCEPT ![c] = "stopped"]
    /\ UNCHANGED <<tbl, now, handed, delivered, ctxDone, running, dvars, queue,
                   closed, wjob, wok, resultCh>>

\* ch.Send returns.  A nil error means that the request has been executed; an
\* error (a refusal, a lost answer, the send timeout) does not say whether it
\* has been or will be.
SendReturns(c, ok) ==
    /\ wpc[c] = "send"
    /\ wpc' = [wpc EXCEPT ![c] = "report"]
    /\ wok' = [wok EXCEPT ![c] = ok]
    /\ delivered' = IF ok THEN delivered \cup {Request(wjob[c], c)} ELSE delivered
    /\ UNCHANGED <<tbl, now, handed, ctxDone, running, dvars, queue, closed, wjob,
                   resultCh>>

\* Seeded fault: a worker that retries by itself puts a failed notification
\* back at the end of its own queue.
Report_Requeues(c) ==
    /\ wpc[c] = "report"
    /\ Len(resultCh) < ResultCap
    /\ resultCh' = Append(resultCh,
                          [key |-> wjob[c].key, ch |-> c, ok |-> wok[c]])
    /\ queue' = [queue EXCEPT ![c] = IF wok[c] \/ Len(@) = QueueSize THEN @
                                     ELSE Append(@, wjob[c])]
    /\ wpc' = [wpc EXCEPT ![c] = "wait"]
    /\ wjob' = [wjob EXCEPT ![c] = NoJob]
    /\ wok' = [wok EXCEPT ![c] = FALSE]
    /\ UNCHANGED <<tbl, now, handed, delivered, ctxDone, running, dvars,
                   closed>>

\* Seeded fault: a failed send is logged but not reported.
Report_OnlySuccess(c) ==
    /\ wpc[c] = "report"
    /\ Len(resultCh) < ResultCap
    /\ resultCh' = IF wok[c]
                   THEN Append(resultCh, [key |-> wjob[c].key, ch |-> c,
                                          ok |-> TRUE])
                   ELSE resultCh
    /\ wpc' = [wpc EXCEPT ![c] = "wait"]
    /\ wjob' = [wjob EXCEPT ![c] = NoJob]
    /\ wok' = [wok EXCEPT ![c] = FALSE]
    /\ UNCHANGED <<tbl, now, handed, delivered, ctxDone, running, dvars, queue,
                   closed>>

\* w.resultCh <- SendResult{...}: blocks while the channel is full.
Report(c) ==
    /\ wpc[c] = "report"
    /\ Len(resultCh) < ResultCap
    /\ resultCh' = Append(resultCh,
                          [key |-> wjob[c].key, ch |-> c, ok |-> wok[c]])
    /\ wpc' = [wpc EXCEPT ![c] = "wait"]
    /\ wjob' = [wjob EXCEPT ![c] = NoJob]
    /\ wok' = [wok EXCEPT ![c] = FALSE]
    /\ UNCHANGED <<tbl, now, handed, delivered, ctxDone, running, dvars, queue,
                   closed>>

-----------------------------------------------------------------------------
(* The endpoints of the channels                                           *)

\* The endpoint of channel d.ch executes a request, while Send is waiting for
\* its answer or after Send has given up, in this process or after it.
Execute(d) ==
    /\ d \in handed \ delivered
    /\ delivered' = delivered \cup {d}
    /\ UNCHANGED <<tbl, now, handed, ctxDone, running, dvars, queue, closed,
                   wvars, resultCh>>

-----------------------------------------------------------------------------

DispatcherStep ==
    \/ Poll
    \/ EnqueueOK
    \/ EnqueueErr
    \/ SkipGroup
    \/ Collect
    \/ MarkGroup
    \/ MarkGroupErr
    \/ Shutdown
    \/ RunReturns

WorkerStep(c) ==
    \/ Dequeue(c)
    \/ WorkerStops(c)
    \/ \E ok \in BOOLEAN : SendReturns(c, ok)
    \/ Report(c)

Next ==
    \/ Start
    \/ Signal
    \/ ProcessEnds
    \/ \E g \in Groups : Receive(g)
    \/ DispatcherStep
    \/ \E c \in Channel : WorkerStep(c)
    \/ \E d \in handed : Execute(d)

Spec == Init /\ [][Next]_vars

-----------------------------------------------------------------------------
(* Safety                                                                  *)

StoreType ==
    /\ tbl \in [Groups -> Row]
    /\ now \in Nat
    /\ handed \subseteq Delivery
    /\ delivered \subseteq Delivery

LoopType ==
    /\ ctxDone \in BOOLEAN
    /\ running \in BOOLEAN
    /\ dpc \in {"down", "idle", "enqueue", "collect", "mark", "drain", "done"}
    /\ batch \in Seq(Notification)
    /\ Len(batch) <= BatchSize
    /\ ci \in 1 .. NumChannels + 1
    /\ enqueued \subseteq Channel
    /\ collected \in 0 .. Cardinality(enqueued)
    /\ allOK \in BOOLEAN

PipeType ==
    /\ queue \in [Channel -> Seq(Notification)]
    /\ \A c \in Channel : Len(queue[c]) <= QueueSize
    /\ closed \in BOOLEAN
    /\ wpc \in [Channel -> {"wait", "send", "report", "stopped"}]
    /\ wjob \in [Channel -> Notification \cup {NoJob}]
    /\ wok \in [Channel -> BOOLEAN]
    /\ resultCh \in Seq(SendResult)
    /\ Len(resultCh) <= ResultCap

\* Every variable has its type; a poll never takes more than BatchSize groups
\* (GetPending's LIMIT), no more results are collected than are due, and
\* queues and the result channel keep their capacity.
TypeOK == StoreType /\ LoopType /\ PipeType

\* A worker holds a notification: it is being sent, or its result is due.
Working(c) == wpc[c] \in {"send", "report"}

\* Whatever is queued, being sent or reported belongs to the group that the
\* dispatcher is waiting for: the "result group key mismatch" branch of
\* fanOutAndCollect is never taken, and a result never counts for the group
\* after the one it was sent for.
ResultsMatchCurrent ==
    /\ \A c \in Channel, i \in 1 .. QueueSize :
           i <= Len(queue[c]) => batch # <<>> /\ queue[c][i] = Head(batch)
    /\ \A c \in Channel :
           Working(c) => batch # <<>> /\ wjob[c] = Head(batch)
    /\ \A i \in DOMAIN resultCh :
           batch # <<>> /\ resultCh[i].key = Head(batch).key

\* Nobody waits for room: when the dispatcher is about to enqueue, that queue
\* has room whatever QueueSize is (so Enqueue's back-pressure branch needs a
\* cancelled context), and when a worker is about to report, the result
\* channel has room.
NoBackPressure ==
    /\ dpc = "enqueue" => ~closed /\ Len(queue[ci]) < QueueSize
    /\ \A c \in Channel : wpc[c] = "report" => Len(resultCh) < ResultCap

\* A worker never sends a group whose row already says 'sent': between the
\* query that found it pending and the last result, only an upsert touches
\* the row.
NoSendAfterSent ==
    \A c \in Channel :
        wpc[c] = "send" => tbl[wjob[c].key].status = "pending"

\* What a worker is sending is at least as new as any request of that group
\* that its channel has ever made, executed or not, over restarts as well: a
\* retry never follows news with an older state of the group.  (An endpoint
\* that executes an older request late may still do so.)
NoStaleAfterNew ==
    \A c \in Channel, d \in handed :
        wpc[c] = "send" /\ d.ch = c /\ d.key = wjob[c].key
            => d.ver <= wjob[c].ver

\* Shutdown guarantees of Run: once it is closing the queues no notification
\* is queued, in flight or uncollected, so the final drain of the result
\* channel discards nothing.
DrainComplete ==
    dpc \in {"drain", "done"} =>
        /\ \A c \in Channel : queue[c] = <<>> /\ ~Working(c)
        /\ resultCh = <<>>

\* When MarkSent is called, every queue that accepted the notification has
\* had it delivered, there is such a queue, and without a cancelled context
\* it is all of them.
MarkIsEarned ==
    dpc = "mark" =>
        /\ enqueued # {}
        /\ \A c \in enqueued : Request(Head(batch), c) \in delivered
        /\ ~ctxDone => enqueued = Channel

\* A row that says 'sent' has reached the recipients of some channel in this
\* or an earlier version, whatever crashed or was cancelled in between.
SentReachedSomebody ==
    \A g \in Groups : tbl[g].status = "sent" =>
        \E d \in delivered : d.key = g /\ d.ver <= tbl[g].ver

Contract == INSTANCE RelayContract WITH stopping <- ctxDone

\* The dispatcher with its queues, workers, restarts and cancellations does
\* to the table and to the recipients only what RelayContract allows.
ImplementsContract == Contract!Spec

-----------------------------------------------------------------------------
(* What the comments of dispatcher.go promise and the code does not keep   *)

\* Run: 'Items still in the database as "pending" but not yet polled will
\* remain pending'.  A version that no poll has taken stays pending until a
\* poll takes it.
UnpolledStayPending ==
    [][\A g \in Groups :
          /\ tbl[g].status = "pending"
          /\ \A i \in DOMAIN batch : batch[i] # [key |-> g, ver |-> tbl[g].ver]
          => tbl'[g].status = "pending"]_vars

\* fanOutAndCollect: 'Calls MarkSent only if ALL channels succeed.'
MarkedMeansAllChannels ==
    dpc = "mark" =>
        \A c \in Channel : Request(Head(batch), c) \in delivered

-----------------------------------------------------------------------------
(* Liveness                                                                *)

\* The ticker keeps firing, the goroutines are scheduled, and a stopped pod is
\* started again.  Nothing is assumed of Send, which may never return: after
\* the dial the email channel has no deadline.
FairSpec ==
    /\ Spec
    /\ WF_vars(Start)
    /\ WF_vars(DispatcherStep)
    /\ \A c \in Channel : WF_vars(Dequeue(c) \/ WorkerStops(c) \/ Report(c))

\* Every call of Send returns, with or without an error.
SendsReturn ==
    \A c \in Channel : WF_vars(\E ok \in BOOLEAN : SendReturns(c, ok))

\* The MarkSent statement succeeds when it is tried again and again.
MarkSentSucceeds == SF_vars(MarkGroup)

\* Channel c's calls of Send return, and the channel succeeds when it is tried
\* again and again with a group.
SendsSucceed(c) ==
    /\ WF_vars(\E ok \in BOOLEAN : SendReturns(c, ok))
    /\ \A g \in Groups : SF_vars(wjob[c].key = g /\ SendReturns(c, TRUE))

\* No signal comes, and after a crash the process is started again.
StaysUp == []~ctxDone /\ <>[](dpc # "down")

\* Signals and crashes come to an end, and some process stays up after them.
LastStarts == <>[](dpc # "down" /\ ~ctxDone)

\* Once the context is cancelled, Run returns (or the process ends) provided
\* that the sends under way do: the collect loop and the wait for the workers
\* do not hang for another reason.
ShutdownCompletes == SendsReturn => (ctxDone ~> dpc \in {"done", "down"})

\* A poll ends, whatever mixture of sends fails, provided that they return:
\* nobody waits for a result that no worker reports.
PollCompletes ==
    SendsReturn =>
        (dpc \in {"enqueue", "collect", "mark"} ~> dpc \in {"idle", "down"})

InBatch(g) == \E i \in DOMAIN batch : batch[i].key = g

\* Run: items left pending are 'processed after the next pod starts'.  A
\* pending group is given to the workers even if other groups keep failing, and
\* even if it was stored or polled while this or an earlier process was being
\* shut down; sends return, and MarkSent succeeds in the end.
PendingIsProcessed ==
    LastStarts /\ SendsReturn /\ MarkSentSucceeds =>
        \A g \in Groups :
            (tbl[g].status = "pending" /\ ~InBatch(g))
                ~> \E c \in Channel : Working(c) /\ wjob[c].key = g

\* A version that is pending and not overlapped by a send of an older version
\* reaches every channel unless a newer version replaces it, although every
\* single send may fail or succeed unnoticed: it is enough that channels and
\* MarkSent that are tried again and again succeed.
EventuallyDelivered ==
    StaysUp /\ MarkSentSucceeds /\ (\A c \in Channel : SendsSucceed(c)) =>
        \A g \in Groups : \A v \in 1 .. MaxVersion[g] :
            (/\ tbl[g].status = "pending"
             /\ tbl[g].ver = v
             /\ ~InBatch(g))
                ~> \/ tbl[g].ver > v
                   \/ \A c \in Channel :
                          [key |-> g, ver |-> v, ch |-> c] \in delivered

\* docs/architecture.md: a slow channel does not block the other one.  A
\* pending group reaches channel 1, whose sends return and succeed in the end,
\* however long channel 2 takes.
SlowChannelDoesNotBlock ==
    StaysUp /\ SendsSucceed(1) =>
        \A g \in Groups :
            tbl[g].status = "pending"
                ~> \E d \in delivered : d.key = g /\ d.ch = 1
=============================================================================
