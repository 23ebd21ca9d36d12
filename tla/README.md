# Formal models of alertmanager-webhook-relay

The relay receives Alertmanager webhooks over HTTP, stores each alert group in
SQLite, and a dispatcher delivers the stored groups to the configured channels
(email, Pachca). This directory holds TLA+ models of its stateful parts, the
TLC configurations that check them on small instances, and TLAPS proofs of the
main safety properties for every instance. `PROJECT.json` maps each definition
to the source lines it models and lists runs, seeded faults, findings, hazards
and theorems.

```
tlc -workers 2 -config MCDispatcher_safety.cfg MCDispatcher    # one run
tlapm DispatcherProofs.tla                                     # one proof module
```

## 1. Inventory

### Parts and how they interact

```
environment -> config.Load -> main.run(): builds everything below

Alertmanager --POST--> Logging -> Recovery -> HandleWebhook
                           -> Service.Receive -> Store.Save -----------+
                                                                       | one
   kubelet --/readyz--> HandleReadyz -> Store.Check, Dispatcher.Check -+ SQLite
                                                                       | connection
   Dispatcher.Run --tick--> poll -> Store.GetPending / MarkSent -------+
        |  ^
  queue |  | resultCh (shared)
        v  |
   worker (one per channel) -> Channel.Send -> formatter, template engine
                                    |                        ^
                     SMTP server, Pachca API   template directory --Watch

   main.run() waits for a signal or a server error, shuts the server down,
   cancels and awaits the dispatcher, closes the store
```

| part (package) | state | operations | hard behaviour | what makes it correct |
|---|---|---|---|---|
| dispatcher (`internal/notify/dispatcher.go`) | `running`, the batch being fanned out, counts of enqueued and collected results | `Run`, `poll`, `fanOutAndCollect`, `shutdown`, `Check` | its goroutine and the workers interleave; one result channel for all of them; cancellation between any two steps; crash after a delivery and before `MarkSent` | results are counted for the right group; nobody blocks on a full channel; `MarkSent` only after delivery; the drain loses nothing; polls and shutdowns end; every pending group gets its turn |
| worker (`worker.go`) | the notification being sent | `Run` | a send that timed out may have been executed, or may be executed later | never asks for an old version after a newer one, nor for a group already sent |
| queue (`queue.go`) | a buffered channel, `closed`, `done` | `Enqueue`, `Dequeue`, `Close` | check-then-select races with `Close`; several ready cases of a `select` | a bounded FIFO; closing is idempotent; what was accepted before `Close` is taken |
| alert store (`internal/storage/sqlite`) | tables `alert_groups`, `alerts`; one connection; the WAL | `Save`, `GetPending`, `MarkSent`, `Check`, `Close` | transactions of several statements, failing or abandoned halfway; one connection shared by everybody | the tables show whole requests; the connection always comes back; order of the pending groups |
| webhook intake (`internal/alerts`) | none of its own | `HandleWebhook`, `Receive`, `ValidatePayload` | concurrent and repeated deliveries; clients that go away while the transaction runs | the answer tells what was stored; a delivery never replaces a later one; only well-formed groups are stored |
| middleware (`internal/server/middleware`) | the response writer: status, whether it is set and sent | `WriteHeader`, `Write`, `ResetStatus`, `Recovery`, `Logging` | a panic before or after the status is set or sent, before or after the commit | the client gets 500 as long as nothing was sent; the access log tells what was sent |
| lifecycle (`main.go`, `internal/server`) | contexts, `errCh`, HTTP server state | `run`, `Start`, `Shutdown`, `HandleReadyz`, `HandleHealthz`, `HandlePreStop` | three ways out of `run()`; signal before `Serve`; shutdown timeout with handlers running | the store is closed last; a nil return means a complete shutdown; a signal ends the process; probes tell the truth |
| configuration (`internal/config`) | none after start | `Load`, `normalize`, `validate` | the order of reading, trimming and checking; limits between fields; channels that are off | exactly the sound environments are accepted, and the error names what is wrong |
| email channel (`internal/channel/email`) | a connection per send | `Send`, `dial` | refusals and broken connections at each command; no deadline after the dial; the lost answer to the final dot | nil means that everybody was given the message; nothing goes over an unencrypted connection when TLS is configured |
| Pachca channel (`internal/channel/pachca`) | a request per send | `SendMessage` | a deadline that passes while the API works; redirects; bodies that do not end | nil means posted; the call always returns |
| formatters (both channels) | none | `FormatNotification`, `FormatSubject`, `FormatBodyDefault`, `FilterLabels`, `FormatBody` | labels in several lists; groups in mixed states | every alert is shown, and every label of it once; the counts of the headlines (section 5) |
| template engine (`internal/template`) | active templates, debounce timer | `NewEngine`, `Reload`, `Watch`, `Render` | edits during a reload, overlapping reloads, edits before the watch begins | the active templates were loadable; the last change arrives |
| logging, deployment | none, or fixed at start | | | see section 7 |

### Hazards

`PROJECT.json` lists them at their lines. The central ones: state that is stale
when it is used (`MarkSent` names a key, not the version that was sent), partial
failure of a fan-out, the shared result channel, crash between delivery and
mark, starvation by groups that always fail, the check-then-select in
`Enqueue`, the shutdown order of three goroutines that share one database
connection, the half-finished transaction, the panic after a commit, the SMTP
dialogue without a deadline, answers that are lost after delivery, and the
overlap of template reloads.

## 2. Modules

| module | models | extends / composes |
|---|---|---|
| `AlertStore` | the table the dispatcher polls: `Save` (upsert), `GetPending`, `MarkSent`, `Row` | |
| `Dispatcher` | dispatcher, workers, queues as FIFOs, the endpoints of the channels, upserts, signal, crash and restart | `AlertStore`; implements `RelayContract` |
| `RelayContract` | abstract: accept a version, hand a version of a pending group to a channel, execute what was handed over, finish a group that was delivered | |
| `DispatcherInvariant`, `DispatcherProofs` | inductive invariant and theorems | `Dispatcher` |
| `NotificationQueue` | `queue.go` at the grain of atomic operations and `select`s | implements `QueueContract` |
| `QueueContract` | abstract: a bounded FIFO that can be closed while calls are under way | |
| `QueueProofs` | theorems | `NotificationQueue` |
| `Lifecycle` | `run()`, the server goroutine, dispatcher phases, requests at the connection, readiness probe | |
| `LifecycleProofs` | theorems | `Lifecycle` |
| `ValidationProofs` | what `ValidatePayload` decides, for every payload | `Validation` |
| `IntakeProofs` | inductive invariant and theorems | `Intake` |
| `MessagesProofs` | theorems about verdicts and labels | `Messages`, `ValidationProofs` |
| `ChannelsProofs` | `Load` for every environment, invariants of both channels, refinements | `Channels` |
| `TemplateReloadProofs` | theorem | `TemplateReload` |
| `Validation` | `ValidatePayload` and the reference `WellFormed` | |
| `Middleware` | the response writer and `Recovery`, as operators on its state | |
| `Intake` | middleware, handler, service and `Save` statement by statement, competing poll, panics, crash | `Validation`, `Middleware` |
| `Formatters` | what both messages show, as operators | |
| `Messages` | a payload on its way to the two messages | `Validation`, `Formatters` |
| `Config` | `Load`, `normalize`, `validate` as functions of the environment | |
| `EmailSender` | one SMTP dialogue after another, command by command | implements `ChannelContract` |
| `PachcaClient` | one POST after another, with deadline, late execution and redirects | implements `ChannelContract` |
| `ChannelContract` | abstract: what the worker relies on when it calls `Send` | |
| `Channels` | from the environment to the two channels at work side by side | `Config`, `EmailSender`, `PachcaClient` |
| `TemplateReload` | first load, watch, debounce, overlapping reloads | |
| `MC*` | constants and input sets for TLC | the module of the same name |

`Dispatcher` uses each queue as the FIFO that `NotificationQueue` is shown to
be; it calls `Close` between its own calls of `Enqueue`, so that no call is
overtaken. It uses `Save` as one step, which `Intake` shows it to be for whoever
reads committed tables, and `Send` as `ChannelContract` describes it: nil means
executed, an error says nothing, and the endpoint may execute a request after
the client has given up, even in the time of a later process. `Dispatcher` and
`RelayContract` therefore keep what the endpoints were asked to do (`handed`) apart
from what they have done (`delivered`). What the relay controls is the first:
`NoStaleAfterNew` and the contract's order of versions are about requests; the
order in which a slow endpoint executes them is not promised (section 5).
`Lifecycle` treats the dispatcher as phases; that a draining dispatcher gets
done is the premise `DrainEnds` of `ProcessEnds`, and `ShutdownCompletes` of
`Dispatcher` says when it holds.

### State and actions against the code

**Dispatcher.** `tbl`, `handed` and `delivered` survive the process; everything
else is volatile and is reset by `ProcessEnds`. `dpc` is the place of the dispatcher
goroutine: `idle` (the `select` of `Run`), `enqueue` and `collect` (the two loops
of `fanOutAndCollect`), `mark` (the call of `MarkSent`), `drain` and `done`
(`shutdown` and after). `Poll` is a tick that finds something. `EnqueueOK`,
`EnqueueErr` and `SkipGroup` are the outcomes of one `Enqueue` in the loop;
the latter is the early return when nobody accepted. `Collect` receives one
result; with the last one it goes on to `mark` or to the next group. `MarkGroup`
and `MarkGroupErr` are the two outcomes of `MarkSent`. `Dequeue` (with the call of
`Send`), `SendReturns`, `Report`, `WorkerStops` are the worker's loop. `Execute` is a
step of an endpoint. `enqueued` is the set of
accepting channels; the code keeps its size. A payload is its version: the
number of upserts of the group. A row carries the stamp that
`datetime('now')` gave it, with upserts in the same second sharing one, and
`GetPending` returns any order that sorts by it. `SendReturns(c, FALSE)` leaves open
whether the request has been, will be or will never be executed. An `Enqueue`
that finds room is assumed not to last until `NOTIFY_SEND_TIMEOUT`
(`EnqueueMayFail`): by `NobodyWaitsForRoom` it never has to wait.

**NotificationQueue.** `Enqueue` is the load of `closed` (`EnqueueCheck`) and one
of the three `select` cases. `Dequeue` is the non-blocking receive, the blocking
`select`, and the receive after `done`. `Close` is the compare-and-swap and the
`close(q.done)`, and may come between any two of these steps. The auxiliary
`atClose` and `overlap` remember how much had been accepted when `closed` was
set, and whether a call was past its check at that moment.

**Lifecycle.** `main` is the place in `run()`; `start` the goroutine of
`srv.Start`; `disp` the dispatcher's phase; `conn` the holder of the single
database connection; `wal` who has written since the last checkpoint; `req` the
requests; `probe` the readiness probe, which goes through the two checkers in
the order `server.New` got them (`Checker`), `failed` says whether one of them
failed, and `probeLate` remembers whether the dispatcher had returned by the end
of the store check. `Kill` is SIGKILL or a lost node.

**Intake.** `pc[r]` follows a request through `HandleWebhook` and `Save`:
`begin`, `upsert`, `delete`, `insert`, then the answer. `tx` is what the open
transaction sees, `db` what is committed, `log` the committed requests in order.
`SaveFails` is any failing statement or a cancelled context, with the deferred
rollback; `Disconnect` cancels the request's context; the poller takes the
connection in competition. `writer[r]` is the middleware's response writer:
`Respond` sets the status, which `WriteBody` sends; `Panic` may come at any step
and is `Recovery` with the rollback on the way; `Logging` writes the entry at the
end. The inputs are every kind of body the handler tells apart (wrong media
type, too large, undecodable, and payloads with defects), and any payload in a
body that is not read to its end because the connection breaks or `ReadTimeout`
passes (`server.go:60`).

**Messages.** `Validate`, `Notify` and `Format` are the three stages. Validation
tells only short from long maps, so an accepted alert gets its labels in `Notify`.
A message is a record of what it shows, not of how. `CommonLabels` is computed
from the alerts, as Alertmanager does; the code takes the payload's field
unchecked (`notify/model.go:33`). `groupLabels`, `commonLabels` and
`commonAnnotations` are not part of `Validation`, since `ValidatePayload` checks
none of them.

**Config, Channels.** An environment is the set of variables that are set, the
ones of them that do not parse, and their values. A text is its kind (plain,
too long, with control characters, with a space inside, with a dangerous
sequence, an address with or without a display name, ...) and whether there is
white space around it; numbers are themselves and durations are in seconds.
`validate` is the sequence of its checks, and the first that fails names its
variable. `Boot` is `run()` up to the channels.

**EmailSender.** `todo` is what remains of the dialogue; `Accept` and `Refuse` are
the server's answers to the command at hand, `WriteBody` hands the message over
with its final dot, `Deliver` is the server taking responsibility for it, at any
time after that, `Delivered` and `EndFails` the two results of closing the
writer. `willing` distinguishes a server that accepts whatever it should from one
that may do anything.

**PachcaClient.** `Post`, the answers (`AnswerOK`, `AnswerError`, `Redirect`), the
reading of a body and the deadline (`Expire`, `DoTimeout`) are the steps of
`SendMessage`; `Execute` is the API's, and may come after the client has given
up. The worker's context and the `http.Client`'s timeout are one deadline, the
earlier of the two.

**TemplateReload.** `disk` is the version of the directory, `good` the versions
that load, `tmpl` the active one. `Edit` changes the directory and is reported
only while it is watched; an event of another kind than write, create and remove
is dropped, which concerns a file that is moved out of the directory.
`TimerFires`, `Parse` and `Swap` are one reload, and several may be under way.
`unseen` remembers that nothing will make the watcher load the last change. A
load that reads some files before and some after an edit counts as either
version: the edit's event leads to another load.

## 3. Runs

### Dispatcher

| run | checks | shows |
|---|---|---|
| `dispatcher_safety` | `TypeOK`, `ResultsMatchCurrent`, `NoBackPressure`, `NoStaleAfterNew`, `DrainComplete`, `MarkIsEarned`, `ImplementsContract` | with upserts, cancellation, crashes and late executions at any point, results never mix, nobody waits for room, no version is requested after a newer one, the drain discards nothing, marks are earned; the whole implements `RelayContract` |
| `dispatcher_live` | `ShutdownCompletes`, `PollCompletes`, `PendingIsProcessed`, `EventuallyDelivered` | if every `Send` returns, polls and shutdowns end whatever fails; pending groups get their turn when one poll can take them all; a version reaches every channel if retries succeed in the end |
| `dispatcher_lost_update` | `UnpolledStayPending` | **violated**: finding 1 |
| `dispatcher_partial_fanout` | `MarkedMeansAllChannels` | **violated**: finding 2 |
| `dispatcher_starvation` | `PendingIsProcessed` with `BatchSize` below the number of groups | **violated**: finding 3 |
| `dispatcher_slow_channel` | `SlowChannelDoesNotBlock` | **violated**: finding 4 |

### The other parts

| run | checks | shows |
|---|---|---|
| `queue` | `TypeOK`, `ClosedOnce`, `NothingStranded`, `ImplementsContract`, `CloseReleases`, `AcceptedIsTaken` | whenever `Close` comes, the queue is a closable bounded FIFO; what was accepted before it is taken, and only a call that `Close` overtakes can leave an item behind; everybody who waits is released |
| `lifecycle` | `TypeOK`, `StoreOutlivesDispatcher`, `GracefulExit`, `ReadyIsTruthful`, `ProcessEnds` | the shutdown order holds on all ways out of `run()`; a probe is told 200 only if the dispatcher outlived the store check; the process ends, slow clients or not, if the dispatcher does |
| `messages` | `ValidationIsExact`, `LabelsShownOnce` | `ValidatePayload` accepts exactly the well-formed payloads; both messages show every alert, no label twice, and every label that is shared or is neither `alertname` nor `severity` (section 5 on the rest) |
| `intake` | `TypeOK`, `TableIsLastCommit`, `AnswerTellsOutcome`, `RetryOnlyWhenUseful`, `LoggedIsSent`, `NewerIsKept`, `EveryRequestAnswered` | tables show whole requests, answers and access log tell what happened, panics and broken bodies included; a delivery never replaces one that came after it was over; no path through `Save` keeps the only connection |
| `channels` | `TypeOK`, `LoadIsExact`, `EncryptedAsConfigured`, `WillingServerDelivers`, `EmailIsChannel`, `PachcaIsChannel`, `SendsReturn` | `Load` accepts exactly the sound environments; with TLS configured nothing goes in the clear; nil means delivered, to everybody; a usable configuration delivers to a willing server; which sends always return |
| `template_reload` | `ActiveIsUsable`, `LastChangeIsLoaded` | the active templates could be loaded, however reloads overlap; the last change is loaded but for the cases the property names |

Every property of a passing run has a seeded fault: an operator such as
`Collect_LastDecides`, next to the definition it replaces, that makes the change
a plausible bug would. With the fault in place TLC refutes the property.

### Bounds

* `dispatcher_safety`: two groups, two channels, batch and queue of two, two
  versions of one group and one of the other (`MaxVersion`). Two groups are what
  it takes for a result to be counted for the wrong one; two channels for a
  partial fan-out and for results out of order; a second version for an upsert
  during the fan-out, a stale retry, and a late execution of the first version.
  A second version of the other group adds no case: versions of different groups
  are never compared. Crashes and signals are not bounded.
* `dispatcher_live` has two groups of one version, to keep the liveness check
  short. Batch and queue sizes are scaled down from the configured minimum
  (a queue of ten); a queue never holds more than one notification
  (`NobodyWaitsForRoom`), so a larger one adds no behaviour.
* `queue`: two goroutines of each kind race with each other; a capacity of two
  and three items cover waiting for room and for items.
* `lifecycle`: three requests: one that has the connection, one that
  waits for it, and one that is slow elsewhere.
* `messages`: `MaxAlerts = 2` and up to three alerts (none, exactly the
  limit, one more), every value of every field of the group, and in each alert
  any one field spoilt, so that the first offending alert may be any of them. An
  accepted alert has every subset of five labels: the two that are filtered, two
  priority labels whose order is not alphabetical, and an ordinary one.
* `intake`: two requests and the poller over two groups: one commits while the
  other fails halfway or waits, on the same or on different groups; the bodies
  are three good payloads, one with too many alerts, one with a defect in its
  first and one with a defect in its last alert; all defects are in `messages`.
* `channels`: a sound environment and all that differ from it in at most two of
  the 25 variables: unset, unparsable, both sides of both ends of each range and
  of the cross-field limits, and each kind of text. Two changes suffice for each
  pair of variables that a check relates, and for two errors of which the first
  is reported. Two recipients (one may be refused after the other was accepted)
  and two sends (a late execution overlaps the next send).
* `template_reload`: two overlapping reloads are enough to be swapped out of order;
  five edits allow a good, a bad and a good version in each.

Deadlock is checked in the dispatcher, queue and intake runs. `Lifecycle` ends when the
process does, `TemplateReload` when the edits and `Channels` when the sends are
used up, and `Messages` ends with the messages, so deadlock checking is off there.

### Fairness

* Goroutines that can run do (`WF` of dispatcher, worker, consumer, main,
  server steps): the Go scheduler.
* `Start`: Kubernetes restarts the pod.
* Nothing is assumed of a worker's `Send`. That it returns is a premise inside
  `ShutdownCompletes`, `PollCompletes` and `PendingIsProcessed` (`SendsReturn` of
  `Dispatcher`), since the code does not ensure it: `SendsReturn` of `Channels`
  assumes for Pachca only that the client's own timer fires and nothing of the
  API; for email the dial is bounded in the same way, but for the SMTP dialogue
  after it the premise is that a connected server goes on answering or breaks
  off (`WF` of `ServerStep`). `dispatcher_slow_channel` shows what happens otherwise.
* That a channel tried again and again succeeds, and `MarkSent` too, is a premise
  of `EventuallyDelivered` (`SendsSucceed`, `MarkSentSucceeds`), not of the
  specification. `PendingIsProcessed` has `MarkSentSucceeds` as a premise too, so
  that a failing `MarkSent` is not the reason for the starvation in
  `dispatcher_starvation`; `SlowChannelDoesNotBlock` has `SendsSucceed` of the other
  channel.
* In `Lifecycle` the dispatcher starts and notices its cancellation; that it
  returns is the premise `DrainEnds` of `ProcessEnds`. `main` waits for it without
  a limit (`main.go:172`).
* `BeginTx` of `Intake` is strongly fair: `database/sql` hands a connection that
  is given back to one of the callers that wait for it, so none waits for ever.
* `SHUTDOWN_TIMEOUT` expires; statements that have the connection end. Nothing
  is assumed of requests that are not at the database, since clients are slow.
* `PendingIsProcessed` has the premise that signals and crashes come to an end
  (`LastStarts`): a process that is stopped for ever again processes nothing.
* `LastChangeIsLoaded` has the premise that a reload ends before the next one
  begins (the debounce period against parsing a few files); without it the older
  of two reloads may be swapped in last.

## 4. Proofs

All theorems hold for every value of the constants, under the named assumptions
of the modules that declare them. `GroupsAssumption`: finitely many group keys.
`DispatcherAssumption`: the number of channels
is a natural number (zero included), batch and queue size are positive, as
the range checks of the configuration ensure (`config.go:472-495`; they also ask
for a queue at least as large as the batch, which the proofs do not need). `QueueAssumption`: a positive
capacity, by the same checks. `RequestAssumption`: no request is named `"free"`,
`"dispatcher"` or `"probe"`; `IntakeAssumption` likewise of `"none"` and
`"poller"`, and the payloads are payloads. `ValidationAssumption`: a positive
`MaxAlerts` (`config.go:445`); no group key is one of the two names that stand
for a missing and for a too long key. `TemplateAssumption`: the number of edits is
a natural number. `ChannelsAssumption`: so is the number of sends, and the
environments of the start are environments, which need not be sound.
`FormattersAssumption`: the alphabet of labels has no repetition.
`MessagesAssumption`: the inputs are payloads, and no label has the empty value.
Alertmanager drops such labels, and the formatters' `labels[k]` could not tell
them from missing ones.

**DispatcherProofs** proves `Spec => []IInv` and from it `TypeCorrect`,
`MatchedResults`, `NobodyWaitsForRoom`, `CleanShutdown`, `MarksAreEarned`,
`OnlyPendingIsSent`, `NeverOutOfDate`, `SentIsReceived`, and the `Refinement` of
`RelayContract`. None of the properties is inductive by itself. `IInv`
(`DispatcherInvariant`) is an account of where the current notification is:

* `OnePlace`, `OneResult`: a channel that accepted it has it in its queue, or in
  its worker, or as one result, and in one of these places only;
* `Account`: collected results and outstanding channels add up to the accepting
  ones. When `collected = enqueued` nothing is outstanding, which is why the next
  group starts clean, why no queue is ever found full and why the drain is empty;
* `Phase`: what the place of the dispatcher goroutine says about batch, closed
  queues, outstanding channels, and about who has accepted;
* `Successes`: a reported or counted success is a delivery, so `allOK` at the
  end means that all accepting channels have it;
* `Versions`: rows of the batch are still pending, its versions lie between
  everything requested and what the row holds, and its keys are distinct.

`HandedOver`, inductive together with `IInv`, says that what a worker is sending
has been requested and that only what was requested is ever executed. The
refinement needs it for `SendReturns` with nil, which is an execution by the
endpoint (or nothing new), and `Versions` for `Dequeue`, the contract's hand-over.

The proof has one lemma per action and conjunct that the action disturbs; those
about cardinality use `FiniteSetTheorems`. TLC checked `IInv` on
small instances first.

**QueueProofs** proves `Spec => []QInv` and from it `CloseIsIdempotent`,
`QueueTypes`, `Drained` and `QueueRefinement`, for any number of producers,
consumers and closers and with `Close` at any moment. `QInv` adds that the items
in the channel are the ones accepted and not taken, the order of the flags
(`done` implies `closed`), and that without an overtaken call nothing is accepted
any more and no producer is past its check once `closed` is set.

**LifecycleProofs** proves `Spec => []LInv` and `StoreIsClosedLast`,
`OrderlyExit`, `ProbesTellTheTruth`, `LifecycleTypes`. `LInv` adds which place in `run()` goes
with which state of store, dispatcher and server; in particular that past an
error-free `srv.Shutdown` nothing is in flight; and that a probe none of whose
checks failed read the running flag of the dispatcher after the store check.

**IntakeProofs** proves `Spec => []IntakeInv` and from it `IntakeTypes`,
`CommittedTables`, `DeliveryOrder`, `AnswersAreTrue`, `RetriesAreUseful` and
`LogIsTrue`, for any number of requests and groups, any payloads and any limit.
`IntakeInv` has, for each request,

* `WriterInv`: the states of the response writer that `WriteHeader`, `Write` and
  `Recovery` can leave, and who wrote the body;
* `PlaceInv`: what the place of the request in `HandleWebhook` and `Save` says of its
  input, its answer and whether it is in the log of commits;
* `TxInv`: how far the open transaction is. It began as the committed tables;
  after the upsert the group's row is the request's; between the inserts its
  alerts are the first `n` of the payload. At the commit `n` is all of them, which
  is `TableIsLastCommit`;
* `BeforeInv`: a request that was over when another one arrived stays over, so that
  it cannot commit after it (`NewerIsKept`).

**ValidationProofs**, **MessagesProofs**. `ValidatePayloadIsExact` compares the
sequence of checks, with the loop over the alerts, with `WellFormed`, `Complete` and
`Bounded`; `AcceptedIsWellFormed` carries it to the run's `ValidationIsExact`.
`LabelsAreShown` rests on `AmongFacts`: the loop over a list of names keeps the
names that are among the keys, each once and in order. From it follows
`ListedOnce` (priority labels and the rest overlap in nothing and leave out
nothing), and `HeaderTells` accounts for `alertname` and `severity`.

**ChannelsProofs**.

* `LoadAcceptsExactly`, `LoadExactness`: `Load` returns nil exactly for an environment
  without a defect, and otherwise names a variable that has one. The reference
  (`Defects` in `Channels`) speaks of each variable by itself and of the limits
  between them, not of an order of checks or of normalisation. The proof goes through
  every check of `validate`; the list of recipients may have any length.
* `PachcaInv` says where the message of each call is: at the API, posted, or sent
  elsewhere by a redirect, and in one of these places only. `PachcaRefinement`
  follows.
* `EmailInv` says where the dialogue is. `Done` counts the commands that the
  server accepted, what remains is the end of `Dialogue(cfg)` from there on, and
  `Done` decides whether the connection is encrypted, which recipients were
  accepted, and what the settings must be like to have got this far
  (`DialogueInv`). A message is with the server only when the call is at its last
  command or over, and it is with all recipients or with none (`MessageInv`). With that
  `Encryption` compares positions in the dialogue: each command with
  something to hide comes after the one that encrypts. `WillingServer` is
  part of the invariant, and `EmailRefinement` follows from `MessageInv`.

The proof of `EmailRefinement` found the refinement mapping of `EmailSender`
ambiguous where there are no recipients: "nobody" and "everybody" were both true
of a message. The mapping now says which comes first, and `BuiltInv`, that no such
channel is built.

**TemplateReloadProofs** proves `ReloadIsFailSafe`; `TInv` adds that what a reload is
about to swap in can be loaded, also if the directory has changed since.

TLC checked the invariants of `Dispatcher`, `Intake` and both channels on small
instances before they were proved.

**Only model-checked**:

* liveness: `ShutdownCompletes`, `PollCompletes`, `PendingIsProcessed`,
  `EventuallyDelivered`, `CloseReleases`, `AcceptedIsTaken`, `ProcessEnds`,
  `EveryRequestAnswered`, `SendsReturn`, `LastChangeIsLoaded`. The provers have no
  rules for fairness and `ENABLED`;
* the four properties that the code violates, on the instances of their runs.

Every invariant and every refinement that a passing run checks is also proved.
The provers cannot apply the library's induction rules; what the three
loops over lists compute (`Recipients`, `Among`, the alerts in `ValidatePayload`) is
shown by the least round at which it would be wrong (`LeastIsLeast`,
and `WellFoundedInduction` in `ChannelsProofs`).

## 5. Findings

1. *Lost update* (`internal/storage/sqlite/store.go:198`): `MarkSent` updates by
   key. A group upserted between poll and mark is marked sent in a version
   nobody received.
2. *Partial fan-out* (`internal/notify/dispatcher.go:162`): an `Enqueue` that fails on
   the cancelled context is skipped, and the group is marked after the other
   channel's success, against "only if ALL channels succeed".
3. *Starvation* (`store.go:161`): failing groups keep the front of the order; as
   many of them as `NOTIFY_BATCH_SIZE` keep all others from being tried.
4. *Slow channel* (`dispatcher.go:184`): the collect loop waits for all channels,
   so a slow email does hold up Pachca, against `docs/architecture.md:81`. Nor is
   the wait bounded, against "Workers use bounded sendTimeout, so this won't hang
   indefinitely" (`dispatcher.go:179-181`): after the dial nothing bounds
   `Sender.Send` (`internal/channel/email/sender.go:98-140`), so that an SMTP server
   that says nothing holds the poll, the shutdown and, through `main.go:172`, the
   process.

Further disagreements between code and text that were met while modelling and
have no run of their own:

* *Late accept* (`queue.go:64`): an `Enqueue` past its check may put its item
  into a closed queue, although `Close` "signals the queue to stop accepting new
  items" (`queue.go:122`). The dispatcher is not affected, since it closes its
  queues between its calls.
* *Shutdown sequence* (`main.go:128`): the dispatcher's context is a child of
  the signal's, so it drains at once and not after `srv.Shutdown`, against
  `main.go:159`. Groups stored meanwhile wait for the next process.
* *Quick start* (`internal/alerts/validation.go:27`): the request in the
  repository's README has no `groupKey`, `receiver`, `status`, `version` or
  `fingerprint` and is answered 400.
* *Missed template change* (`internal/template/reload.go:38`): a change between
  the first load and the begin of the watch is not loaded until the next one;
  nor is a file that is moved out of the directory (line 58), nor the newer of
  two changes when their reloads overlap.
* *Configurations that cannot deliver* (`internal/config/config.go:624`, `639`):
  `validate` accepts addresses with a display name (RFC 5322, as
  `docs/configuration.md:57-58` allows), which `Send` puts into MAIL and RCPT as
  they are, and credentials with `EMAIL_TLS_MODE=none`, which `smtp.PlainAuth` does
  not use with a remote host. Every send then fails.
  `TestSender_Send_WithAuth` (`sender_test.go:193-212`) expects the latter to be
  sent; its mock does not ask `PlainAuth`. `WillingServerDelivers` is about the
  other configurations (`Usable`) only.
* *No deadline* (`internal/channel/email/sender.go:98`): after the dial nothing
  bounds the dialogue, so `NOTIFY_SEND_TIMEOUT` does not bound an email.
* *Redirects* (`internal/channel/pachca/client.go:92`): a POST answered with 301,
  302 or 303 is repeated as a GET, and a 2xx from there counts as delivered.
* *Late execution*: a request whose sender gave up may be executed after the
  next version was delivered; the recipients then see them in the wrong order.
  `Dispatcher` has such executions (`Execute`), and no property excludes them.
* *Broken bodies* (`internal/alerts/handler.go:47-48`): a group whose body is not
  read to its end is answered 400 like one that is not JSON, and a client that
  still gets the answer does not try again. `RetryOnlyWhenUseful` states the
  exception.
* *Unchecked lengths* (`internal/alerts/validation.go:9-11`): `maxStringLength` is
  said to bound the string fields of payloads, but `groupLabels`, `commonLabels`
  and `commonAnnotations` are not checked.
* *Labels not shown* (`internal/channel/email/formatter.go:19`,
  `internal/channel/pachca/formatter.go:14`): `alertname` and `severity` are left
  out of every alert because they are "already in header", but the header takes
  them from `CommonLabels`. In a group whose alerts differ in them they are shown
  nowhere. `LabelsShownOnce` does not require it: it leaves this case open.
* *Two counts* (`internal/channel/email/formatter.go:71`): the body of a mail
  counts all alerts, its subject and Pachca's header only those in the group's
  state, so a group that is partly resolved has two numbers.
* *500 after the commit* (`internal/server/middleware/recovery.go:43`): a panic
  between the commit and the answer makes Alertmanager send again what is
  stored; the upsert makes that harmless but for a second notification.

## 6. Plan

Done, in this order: `Dispatcher` with `RelayContract` and its proofs;
`NotificationQueue` with `QueueContract` and its proofs; `Lifecycle` and its
proofs; `Validation` and `Intake` with `Middleware`; `TemplateReload`; `Config`,
`EmailSender` and `PachcaClient` with `ChannelContract`, composed in `Channels`;
`Formatters`, composed with `Validation` in `Messages`; the proofs about `Intake`,
`Validation`, `Messages`, `Channels` and `TemplateReload`.

Next:

1. Proofs: the safety half of what the liveness runs show (what a step towards
   the goal may never undo), such as that a failed poll leaves its groups pending,
   and that reloads that do not overlap never go back to an older
   version.
2. A second process on the same database (rolling updates): a second instance of
   the dispatcher over one `tbl`.
3. Runs of their own for the configurations that cannot deliver and for the
   labels that are not shown (section 5).

## 7. Not modelled

* Wording, markup, HTML escaping, time formats, the header lines of a mail
  (`buildMessage`), what a custom template renders.
* Logging (`internal/logging`, `LogValue`, `SlogLevel`), test utilities.
* `internal/cleanup`, `internal/metrics` and the PostgreSQL store: the packages
  contain a doc comment only.
* `/healthz` and the pre-stop sleep: no state; real time does not occur in the
  models, so deadlines may expire whenever the code lets them.
* Power loss: with `synchronous=NORMAL` a commit may be lost with the machine.
  A crash in these models is one of the process, and committed rows survive it.
* Two processes on one database. The chart's default strategy, `RollingUpdate`,
  allows it for a while; its README recommends `Recreate` for SQLite.
* Redirects with 307 and 308, which repeat the POST: for the worker they are the
  same as a POST to the address they name.
