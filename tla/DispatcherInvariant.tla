------------------------ MODULE DispatcherInvariant ------------------------
(***************************************************************************)
(* The inductive invariant of Dispatcher.  Its centre is an account of     *)
(* where the notification of the current group is: every channel that      *)
(* accepted it has it in its queue, or its worker has it, or its result is *)
(* in the result channel, or the result has been collected; and in one of  *)
(* these places only.                                                      *)
(***************************************************************************)
EXTENDS Dispatcher

\* The channels whose result waits in the result channel.
Results == {resultCh[i].ch : i \in 1 .. Len(resultCh)}

\* The channels whose result is still due.
Outstanding ==
    {c \in Channel : queue[c] # <<>> \/ Working(c) \/ c \in Results}

\* Version of the current group that channel c's recipients have.
Has(c) == Request(Head(batch), c) \in delivered

\* One notification per channel, in one place, and it is the current one.
OnePlace ==
    \A c \in Channel :
        /\ queue[c] # <<>> =>
               queue[c] = <<Head(batch)>> /\ ~Working(c) /\ c \notin Results
        /\ Working(c) => wjob[c] = Head(batch) /\ c \notin Results

\* One result per channel, for the current group.
OneResult ==
    /\ \A i, j \in 1 .. Len(resultCh) :
           resultCh[i].ch = resultCh[j].ch => i = j
    /\ \A i \in 1 .. Len(resultCh) : resultCh[i].key = Head(batch).key

\* What is due and what was collected add up to what was enqueued.
Account ==
    /\ Outstanding \subseteq enqueued
    /\ collected + Cardinality(Outstanding) = Cardinality(enqueued)

\* Where the dispatcher is says what can be outstanding and what enqueued
\* can be.
Phase ==
    /\ batch # <<>> <=> dpc \in {"enqueue", "collect", "mark"}
    /\ closed <=> dpc \in {"drain", "done"}
    /\ dpc \notin {"enqueue", "collect"} => Outstanding = {}
    /\ dpc = "enqueue" =>
           /\ ci \in Channel
           /\ enqueued \subseteq 1 .. ci - 1
           /\ ~ctxDone => enqueued = 1 .. ci - 1
           /\ collected = 0
           /\ allOK
    /\ dpc # "enqueue" => ci = 1
    /\ dpc \in {"collect", "mark"} =>
           /\ enqueued # {}
           /\ ~ctxDone => enqueued = Channel
    /\ dpc = "mark" => allOK
    /\ batch = <<>> => enqueued = {} /\ collected = 0 /\ allOK

\* A success that was reported or counted is a delivery.
Successes ==
    /\ \A c \in Channel : wpc[c] = "report" /\ wok[c] => Has(c)
    /\ \A i \in 1 .. Len(resultCh) : resultCh[i].ok => Has(resultCh[i].ch)
    /\ allOK => \A c \in enqueued \ Outstanding : Has(c)

\* The table, the batch taken from it and the requests made.
Versions ==
    /\ \A g \in Groups : tbl[g].status = "pending" => tbl[g].ver >= 1
    /\ \A d \in handed : d.ver >= 1 /\ d.ver <= tbl[d.key].ver
    /\ \A i \in 1 .. Len(batch) :
           /\ tbl[batch[i].key].status = "pending"
           /\ batch[i].ver >= 1
           /\ batch[i].ver <= tbl[batch[i].key].ver
           /\ \A d \in handed : d.key = batch[i].key => d.ver <= batch[i].ver
    /\ \A i, j \in 1 .. Len(batch) : batch[i].key = batch[j].key => i = j

\* Inductive: it holds initially and every step of the dispatcher, of a
\* worker, of the webhook and of the environment preserves it.
IInv ==
    /\ TypeOK
    /\ OnePlace
    /\ OneResult
    /\ Account
    /\ Phase
    /\ Successes
    /\ Versions
    /\ SentReachedSomebody

\* What a worker is sending has been handed to the endpoint of its channel, and
\* only what was handed over has been delivered.  Inductive together with IInv.
HandedOver ==
    /\ \A c \in Channel : wpc[c] = "send" => Request(wjob[c], c) \in handed
    /\ delivered \subseteq handed
=============================================================================
