------------------------- MODULE NotificationQueue -------------------------
(***************************************************************************)
(* internal/notify/queue.go: the bounded queue between the dispatcher and  *)
(* a worker, at the grain of its atomic loads and selects, for any number  *)
(* of goroutines that call Enqueue, Dequeue and Close.                     *)
(*                                                                         *)
(* A select with several ready cases takes any of them.  Items are         *)
(* numbered in the order in which they are accepted.                       *)
(***************************************************************************)
EXTENDS Integers, Sequences, FiniteSets

CONSTANTS Producer,         \* goroutines that call Enqueue
          Consumer,         \* goroutines that call Dequeue in a loop
          Closer,           \* goroutines that call Close once
          Cap,              \* cap(q.ch)
          MaxItems          \* bound of the model: items accepted

ASSUME QueueAssumption ==
    /\ Cap \in Nat \ {0}
    /\ MaxItems \in Nat

VARIABLES
    ch,      \* q.ch
    done,    \* q.done is closed
    closed,  \* q.closed
    sent,    \* items accepted so far
    taken,   \* items handed to a consumer so far
    ppc,     \* where each producer is in Enqueue
    cpc,     \* where each consumer is in Dequeue
    cctx,    \* the consumer's context is cancelled
    kpc,     \* where each closer is in Close
    \* Auxiliary: what the properties say about the moment of Close.
    atClose, \* items accepted before q.closed was set
    overlap  \* a producer was past its check at that moment

avars == <<atClose, overlap>>
vars == <<ch, done, closed, sent, taken, ppc, cpc, cctx, kpc, avars>>

Init ==
    /\ ch = <<>>
    /\ done = FALSE
    /\ closed = FALSE
    /\ sent = 0
    /\ taken = 0
    /\ ppc = [p \in Producer |-> "idle"]
    /\ cpc = [c \in Consumer |-> "try"]
    /\ cctx = [c \in Consumer |-> FALSE]
    /\ kpc = [k \in Closer |-> "idle"]
    /\ atClose = 0
    /\ overlap = FALSE

-----------------------------------------------------------------------------
(* Enqueue                                                                 *)

EnqueueCall(p) ==
    /\ ppc[p] = "idle"
    /\ ppc' = [ppc EXCEPT ![p] = "check"]
    /\ UNCHANGED <<ch, done, closed, sent, taken, cpc, cctx, kpc, avars>>

\* Seeded fault: Enqueue goes to its select without looking at q.closed.
EnqueueCheck_Skipped(p) ==
    /\ ppc[p] = "check"
    /\ ppc' = [ppc EXCEPT ![p] = "select"]
    /\ UNCHANGED <<ch, done, closed, sent, taken, cpc, cctx, kpc, avars>>

\* q.closed.Load(): ErrQueueClosed, or on to the select.
EnqueueCheck(p) ==
    /\ ppc[p] = "check"
    /\ ppc' = [ppc EXCEPT ![p] = IF closed THEN "idle" ELSE "select"]
    /\ UNCHANGED <<ch, done, closed, sent, taken, cpc, cctx, kpc, avars>>

\* Seeded fault: the queue grows instead of blocking its producer.
EnqueueSend_Unbounded(p) ==
    /\ ppc[p] = "select"
    /\ sent < MaxItems
    /\ ch' = Append(ch, sent + 1)
    /\ sent' = sent + 1
    /\ ppc' = [ppc EXCEPT ![p] = "idle"]
    /\ UNCHANGED <<done, closed, taken, cpc, cctx, kpc, avars>>

\* case q.ch <- n
EnqueueSend(p) ==
    /\ ppc[p] = "select"
    /\ Len(ch) < Cap
    /\ sent < MaxItems
    /\ ch' = Append(ch, sent + 1)
    /\ sent' = sent + 1
    /\ ppc' = [ppc EXCEPT ![p] = "idle"]
    /\ UNCHANGED <<done, closed, taken, cpc, cctx, kpc, avars>>

\* case <-ctx.Done(): the deadline of the call or a cancelled parent.
EnqueueTimeout(p) ==
    /\ ppc[p] = "select"
    /\ ppc' = [ppc EXCEPT ![p] = "idle"]
    /\ UNCHANGED <<ch, done, closed, sent, taken, cpc, cctx, kpc, avars>>

\* case <-q.done
EnqueueDone(p) ==
    /\ ppc[p] = "select"
    /\ done
    /\ ppc' = [ppc EXCEPT ![p] = "idle"]
    /\ UNCHANGED <<ch, done, closed, sent, taken, cpc, cctx, kpc, avars>>

-----------------------------------------------------------------------------
(* Dequeue                                                                 *)

\* Receive from q.ch, return the item, and call Dequeue again.
Take(c) ==
    /\ ch # <<>>
    /\ ch' = Tail(ch)
    /\ taken' = taken + 1
    /\ cpc' = [cpc EXCEPT ![c] = "try"]
    /\ UNCHANGED <<done, closed, sent, ppc, cctx, kpc, avars>>

\* The first, non-blocking select.
DequeueTry(c) ==
    /\ cpc[c] = "try"
    /\ \/ Take(c)
       \/ /\ ch = <<>>
          /\ cpc' = [cpc EXCEPT ![c] = "wait"]
          /\ UNCHANGED <<ch, done, closed, sent, taken, ppc, cctx, kpc, avars>>

\* Seeded fault: the blocking select has no case for q.done.
DequeueWait_IgnoresDone(c) ==
    /\ cpc[c] = "wait"
    /\ \/ Take(c)
       \/ /\ cctx[c]
          /\ cpc' = [cpc EXCEPT ![c] = "cancelled"]
          /\ UNCHANGED <<ch, done, closed, sent, taken, ppc, cctx, kpc, avars>>

\* The blocking select: an item, a cancelled context, or q.done.
DequeueWait(c) ==
    /\ cpc[c] = "wait"
    /\ \/ Take(c)
       \/ /\ cctx[c]
          /\ cpc' = [cpc EXCEPT ![c] = "cancelled"]
          /\ UNCHANGED <<ch, done, closed, sent, taken, ppc, cctx, kpc, avars>>
       \/ /\ done
          /\ cpc' = [cpc EXCEPT ![c] = "drain"]
          /\ UNCHANGED <<ch, done, closed, sent, taken, ppc, cctx, kpc, avars>>

\* Seeded fault: <-q.done returns ErrQueueClosed without looking again.
DequeueDrain_NoRecheck(c) ==
    /\ cpc[c] = "drain"
    /\ cpc' = [cpc EXCEPT ![c] = "ended"]
    /\ UNCHANGED <<ch, done, closed, sent, taken, ppc, cctx, kpc, avars>>

\* The select inside case <-q.done: an item that is still there, or
\* ErrQueueClosed.
DequeueDrain(c) ==
    /\ cpc[c] = "drain"
    /\ \/ Take(c)
       \/ /\ ch = <<>>
          /\ cpc' = [cpc EXCEPT ![c] = "ended"]
          /\ UNCHANGED <<ch, done, closed, sent, taken, ppc, cctx, kpc, avars>>

\* The consumer's context is cancelled.
Cancel(c) ==
    /\ ~cctx[c]
    /\ cctx' = [cctx EXCEPT ![c] = TRUE]
    /\ UNCHANGED <<ch, done, closed, sent, taken, ppc, cpc, kpc, avars>>

-----------------------------------------------------------------------------
(* Close                                                                   *)

\* The first Close fixes the auxiliary variables.
NoteClose ==
    /\ atClose' = IF closed THEN atClose ELSE sent
    /\ overlap' = \/ overlap
                  \/ /\ ~closed
                     /\ \E p \in Producer : ppc[p] = "select"

\* Seeded fault: the flag is set, but not compared first.
CloseSwap_Store(k) ==
    /\ kpc[k] = "idle"
    /\ closed' = TRUE
    /\ kpc' = [kpc EXCEPT ![k] = "closing"]
    /\ NoteClose
    /\ UNCHANGED <<ch, done, sent, taken, ppc, cpc, cctx>>

\* q.closed.CompareAndSwap(false, true): only the first caller goes on.
CloseSwap(k) ==
    /\ kpc[k] = "idle"
    /\ closed' = TRUE
    /\ kpc' = [kpc EXCEPT ![k] = IF closed THEN "returned" ELSE "closing"]
    /\ NoteClose
    /\ UNCHANGED <<ch, done, sent, taken, ppc, cpc, cctx>>

\* close(q.done)
CloseDone(k) ==
    /\ kpc[k] = "closing"
    /\ done' = TRUE
    /\ kpc' = [kpc EXCEPT ![k] = "returned"]
    /\ UNCHANGED <<ch, closed, sent, taken, ppc, cpc, cctx, avars>>

-----------------------------------------------------------------------------

ProducerStep(p) ==
    \/ EnqueueCall(p)
    \/ EnqueueCheck(p)
    \/ EnqueueSend(p)
    \/ EnqueueTimeout(p)
    \/ EnqueueDone(p)

ConsumerStep(c) == DequeueTry(c) \/ DequeueWait(c) \/ DequeueDrain(c)

CloserStep(k) == CloseSwap(k) \/ CloseDone(k)

Next ==
    \/ \E p \in Producer : ProducerStep(p)
    \/ \E c \in Consumer : ConsumerStep(c) \/ Cancel(c)
    \/ \E k \in Closer : CloserStep(k)

Spec == Init /\ [][Next]_vars

\* A goroutine whose Dequeue or Close can go on does; producers may stop
\* calling Enqueue, but not in the middle of a call.
FairSpec ==
    /\ Spec
    /\ \A p \in Producer :
           WF_vars(EnqueueCheck(p) \/ EnqueueSend(p) \/ EnqueueDone(p))
    /\ \A c \in Consumer : WF_vars(ConsumerStep(c))
    /\ \A k \in Closer : WF_vars(CloseDone(k))

-----------------------------------------------------------------------------
(* Properties                                                              *)

\* Every variable has its type, and q.ch keeps its capacity.
TypeOK ==
    /\ ch \in Seq(Nat)
    /\ Len(ch) <= Cap
    /\ done \in BOOLEAN
    /\ closed \in BOOLEAN
    /\ sent \in Nat
    /\ taken \in Nat
    /\ ppc \in [Producer -> {"idle", "check", "select"}]
    /\ cpc \in [Consumer -> {"try", "wait", "drain", "ended", "cancelled"}]
    /\ cctx \in [Consumer -> BOOLEAN]
    /\ kpc \in [Closer -> {"idle", "closing", "returned"}]
    /\ atClose \in Nat
    /\ overlap \in BOOLEAN

\* q.done is never closed twice (Go would panic), although several
\* goroutines may call Close at once.
ClosedOnce ==
    \A k \in Closer :
        kpc[k] = "closing" =>
            ~done /\ \A j \in Closer : kpc[j] = "closing" => j = k

\* A consumer is told ErrQueueClosed only when all that was accepted before
\* Close is taken: 'After Close(), remaining items can still be dequeued until
\* the queue is drained.'  Only a call of Enqueue that Close overtakes between
\* its check and its select can leave an item behind.
NothingStranded ==
    (\E c \in Consumer : cpc[c] = "ended") =>
        /\ taken >= atClose
        /\ overlap \/ ch = <<>>

\* Inductive: the items in q.ch are those accepted and not taken, in order;
\* the order in which Close sets its flags; and what a producer past its check
\* and a consumer past q.done know.
QInv ==
    /\ TypeOK
    /\ ClosedOnce
    /\ sent = taken + Len(ch)
    /\ atClose <= sent
    /\ done => closed
    /\ \A k \in Closer : kpc[k] = "closing" => closed
    /\ \A c \in Consumer : cpc[c] \in {"drain", "ended"} => done
    /\ (\E c \in Consumer : cpc[c] = "ended") => taken >= atClose
    /\ closed /\ ~overlap =>
           sent = atClose /\ \A p \in Producer : ppc[p] # "select"

Contract ==
    INSTANCE QueueContract
        WITH Item <- 1 .. MaxItems,
             calls <- {p \in Producer : ppc[p] = "select"},
             ended <- {c \in Consumer : cpc[c] = "ended"}

\* The queue is the closable FIFO of QueueContract, although its steps are
\* finer and its three flags change one after the other.
ImplementsContract == Contract!Spec

\* Close releases everybody: no consumer goes on waiting for an item (the
\* worker of a closed queue ends, so that Run's workerWg.Wait() returns), and
\* no producer waits for room.
CloseReleases ==
    /\ \A c \in Consumer : closed ~> cpc[c] \in {"ended", "cancelled"}
    /\ \A p \in Producer : closed /\ ppc[p] = "select" ~> ppc[p] = "idle"

\* An item for which Enqueue returned nil reaches a consumer unless all their
\* contexts are cancelled; Close takes that away from none but the items of
\* the calls it overtakes.
AcceptedIsTaken ==
    \A i \in 1 .. MaxItems :
        sent >= i ~> \/ taken >= i
                     \/ \A c \in Consumer : cctx[c]
                     \/ overlap /\ i > atClose
=============================================================================
