--------------------------- MODULE QueueContract ---------------------------
(***************************************************************************)
(* What a notification queue is for the dispatcher and its worker: a       *)
(* bounded FIFO that, once closed, begins no further call, and tells a     *)
(* consumer that it is over only when it is empty.  A call that was under  *)
(* way when the queue was closed may still put its item.  Dispatcher.tla   *)
(* closes a queue between its calls and uses the queues in that form.      *)
(***************************************************************************)
EXTENDS Naturals, Sequences

CONSTANTS Item,      \* what it holds
          Cap,       \* the capacity
          Producer,  \* the goroutines that call Enqueue
          Consumer   \* the goroutines that call Dequeue

VARIABLES ch,      \* what is in the queue
          closed,  \* Close has been called
          calls,   \* the producers whose call is under way
          ended    \* the consumers that were told ErrQueueClosed

qvars == <<ch, closed, calls, ended>>

Init == ch = <<>> /\ closed = FALSE /\ calls = {} /\ ended = {}

Call(p) ==
    /\ ~closed
    /\ calls' = calls \cup {p}
    /\ UNCHANGED <<ch, closed, ended>>

Put(p) ==
    /\ p \in calls
    /\ Len(ch) < Cap
    /\ \E n \in Item : ch' = Append(ch, n)
    /\ calls' = calls \ {p}
    /\ UNCHANGED <<closed, ended>>

GiveUp(p) ==
    /\ p \in calls
    /\ calls' = calls \ {p}
    /\ UNCHANGED <<ch, closed, ended>>

Take ==
    /\ ch # <<>>
    /\ ch' = Tail(ch)
    /\ UNCHANGED <<closed, calls, ended>>

Close ==
    /\ ~closed
    /\ closed' = TRUE
    /\ UNCHANGED <<ch, calls, ended>>

End(c) ==
    /\ closed
    /\ ch = <<>>
    /\ ended' = ended \cup {c}
    /\ UNCHANGED <<ch, closed, calls>>

Next ==
    \/ \E p \in Producer : Call(p) \/ Put(p) \/ GiveUp(p)
    \/ Take \/ Close
    \/ \E c \in Consumer : End(c)

Spec == Init /\ [][Next]_qvars
=============================================================================
