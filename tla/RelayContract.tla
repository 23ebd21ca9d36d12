--------------------------- MODULE RelayContract ---------------------------
(***************************************************************************)
(* What the relay promises about the groups it has accepted, without       *)
(* queues, workers, batches, polls or processes: only the table, the       *)
(* requests made to the endpoints of the channels, what these have         *)
(* executed, and whether the relay is being stopped.                       *)
(*                                                                         *)
(* It promises at-least-once delivery of a group that may be coalesced     *)
(* (only the latest version counts).  Requests of one channel never go     *)
(* back to an older version.  A group is marked 'sent' on account of the   *)
(* last version that was requested, after every channel delivered it; when *)
(* the relay is being stopped, at least one did.                           *)
(***************************************************************************)
EXTENDS AlertStore

CONSTANT Channel

VARIABLES tbl, handed, delivered, stopping

cvars == <<tbl, handed, delivered, stopping>>

Init ==
    /\ tbl = EmptyTable
    /\ handed = {}
    /\ delivered = {}
    /\ stopping = FALSE

\* A webhook call is accepted: its group is due, whatever was before.
Accept(g) ==
    /\ tbl'[g].at \in Nat
    /\ tbl' = Save(tbl, g, tbl'[g].at)
    /\ UNCHANGED <<handed, delivered, stopping>>

\* The endpoint of channel c is asked to deliver version v of a group that is
\* due.  It has not been asked to deliver a newer one.
HandOver(g, v, c) ==
    /\ tbl[g].status = "pending"
    /\ handed' = handed \cup {[key |-> g, ver |-> v, ch |-> c]}
    /\ \A d \in handed : d.key = g /\ d.ch = c => d.ver <= v
    /\ UNCHANGED <<tbl, delivered, stopping>>

\* An endpoint does what it was asked to do, sooner or later or never.
Execute ==
    /\ \E d \in handed : delivered' = delivered \cup {d}
    /\ UNCHANGED <<tbl, handed, stopping>>

\* A group that is due is done with: its version v has been delivered by
\* everybody who had to, and nobody has been asked to deliver a newer one.
Finish(g, v) ==
    /\ tbl[g].status = "pending"
    /\ tbl' = MarkSent(tbl, g)
    /\ \A d \in handed : d.key = g => d.ver <= v
    /\ \E by \in SUBSET Channel :
           /\ by # {}
           /\ ~stopping => by = Channel
           /\ \A c \in by : [key |-> g, ver |-> v, ch |-> c] \in delivered
    /\ UNCHANGED <<handed, delivered, stopping>>

\* The relay is told to stop, or is started again.
StopOrStart ==
    /\ stopping' = ~stopping
    /\ UNCHANGED <<tbl, handed, delivered>>

Next ==
    \/ \E g \in Groups :
           \/ Accept(g)
           \/ \E v \in 1 .. tbl[g].ver :
                  Finish(g, v) \/ \E c \in Channel : HandOver(g, v, c)
    \/ Execute
    \/ StopOrStart

Spec == Init /\ [][Next]_cvars
=============================================================================
