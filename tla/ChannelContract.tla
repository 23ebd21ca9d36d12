-------------------------- MODULE ChannelContract --------------------------
(***************************************************************************)
(* notify.Channel as the worker relies on it: Send is called once after    *)
(* another, each call gives the message to all recipients or to none and   *)
(* at most once, and nil is returned only after it has been given to them. *)
(* An error leaves open whether it has been, or still will be.  A call     *)
(* that the channel's endpoint sends elsewhere is not covered by nil.      *)
(***************************************************************************)
EXTENDS Naturals

CONSTANT Attempts   \* bound of the model: calls of Send

VARIABLES try,       \* the number of calls so far
          sending,   \* the last of them is under way
          res,       \* what each call returned
          got,       \* who received the message of each call
          rerouted   \* the calls that were sent elsewhere

cvars == <<try, sending, res, got, rerouted>>

Init ==
    /\ try = 0
    /\ sending = FALSE
    /\ res = [a \in 1 .. Attempts |-> "none"]
    /\ got = [a \in 1 .. Attempts |-> "nobody"]
    /\ rerouted = {}

Begin ==
    /\ ~sending /\ try < Attempts
    /\ try' = try + 1
    /\ sending' = TRUE
    /\ UNCHANGED <<res, got, rerouted>>

Deliver(a) ==
    /\ a <= try /\ got[a] = "nobody" /\ res[a] # "nil"
    /\ got' = [got EXCEPT ![a] = "all"]
    /\ UNCHANGED <<try, sending, res, rerouted>>

Reroute ==
    /\ sending /\ got[try] = "nobody"
    /\ rerouted' = rerouted \cup {try}
    /\ UNCHANGED <<try, sending, res, got>>

Return(r) ==
    /\ sending
    /\ r = "nil" => got[try] = "all" \/ try \in rerouted
    /\ sending' = FALSE
    /\ res' = [res EXCEPT ![try] = r]
    /\ UNCHANGED <<try, got, rerouted>>

Next ==
    \/ Begin \/ Reroute
    \/ \E a \in 1 .. Attempts : Deliver(a)
    \/ \E r \in {"nil", "err"} : Return(r)

Spec == Init /\ [][Next]_cvars
=============================================================================
