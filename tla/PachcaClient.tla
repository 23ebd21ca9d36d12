---------------------------- MODULE PachcaClient ----------------------------
(***************************************************************************)
(* internal/channel/pachca: Channel.Send and Client.SendMessage, one POST  *)
(* to the messages API.  The context of the call and the http.Client's own *)
(* timeout bound every wait; the first of them to expire is what counts.   *)
(* http.Client follows redirects by itself: after 301, 302 and 303 the     *)
(* second request is a GET without a body.                                 *)
(***************************************************************************)
EXTENDS Naturals

CONSTANT Attempts   \* bound of the model: calls of Send

VARIABLES
    try,       \* the number of calls of Send so far
    pc,        \* where the call is
    expired,   \* its deadline has passed
    res,       \* what each call returned
    got,       \* the calls whose message was posted to the chat
    inbox,     \* the calls whose request the API has and has not executed
    rerouted   \* the calls whose POST was answered with a redirect

vars == <<try, pc, expired, res, got, inbox, rerouted>>

Init ==
    /\ try = 0
    /\ pc = "idle"
    /\ expired = FALSE
    /\ res = [a \in 1 .. Attempts |-> "none"]
    /\ got = {}
    /\ inbox = {}
    /\ rerouted = {}

\* The worker calls Send.
Begin ==
    /\ pc = "idle"
    /\ try < Attempts
    /\ try' = try + 1
    /\ pc' = "post"
    /\ expired' = FALSE
    /\ UNCHANGED <<res, got, inbox, rerouted>>

\* The deadline passes.
Expire ==
    /\ pc # "idle"
    /\ ~expired
    /\ expired' = TRUE
    /\ UNCHANGED <<try, pc, res, got, inbox, rerouted>>

\* SendMessage returns; the deferred Close gives up the response's body.
Return(r) ==
    /\ pc' = "idle"
    /\ res' = [res EXCEPT ![try] = r]
    /\ UNCHANGED <<try, expired, got, inbox, rerouted>>

\* httpClient.Do: the request is with the API.
Post ==
    /\ pc = "post"
    /\ ~expired
    /\ pc' = "await"
    /\ inbox' = inbox \cup {try}
    /\ UNCHANGED <<try, expired, res, got, rerouted>>

\* httpClient.Do returns an error: no connection, or a broken one.
DoFails ==
    /\ pc \in {"post", "await", "get"}
    /\ Return("err")

\* Seeded fault: a call without a deadline.
DoTimeout_None == FALSE /\ Return("err")

\* httpClient.Do returns an error: the deadline has passed.
DoTimeout ==
    /\ pc \in {"post", "await", "get"}
    /\ expired
    /\ Return("err")

\* The API executes a request, perhaps after the client has given up.
Execute ==
    \E a \in inbox :
        /\ got' = got \cup {a}
        /\ inbox' = inbox \ {a}
        /\ UNCHANGED <<try, pc, expired, res, rerouted>>

Moves(from, to) ==
    /\ pc = from
    /\ pc' = to
    /\ UNCHANGED <<try, expired, res, got, inbox, rerouted>>

\* The answer is 2xx: the request has been executed.
AnswerOK == try \in got /\ Moves("await", "drain")

\* Seeded fault: every answer counts as success.
AnswerError_Accepted == Moves("await", "drain")

\* Any other answer, from the API before or after it executed the request, or
\* from a proxy in front of it.
AnswerError == Moves("await", "errbody")

\* 301, 302 or 303 from something in front of the API: Do goes on with GET.
Redirect ==
    /\ pc = "await"
    /\ try \in inbox
    /\ pc' = "get"
    /\ inbox' = inbox \ {try}
    /\ rerouted' = rerouted \cup {try}
    /\ UNCHANGED <<try, expired, res, got>>

\* The answer to the GET, whatever it found there.
GetAnswer == Moves("get", "drain") \/ Moves("get", "errbody")

\* The body of an error, at most 8 KB of it, is read or breaks off.
ReadErrorBody == pc = "errbody" /\ Return("err")

\* The body is discarded; an error in doing so is ignored.
DrainBody == pc = "drain" /\ Return("nil")

\* What waits for the API.
ServerStep ==
    \/ Post \/ DoFails \/ Execute \/ AnswerOK \/ AnswerError
    \/ Redirect \/ GetAnswer \/ ReadErrorBody \/ DrainBody

\* What happens once the deadline has passed, whatever the API does.
OnTimeout == DoTimeout \/ (expired /\ (ReadErrorBody \/ DrainBody))

Next == Begin \/ Expire \/ DoTimeout \/ ServerStep

-----------------------------------------------------------------------------
(* Properties                                                              *)

TypeOK ==
    /\ try \in 0 .. Attempts
    /\ pc \in {"idle", "post", "await", "get", "errbody", "drain"}
    /\ expired \in BOOLEAN
    /\ res \in [1 .. Attempts -> {"none", "nil", "err"}]
    /\ got \subseteq 1 .. try
    /\ inbox \subseteq 1 .. try
    /\ rerouted \subseteq 1 .. try

Contract ==
    INSTANCE ChannelContract
        WITH sending <- pc # "idle",
             got <- [a \in 1 .. Attempts |->
                        IF a \in got THEN "all" ELSE "nobody"]

\* Pachca is a channel as the worker expects it: nil means that the message is
\* in the chat, unless the POST was redirected, which the client cannot tell
\* from success; no call posts it twice.
PachcaIsChannel == Contract!Spec
=============================================================================
