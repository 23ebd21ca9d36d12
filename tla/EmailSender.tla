---------------------------- MODULE EmailSender ----------------------------
(***************************************************************************)
(* internal/channel/email: Channel.Send and Sender.Send, the dialogue with *)
(* the SMTP server command by command.  After each command the server may  *)
(* accept, refuse, drop the connection or say nothing at all; the context  *)
(* of the call bounds only the dial.                                       *)
(***************************************************************************)
EXTENDS Naturals, Sequences, FiniteSets

CONSTANT Attempts   \* bound of the model: calls of Send

VARIABLES
    cfg,       \* the accepted configuration
    willing,   \* the server is reachable and accepts what it should accept
    try,       \* the number of calls of Send so far
    todo,      \* the commands of the call that are still to come; none: idle
    enc,       \* the connection is encrypted
    rcpts,     \* the recipients the server has accepted, as positions in to
    res,       \* what each call returned
    got,       \* who received the message of each call
    inbox      \* messages the server has in full and is deciding on

hvars == <<res, got, inbox>>
vars == <<cfg, willing, try, todo, enc, rcpts, hvars>>

Init ==
    /\ try = 0
    /\ todo = <<>>
    /\ enc = FALSE
    /\ rcpts = {}
    /\ res = [a \in 1 .. Attempts |-> "none"]
    /\ got = [a \in 1 .. Attempts |-> {}]
    /\ inbox = {}

\* A command, and the recipient it is about (its position in to) or 0.
Cmd(name, i) == [name |-> name, i |-> i]

\* Seeded fault: the sender authenticates before it asks for encryption.
Dialogue_AuthFirst(c) ==
    <<Cmd("DIAL", 0), Cmd("GREETING", 0)>>
    \o (IF c.auth THEN <<Cmd("AUTH", 0)>> ELSE <<>>)
    \o (IF c.tlsMode = "starttls" THEN <<Cmd("STARTTLS", 0)>> ELSE <<>>)
    \o <<Cmd("MAIL", 0)>>
    \o [i \in DOMAIN c.to |-> Cmd("RCPT", i)]
    \o <<Cmd("DATA", 0), Cmd("BODY", 0), Cmd("END", 0)>>

\* What Send does, in order; END is the final dot.
Dialogue(c) ==
    <<Cmd("DIAL", 0), Cmd("GREETING", 0)>>
    \o (IF c.tlsMode = "starttls" THEN <<Cmd("STARTTLS", 0)>> ELSE <<>>)
    \o (IF c.auth THEN <<Cmd("AUTH", 0)>> ELSE <<>>)
    \o <<Cmd("MAIL", 0)>>
    \o [i \in DOMAIN c.to |-> Cmd("RCPT", i)]
    \o <<Cmd("DATA", 0), Cmd("BODY", 0), Cmd("END", 0)>>

Idle == todo = <<>>
At(name) == ~Idle /\ Head(todo).name = name

\* The worker calls Send, for the same or another notification.
Begin ==
    /\ Idle
    /\ try < Attempts
    /\ try' = try + 1
    /\ todo' = Dialogue(cfg)
    /\ UNCHANGED <<cfg, willing, enc, rcpts, hvars>>

\* Send returns; the deferred client.Close ends the dialogue.
Return(r) ==
    /\ todo' = <<>>
    /\ enc' = FALSE
    /\ rcpts' = {}
    /\ res' = [res EXCEPT ![try] = r]
    /\ UNCHANGED <<cfg, willing, try>>

\* smtp.PlainAuth gives the password only to an encrypted connection or to
\* the local host.
MayAuth == enc \/ cfg.local

\* A server that follows RFC 5321 refuses <Ops <ops@example.org>>, which is
\* what MAIL and RCPT make of an address with a display name.
WellFormed ==
    /\ At("MAIL") => cfg.from = "bare"
    /\ At("RCPT") => cfg.to[Head(todo).i] = "bare"

\* A command whose answer decides only whether the dialogue goes on.
AtCommand ==
    \E name \in {"GREETING", "STARTTLS", "AUTH", "MAIL", "RCPT", "DATA"} : At(name)

\* dial: the connection, and with "tls" its encryption, is there.
Dial ==
    /\ At("DIAL")
    /\ todo' = Tail(todo)
    /\ enc' = (cfg.tlsMode = "tls")
    /\ UNCHANGED <<cfg, willing, try, rcpts, hvars>>

\* dial fails, at the latest when the context or the dialer's 10 s expire.
DialFails ==
    /\ At("DIAL")
    /\ ~willing
    /\ Return("err")
    /\ UNCHANGED <<got, inbox>>

\* The server accepts the command at hand.
Accept ==
    /\ AtCommand
    /\ At("AUTH") => MayAuth
    /\ WellFormed
    /\ todo' = Tail(todo)
    /\ enc' = (enc \/ At("STARTTLS"))
    /\ rcpts' = IF At("RCPT") THEN rcpts \cup {Head(todo).i} ELSE rcpts
    /\ UNCHANGED <<cfg, willing, try, hvars>>

\* Seeded fault: a recipient that is refused is left out.
Refuse_NextRcpt ==
    /\ AtCommand
    /\ ~willing \/ ~WellFormed \/ (At("AUTH") /\ ~MayAuth)
    /\ IF At("RCPT")
       THEN todo' = Tail(todo) /\ UNCHANGED <<cfg, willing, try, enc, rcpts, res>>
       ELSE Return("err")
    /\ UNCHANGED <<got, inbox>>

\* Seeded fault: without STARTTLS the dialogue goes on in the clear.
Refuse_Opportunistic ==
    /\ AtCommand
    /\ ~willing \/ ~WellFormed \/ (At("AUTH") /\ ~MayAuth)
    /\ IF At("STARTTLS")
       THEN todo' = Tail(todo) /\ UNCHANGED <<cfg, willing, try, enc, rcpts, res>>
       ELSE Return("err")
    /\ UNCHANGED <<got, inbox>>

\* Seeded fault: Send dials again until the server accepts everything.
Refuse_Redials ==
    /\ AtCommand
    /\ ~willing \/ ~WellFormed \/ (At("AUTH") /\ ~MayAuth)
    /\ todo' = Dialogue(cfg)
    /\ enc' = FALSE
    /\ rcpts' = {}
    /\ UNCHANGED <<cfg, willing, try, hvars>>

\* The server refuses the command at hand or drops the connection, or the
\* client refuses to authenticate.
Refuse ==
    /\ AtCommand
    /\ ~willing \/ ~WellFormed \/ (At("AUTH") /\ ~MayAuth)
    /\ Return("err")
    /\ UNCHANGED <<got, inbox>>

\* io.WriteString and the dot that w.Close sends: the server has it all.
WriteBody ==
    /\ At("BODY")
    /\ todo' = Tail(todo)
    /\ inbox' = inbox \cup {[try |-> try, to |-> rcpts]}
    /\ UNCHANGED <<cfg, willing, try, enc, rcpts, res, got>>

\* The connection breaks while the body is written: the server discards it.
WriteFails ==
    /\ At("BODY")
    /\ ~willing
    /\ Return("err")
    /\ UNCHANGED <<got, inbox>>

\* The server takes responsibility for a message, perhaps long after the
\* client has given up.
Deliver ==
    \E m \in inbox :
        /\ got' = [got EXCEPT ![m.try] = m.to]
        /\ inbox' = inbox \ {m}
        /\ UNCHANGED <<cfg, willing, try, todo, enc, rcpts, res>>

\* w.Close returns nil: the server has answered the dot with 250.
Delivered ==
    /\ At("END")
    /\ got[try] # {}
    /\ Return("nil")
    /\ UNCHANGED <<got, inbox>>

\* Seeded fault: the error of w.Close is dropped.
EndFails_Ignored ==
    /\ At("END")
    /\ ~willing
    /\ Return("nil")
    /\ UNCHANGED <<got, inbox>>

\* w.Close returns an error: the answer was a refusal or did not come.
EndFails ==
    /\ At("END")
    /\ ~willing
    /\ Return("err")
    /\ UNCHANGED got
    /\ inbox' \in {inbox, {m \in inbox : m.try # try}}

-----------------------------------------------------------------------------

\* What waits for the server, without a deadline.
ServerStep ==
    \/ Accept \/ Refuse \/ WriteBody \/ WriteFails
    \/ Deliver \/ Delivered \/ EndFails

Next == Begin \/ Dial \/ DialFails \/ ServerStep

-----------------------------------------------------------------------------
(* Properties                                                              *)

TypeOK ==
    /\ try \in 0 .. Attempts
    /\ todo \in Seq([name : {"DIAL", "GREETING", "STARTTLS", "AUTH", "MAIL",
                        "RCPT", "DATA", "BODY", "END"}, i : Nat])
    /\ enc \in BOOLEAN
    /\ rcpts \subseteq DOMAIN cfg.to
    /\ res \in [1 .. Attempts -> {"none", "nil", "err"}]
    /\ got \in [1 .. Attempts -> SUBSET DOMAIN cfg.to]
    /\ inbox \subseteq [try : 1 .. try, to : SUBSET DOMAIN cfg.to]

Contract ==
    INSTANCE ChannelContract
        WITH sending <- ~Idle,
             rerouted <- {},
             got <- [a \in 1 .. Attempts |->
                        IF got[a] = {} THEN "nobody"
                        ELSE IF got[a] = DOMAIN cfg.to THEN "all" ELSE "some"]

\* Email is a channel as the worker expects it: nil means that the message was
\* given to every configured recipient; a refusal of one recipient means that
\* nobody gets it; no call gives it twice.
EmailIsChannel == Contract!Spec

\* With "tls" or "starttls" configured, no command that carries credentials,
\* addresses or the message goes over an unencrypted connection.
EncryptedAsConfigured ==
    ~Idle /\ cfg.tlsMode # "none" =>
        \/ enc
        \/ At("DIAL") \/ At("GREETING") \/ At("STARTTLS")

\* The configurations with which a message can be sent: credentials only where
\* PlainAuth gives them, and no display name in the addresses of the envelope.
Usable ==
    /\ cfg.auth => cfg.tlsMode # "none" \/ cfg.local
    /\ cfg.from = "bare"
    /\ \A i \in DOMAIN cfg.to : cfg.to[i] = "bare"

\* A server that accepts everything it should gets the message of every call
\* with a usable configuration, whichever TLS mode, credentials and recipients
\* it has.  Of the others, which config.validate accepts too, nothing is said.
WillingServerDelivers ==
    willing /\ Usable =>
        \A a \in 1 .. Attempts : res[a] \in {"none", "nil"}
=============================================================================
