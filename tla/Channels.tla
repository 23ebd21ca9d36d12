------------------------------ MODULE Channels ------------------------------
(***************************************************************************)
(* From the environment to the outside world: run() loads the              *)
(* configuration and builds the enabled channels, whose workers then call  *)
(* Send, each in its own goroutine.                                        *)
(***************************************************************************)
EXTENDS Config

CONSTANTS Base,      \* an environment to be started in
          Others,    \* the other values of each variable
          Attempts   \* bound of the model: calls of Send per channel

ASSUME ChannelsAssumption ==
    /\ Attempts \in Nat
    /\ IsEnvironment(Base)
    /\ \A v \in Var : Others[v] \subseteq Values(v)

VARIABLES
    boot,       \* the environment, as long as it has not been loaded
    channels,   \* the channels that run() built
    cfg,        \* the settings of the email channel
    \* EmailSender
    smtpWilling, etry, etodo, enc, rcpts, eres, egot, einbox,
    \* PachcaClient
    ptry, ppc, pexpired, pres, pgot, pinbox, prerouted

evars == <<smtpWilling, etry, etodo, enc, rcpts, eres, egot, einbox>>
pvars == <<ptry, ppc, pexpired, pres, pgot, pinbox, prerouted>>
vars == <<boot, channels, cfg, evars, pvars>>

Email ==
    INSTANCE EmailSender
        WITH willing <- smtpWilling, try <- etry, todo <- etodo, res <- eres,
             got <- egot, inbox <- einbox

Pachca ==
    INSTANCE PachcaClient
        WITH try <- ptry, pc <- ppc, expired <- pexpired,
             res <- pres, got <- pgot, inbox <- pinbox, rerouted <- prerouted

NoSettings ==
    [tlsMode |-> "none", auth |-> FALSE, local |-> FALSE, from |-> "bare",
     to |-> <<>>]

\* What NewSender and NewChannel get.
EmailSettings(c) ==
    [tlsMode |-> c.EMAIL_TLS_MODE.text,
     auth |-> c.EMAIL_USERNAME.text # "" /\ c.EMAIL_PASSWORD.text # "",
     local |-> c.EMAIL_SMTP_HOST.text = "localhost",
     from |-> c.EMAIL_FROM.text,
     to |-> [i \in DOMAIN c.EMAIL_TO |-> c.EMAIL_TO[i].text]]

\* env with one variable left unset, not parsing, or given another value.
Changed(env) ==
    {[env EXCEPT !.set = @ \ {v}, !.unparsable = @ \ {v}] : v \in Var}
    \cup {[env EXCEPT !.set = @ \cup {Parsed[i]},
                      !.unparsable = @ \cup {Parsed[i]}] : i \in DOMAIN Parsed}
    \cup UNION {{[env EXCEPT !.set = @ \cup {v}, !.unparsable = @ \ {v},
                             !.value[v] = x] : x \in Others[v]} : v \in Var}

\* The process is started in an environment that differs from Base in at most
\* two variables.
Init ==
    /\ \E e1 \in {Base} \cup Changed(Base) :
          \E e2 \in {e1} \cup Changed(e1) : boot = <<e2>>
    /\ channels = {}
    /\ cfg = NoSettings
    /\ smtpWilling = FALSE
    /\ Email!Init
    /\ Pachca!Init

\* run() builds the channels, unless config.Load, the store or the template
\* engine returns an error.
Boot ==
    /\ boot # <<>>
    /\ boot' = <<>>
    /\ LET env == boot[1]
       IN  /\ channels' \in
                 {{}, {ch \in {"pachca", "email"} :
                         /\ Load(env) = "nil"
                         /\ ch = "pachca" => PachcaEnabled(env)
                         /\ ch = "email" => EmailEnabled(env)}}
           /\ cfg' = IF "email" \in channels' THEN EmailSettings(Configured(env))
                     ELSE NoSettings
    /\ smtpWilling' \in BOOLEAN
    /\ UNCHANGED <<etry, etodo, enc, rcpts, eres, egot, einbox, pvars>>

\* A step of the email worker's Send or of its server.
EmailStep ==
    /\ "email" \in channels
    /\ Email!Next
    /\ UNCHANGED <<boot, channels, pvars>>

\* A step of the Pachca worker's Send or of the API.
PachcaStep ==
    /\ "pachca" \in channels
    /\ Pachca!Next
    /\ UNCHANGED <<boot, channels, cfg, evars>>

Next == Boot \/ EmailStep \/ PachcaStep

Spec == Init /\ [][Next]_vars

\* The clients' own timers run; the servers need not answer.
FairSpec ==
    /\ Spec
    /\ WF_vars(EmailStep /\ (Email!Dial \/ Email!DialFails))
    /\ WF_vars(PachcaStep /\ Pachca!Expire)
    /\ WF_vars(PachcaStep /\ Pachca!OnTimeout)

-----------------------------------------------------------------------------
(* Properties                                                              *)

\* Every variable of both channels has its type, and the sender is built only
\* with a TLS mode it knows and with addresses.
TypeOK ==
    /\ Len(boot) <= 1
    /\ channels \subseteq {"pachca", "email"}
    /\ cfg \in [tlsMode : TLSModes, auth : BOOLEAN, local : BOOLEAN,
                from : {"bare", "named"}, to : Seq({"bare", "named"})]
    /\ Email!TypeOK
    /\ Pachca!TypeOK

\* What the value of a text variable may be, white space around it aside.
Texts ==
    [LOG_LEVEL |-> LogLevels \cup {"INFO"},
     DATABASE_DRIVER |-> {"sqlite", "SQLite"},
     DATABASE_DSN |-> {"plain", "spaced"},
     PACHCA_TOKEN |-> {"plain"},
     PACHCA_BASE_URL |-> {"http", "https", "https/"},
     EMAIL_SMTP_HOST |-> {"plain", "spaced", "localhost"},
     EMAIL_FROM |-> {"bare", "named"},
     EMAIL_USERNAME |-> {"", "plain", "spaced"},
     EMAIL_PASSWORD |-> {"", "plain"},
     EMAIL_TLS_MODE |-> TLSModes \cup {"STARTTLS"},
     EMAIL_SUBJECT_PREFIX |-> {"", "plain", "spaced"},
     TEMPLATE_DIR |-> {"", "plain", "spaced"}]

\* The variables of a channel, which matter only if it is enabled.
ChannelVars ==
    [pachca |-> {"PACHCA_TOKEN", "PACHCA_BASE_URL", "PACHCA_CHAT_ID"},
     email |-> {"EMAIL_SMTP_HOST", "EMAIL_SMTP_PORT", "EMAIL_FROM", "EMAIL_TO",
                "EMAIL_USERNAME", "EMAIL_PASSWORD", "EMAIL_TLS_MODE",
                "EMAIL_SUBJECT_PREFIX"}]

\* What is wrong with an environment, by the variables and not by the order in
\* which the code looks at them.
Defects(env) ==
    LET Val(v) == IF v \in env.set THEN env.value[v] ELSE Defaults[v]
        matters == Var \ UNION {ChannelVars[ch] : ch \in
                       {x \in {"pachca", "email"} :
                           IF x = "pachca" THEN ~PachcaEnabled(env)
                           ELSE ~EmailEnabled(env)}}
        given == {i \in DOMAIN Val("EMAIL_TO") : Val("EMAIL_TO")[i].text # ""}
        wrong ==
            {v \in DOMAIN Limits : Val(v) \notin Limits[v][1] .. Limits[v][2]}
            \cup {v \in DOMAIN Texts : Val(v).text \notin Texts[v]}
            \cup {v \in {"EMAIL_TO"} :
                     given = {} \/ \E i \in given : ~IsAddress(Val(v)[i])}
            \cup {v \in {"NOTIFY_QUEUE_SIZE"} : Val(v) < Val("NOTIFY_BATCH_SIZE")}
            \cup {v \in {"PRE_STOP_DELAY"} :
                     Val(v) > 0 /\ Val("SHUTDOWN_TIMEOUT") <= Val(v)}
            \cup {v \in {"EMAIL_USERNAME"} :
                     (Val(v).text = "") # (Val("EMAIL_PASSWORD").text = "")}
    IN  env.unparsable \cup (wrong \cap matters)

\* Load accepts exactly the environments without a defect, and its error names
\* a variable that has one, whatever else is wrong: white space around values
\* never matters, a disabled channel's values only have to parse, and both ends
\* of every range, the two cross-field limits and the credentials are exact.
LoadIsExact ==
    boot # <<>> =>
        LET err == Load(boot[1])
        IN  IF Defects(boot[1]) = {} THEN err = "nil"
            ELSE err \in Defects(boot[1])

\* The properties of the two channels, in this composition.
EmailIsChannel == Email!EmailIsChannel
PachcaIsChannel == Pachca!PachcaIsChannel
EncryptedAsConfigured == Email!EncryptedAsConfigured
WillingServerDelivers == Email!WillingServerDelivers

\* Whatever the API, a proxy or the SMTP server do, SendMessage returns: the
\* Pachca worker never hangs.  An email Send returns if the server, once
\* connected, goes on answering or breaks the connection; nothing else bounds
\* it.
SendsReturn ==
    /\ ppc # "idle" ~> ppc = "idle"
    /\ WF_vars(EmailStep /\ Email!ServerStep) => (~Email!Idle ~> Email!Idle)
=============================================================================
