------------------------------- MODULE Config -------------------------------
(***************************************************************************)
(* internal/config: Load, normalize and validate, as functions of the      *)
(* process's environment.                                                  *)
(*                                                                         *)
(* An environment says which variables are set (to something other than    *)
(* the empty string), which of these do not parse, and their values.       *)
(* Numbers are themselves, durations are in seconds; of a text only its    *)
(* kind is kept, and whether there is white space around it.  An address   *)
(* is "bare" (ops@example.org) or "named" (Ops <ops@example.org>).         *)
(***************************************************************************)
EXTENDS Integers, Sequences

S(t) == [text |-> t, pad |-> FALSE]

\* The ranges of the numbers, both ends included.
Limits ==
    [PORT |-> <<1, 65535>>,
     MAX_PAYLOAD_SIZE |-> <<1024, 10485760>>,
     MAX_ALERTS_PER_PAYLOAD |-> <<1, 1000>>,
     SHUTDOWN_TIMEOUT |-> <<1, 300>>,
     PRE_STOP_DELAY |-> <<0, 30>>,
     NOTIFY_POLL_INTERVAL |-> <<1, 60>>,
     NOTIFY_BATCH_SIZE |-> <<1, 500>>,
     NOTIFY_QUEUE_SIZE |-> <<10, 10000>>,
     NOTIFY_SEND_TIMEOUT |-> <<5, 120>>,
     PACHCA_CHAT_ID |-> <<1, 999999999>>,
     EMAIL_SMTP_PORT |-> <<1, 65535>>]

TLSModes == {"starttls", "tls", "none"}
LogLevels == {"debug", "info", "warn", "error"}
DatabaseDrivers == {"sqlite"}

Defaults ==
    [PORT |-> 8080, LOG_LEVEL |-> S("info"), SHUTDOWN_TIMEOUT |-> 15,
     PRE_STOP_DELAY |-> 0, DATABASE_DRIVER |-> S("sqlite"),
     DATABASE_DSN |-> S("plain"), MAX_PAYLOAD_SIZE |-> 1048576,
     MAX_ALERTS_PER_PAYLOAD |-> 100, NOTIFY_POLL_INTERVAL |-> 5,
     NOTIFY_BATCH_SIZE |-> 50, NOTIFY_QUEUE_SIZE |-> 100,
     NOTIFY_SEND_TIMEOUT |-> 30, PACHCA_TOKEN |-> S(""),
     PACHCA_BASE_URL |-> S("https"), PACHCA_CHAT_ID |-> 0,
     EMAIL_SMTP_HOST |-> S(""), EMAIL_SMTP_PORT |-> 587, EMAIL_FROM |-> S(""),
     EMAIL_TO |-> <<>>, EMAIL_USERNAME |-> S(""), EMAIL_PASSWORD |-> S(""),
     EMAIL_TLS_MODE |-> S("starttls"), EMAIL_SUBJECT_PREFIX |-> S("plain"),
     TEMPLATE_DIR |-> S(""), TEMPLATE_RELOAD |-> S("false")]

Var == DOMAIN Defaults

\* The variables that are parsed, in the order in which Load reads them.
Parsed ==
    <<"PORT", "SHUTDOWN_TIMEOUT", "PRE_STOP_DELAY", "MAX_PAYLOAD_SIZE",
      "MAX_ALERTS_PER_PAYLOAD", "NOTIFY_POLL_INTERVAL", "NOTIFY_BATCH_SIZE",
      "NOTIFY_QUEUE_SIZE", "NOTIFY_SEND_TIMEOUT", "PACHCA_CHAT_ID",
      "EMAIL_SMTP_PORT", "TEMPLATE_RELOAD">>

\* The kinds of text that validation tells apart, variable by variable.
PlainKinds == {"", "plain", "spaced", "long", "control", "dangerous"}
AddressKinds == {"", "plain", "bare", "named"}
Kinds ==
    [LOG_LEVEL |-> LogLevels \cup {"", "INFO", "verbose"},
     DATABASE_DRIVER |-> {"", "sqlite", "SQLite", "postgres"},
     DATABASE_DSN |-> PlainKinds, PACHCA_TOKEN |-> PlainKinds,
     PACHCA_BASE_URL |-> {"", "http", "https", "https/", "ftp", "noHost", "long",
                          "control", "dangerous"},
     EMAIL_SMTP_HOST |-> PlainKinds \cup {"localhost"},
     EMAIL_FROM |-> AddressKinds, EMAIL_USERNAME |-> PlainKinds,
     EMAIL_PASSWORD |-> PlainKinds,
     EMAIL_TLS_MODE |-> TLSModes \cup {"", "STARTTLS", "ssl"},
     EMAIL_SUBJECT_PREFIX |-> PlainKinds, TEMPLATE_DIR |-> PlainKinds,
     TEMPLATE_RELOAD |-> {"true", "false"}]

Text(kinds) == [text : kinds, pad : BOOLEAN]

\* The values a variable can have, once parsed.
Values(v) ==
    IF v \in DOMAIN Limits THEN Int
    ELSE IF v = "EMAIL_TO" THEN Seq(Text(AddressKinds)) ELSE Text(Kinds[v])

\* An environment: any values, set or not, parsed or not.
IsEnvironment(env) ==
    /\ env \in [set : SUBSET Var, value : {env.value},
                unparsable : SUBSET {Parsed[i] : i \in DOMAIN Parsed}]
    /\ env.value = [v \in Var |-> env.value[v]]
    /\ \A v \in Var : env.value[v] \in Values(v)

-----------------------------------------------------------------------------
(* normalize                                                               *)

Trim(s) == S(s.text)

ToLower(s) ==
    [text |-> CASE s.text = "STARTTLS" -> "starttls"
                [] s.text = "INFO" -> "info"
                [] s.text = "SQLite" -> "sqlite"
                [] OTHER -> s.text,
     pad |-> s.pad]

\* strings.TrimRight(c.Pachca.BaseURL, "/")
TrimSlash(s) ==
    [text |-> IF s.text = "https/" THEN "https" ELSE s.text, pad |-> s.pad]

\* Load's treatment of EMAIL_TO: split, trim, drop what is empty.
Recipients(list) ==
    LET kept[i \in 0 .. Len(list)] ==
            IF i = 0 THEN <<>>
            ELSE IF Trim(list[i]).text = "" THEN kept[i - 1]
            ELSE Append(kept[i - 1], Trim(list[i]))
    IN  kept[Len(list)]

Normalized(v, x) ==
    CASE v \in {"LOG_LEVEL", "DATABASE_DRIVER", "EMAIL_TLS_MODE"} ->
             ToLower(Trim(x))
      [] v = "PACHCA_BASE_URL" -> TrimSlash(Trim(x))
      [] v = "EMAIL_TO" -> Recipients(x)
      [] v \in {"DATABASE_DSN", "PACHCA_TOKEN", "EMAIL_SMTP_HOST", "EMAIL_FROM",
                "EMAIL_USERNAME", "EMAIL_PASSWORD", "EMAIL_SUBJECT_PREFIX",
                "TEMPLATE_DIR"} -> Trim(x)
      [] OTHER -> x

\* Seeded fault: values are validated and used as they are set.
Configured_Raw(env) ==
    [v \in Var |-> IF v \in env.set THEN env.value[v] ELSE Defaults[v]]

\* The configuration before validation.
Configured(env) ==
    [v \in Var |-> Normalized(v, IF v \in env.set THEN env.value[v]
                                 ELSE Defaults[v])]

-----------------------------------------------------------------------------
(* validate: checks in order, the first that fails names its variable      *)

\* A check names its variable, or is "nil".
Check(v, ok) == IF ok THEN "nil" ELSE v

FirstError(checks) ==
    LET failed == {i \in DOMAIN checks : checks[i] # "nil"}
    IN  IF failed = {} THEN "nil"
        ELSE checks[CHOOSE i \in failed : \A j \in failed : i <= j]

InRange(c, v) == Check(v, Limits[v][1] <= c[v] /\ c[v] <= Limits[v][2])

\* length, containsControlChars, containsDangerousSequence
CleanText(c, v) ==
    Check(v, c[v].text \notin {"long", "control", "dangerous"})

\* length, isPrintableASCII, containsDangerousSequence
CleanSecret(c, v) ==
    Check(v, c[v].text \notin {"long", "control", "spaced", "dangerous"}
                 /\ ~c[v].pad)

NotEmpty(c, v) == Check(v, c[v] # S(""))
OneOf(c, v, values) == Check(v, c[v].text \in values /\ ~c[v].pad)

\* mail.ParseAddress accepts it.
IsAddress(a) == a.text \in {"bare", "named"}

validatePachca(c) ==
    <<NotEmpty(c, "PACHCA_TOKEN"), CleanSecret(c, "PACHCA_TOKEN"),
      InRange(c, "PACHCA_CHAT_ID"), CleanText(c, "PACHCA_BASE_URL"),
      OneOf(c, "PACHCA_BASE_URL", {"http", "https"})>>

\* Seeded fault: the TLS mode and all recipients but the first are not checked.
validateEmail_Partly(c) ==
    <<NotEmpty(c, "EMAIL_SMTP_HOST"), CleanText(c, "EMAIL_SMTP_HOST"),
      InRange(c, "EMAIL_SMTP_PORT"), NotEmpty(c, "EMAIL_FROM"),
      Check("EMAIL_FROM", IsAddress(c.EMAIL_FROM)),
      Check("EMAIL_TO", c.EMAIL_TO # <<>>),
      Check("EMAIL_TO", c.EMAIL_TO # <<>> /\ IsAddress(c.EMAIL_TO[1]))>>

validateEmail(c) ==
    <<NotEmpty(c, "EMAIL_SMTP_HOST"), CleanText(c, "EMAIL_SMTP_HOST"),
      InRange(c, "EMAIL_SMTP_PORT"), NotEmpty(c, "EMAIL_FROM"),
      Check("EMAIL_FROM", IsAddress(c.EMAIL_FROM)),
      Check("EMAIL_TO", c.EMAIL_TO # <<>>),
      Check("EMAIL_TO", \A i \in DOMAIN c.EMAIL_TO : IsAddress(c.EMAIL_TO[i])),
      OneOf(c, "EMAIL_TLS_MODE", TLSModes), CleanSecret(c, "EMAIL_PASSWORD"),
      CleanText(c, "EMAIL_SUBJECT_PREFIX"), CleanText(c, "EMAIL_USERNAME"),
      Check("EMAIL_USERNAME",
            (c.EMAIL_USERNAME # S("")) = (c.EMAIL_PASSWORD # S("")))>>

PachcaEnabled(env) == "PACHCA_TOKEN" \in env.set
EmailEnabled(env) == "EMAIL_SMTP_HOST" \in env.set

validate(env, c) ==
    FirstError(
        <<InRange(c, "PORT"), OneOf(c, "LOG_LEVEL", LogLevels),
          OneOf(c, "DATABASE_DRIVER", DatabaseDrivers),
          NotEmpty(c, "DATABASE_DSN"), CleanText(c, "DATABASE_DSN"),
          InRange(c, "MAX_PAYLOAD_SIZE"), InRange(c, "MAX_ALERTS_PER_PAYLOAD"),
          InRange(c, "SHUTDOWN_TIMEOUT"), InRange(c, "PRE_STOP_DELAY"),
          InRange(c, "NOTIFY_POLL_INTERVAL"), InRange(c, "NOTIFY_BATCH_SIZE"),
          InRange(c, "NOTIFY_QUEUE_SIZE"), InRange(c, "NOTIFY_SEND_TIMEOUT"),
          Check("NOTIFY_QUEUE_SIZE", c.NOTIFY_QUEUE_SIZE >= c.NOTIFY_BATCH_SIZE),
          Check("PRE_STOP_DELAY", c.PRE_STOP_DELAY = 0
                                      \/ c.PRE_STOP_DELAY < c.SHUTDOWN_TIMEOUT)>>
        \o (IF PachcaEnabled(env) THEN validatePachca(c) ELSE <<>>)
        \o (IF EmailEnabled(env) THEN validateEmail(c) ELSE <<>>)
        \o <<CleanText(c, "TEMPLATE_DIR")>>)

\* Load: "nil", or the variable its error is about.
Load(env) ==
    LET parse == FirstError([i \in DOMAIN Parsed |->
                     Check(Parsed[i], Parsed[i] \notin env.unparsable)])
    IN  IF parse # "nil" THEN parse ELSE validate(env, Configured(env))
=============================================================================
