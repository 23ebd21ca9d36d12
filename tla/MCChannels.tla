----------------------------- MODULE MCChannels -----------------------------
(***************************************************************************)
(* Channels for TLC: an environment that enables email, and the values     *)
(* that are tried in its place.                                            *)
(***************************************************************************)
EXTENDS Channels

Padded(t) == [text |-> t, pad |-> TRUE]

Good ==
    [Defaults EXCEPT !.PACHCA_TOKEN = S("plain"), !.PACHCA_CHAT_ID = 1,
                     !.EMAIL_SMTP_HOST = S("plain"), !.EMAIL_FROM = S("bare"),
                     !.EMAIL_TO = <<S("bare"), Padded("bare")>>,
                     !.EMAIL_USERNAME = S("plain"), !.EMAIL_PASSWORD = S("plain")]

\* The other values that are tried.
Tried ==
    [v \in Var |->
      CASE v \in DOMAIN Limits ->
               {Limits[v][1] - 1, Limits[v][1], Limits[v][2], Limits[v][2] + 1}
               \cup (IF v = "NOTIFY_BATCH_SIZE" THEN {99, 100, 101}
                     ELSE IF v = "PRE_STOP_DELAY" THEN {14, 15} ELSE {})
        [] v = "EMAIL_TO" -> {<<Padded("")>>, <<S("bare"), Padded("")>>,
                              <<S("named"), S("bare")>>, <<S("bare"), S("plain")>>}
        [] v = "EMAIL_FROM" -> {Padded(""), S("named"), Padded("bare"), S("plain")}
        [] v = "EMAIL_TLS_MODE" -> {S("tls"), Padded("none"), S("STARTTLS"), S("ssl")}
        [] v = "EMAIL_SMTP_HOST" -> {Padded(""), S("localhost"), S("long")}
        [] v = "PACHCA_BASE_URL" -> {Padded("https/"), S("http"), S("ftp"), S("noHost")}
        [] v = "LOG_LEVEL" -> {Padded("INFO"), S("verbose")}
        [] v = "DATABASE_DRIVER" -> {S("SQLite"), S("postgres")}
        [] v = "TEMPLATE_RELOAD" -> {}
        [] OTHER -> {Padded("plain"), Padded(""), S("long"), S("control"),
                     S("spaced"), S("dangerous")}]

\* Email only.
EmailOnly == [set |-> Var \ {"PACHCA_TOKEN"}, unparsable |-> {}, value |-> Good]
=============================================================================
