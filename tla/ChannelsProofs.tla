--------------------------- MODULE ChannelsProofs ---------------------------
(***************************************************************************)
(* Channels for every environment, any number of recipients and any number *)
(* of calls of Send.                                                       *)
(***************************************************************************)
EXTENDS Channels, WellFoundedInduction, TLAPS

-----------------------------------------------------------------------------
(* The Pachca channel                                                      *)

\* Where the message of a call is: with the API, in the chat or sent elsewhere,
\* and in only one of these places; nil is returned only for the last two.
PachcaInv ==
    /\ Pachca!TypeOK
    /\ ppc # "idle" => ptry > 0
    /\ ppc = "post" => ptry \notin pgot \cup pinbox \cup prerouted
    /\ ppc = "get" => ptry \in prerouted
    /\ ppc = "drain" => ptry \in pgot \cup prerouted
    /\ pinbox \cap (pgot \cup prerouted) = {}
    /\ \A a \in 1 .. Attempts : pres[a] = "nil" => a \in pgot \cup prerouted

LEMMA PachcaInit == Pachca!Init => PachcaInv
  <1> SUFFICES ASSUME Pachca!Init PROVE PachcaInv
    OBVIOUS
  <1>1. pexpired \in BOOLEAN
    BY DEF Pachca!Init
  <1> QED BY <1>1, ChannelsAssumption DEF Pachca!Init, PachcaInv, Pachca!TypeOK

\* The steps that end a call.
PachcaReturns ==
    Pachca!DoFails \/ Pachca!DoTimeout \/ Pachca!ReadErrorBody \/ Pachca!DrainBody

LEMMA PachcaNext == PachcaInv /\ Pachca!Next => PachcaInv'
  <1> SUFFICES ASSUME PachcaInv, Pachca!Next PROVE PachcaInv'
    OBVIOUS
  <1> USE ChannelsAssumption DEF PachcaInv, Pachca!TypeOK
  <1>1. CASE Pachca!Begin
    <2>1. pexpired' \in BOOLEAN
      BY <1>1 DEF Pachca!Begin
    <2> QED BY <1>1, <2>1 DEF Pachca!Begin
  <1>2. CASE Pachca!Expire
    <2>1. pexpired' \in BOOLEAN
      BY <1>2 DEF Pachca!Expire
    <2> QED BY <1>2, <2>1 DEF Pachca!Expire
  <1>3. CASE Pachca!Post
    BY <1>3 DEF Pachca!Post
  <1>4. CASE Pachca!Execute
    <2>1. PICK a \in pinbox : /\ pgot' = pgot \cup {a} /\ pinbox' = pinbox \ {a}
                              /\ UNCHANGED <<ptry, ppc, pexpired, pres, prerouted>>
      BY <1>4 DEF Pachca!Execute
    <2>2. ppc = "post" => ptry # a
      BY DEF PachcaInv
    <2> QED BY <2>1, <2>2
  <1>5. CASE Pachca!AnswerOK \/ Pachca!AnswerError \/ Pachca!GetAnswer
    BY <1>5 DEF Pachca!AnswerOK, Pachca!AnswerError, Pachca!GetAnswer, Pachca!Moves
  <1>6. CASE Pachca!Redirect
    <2>1. /\ prerouted' = prerouted \cup {ptry} /\ pinbox' = pinbox \ {ptry}
          /\ ppc' = "get" /\ UNCHANGED <<ptry, pexpired, pres, pgot>>
          /\ ptry \in 1 .. ptry
      BY <1>6 DEF Pachca!Redirect
    <2> QED BY <2>1
  <1>7. CASE PachcaReturns
    BY <1>7 DEF PachcaReturns, Pachca!DoFails, Pachca!DoTimeout,
       Pachca!ReadErrorBody, Pachca!DrainBody, Pachca!Return
  <1> QED
    BY <1>1, <1>2, <1>3, <1>4, <1>5, <1>6, <1>7
       DEF Pachca!Next, Pachca!ServerStep, PachcaReturns

\* Every step of the client and of the API is one that the worker expects of a
\* channel, or none that it sees.
LEMMA PachcaRefines ==
    PachcaInv /\ Pachca!Next => [Pachca!Contract!Next]_(Pachca!Contract!cvars)
  <1> SUFFICES ASSUME PachcaInv, Pachca!Next
               PROVE  [Pachca!Contract!Next]_(Pachca!Contract!cvars)
    OBVIOUS
  <1> USE ChannelsAssumption DEF PachcaInv, Pachca!TypeOK
  <1>1. CASE Pachca!Begin
    <2>1. Pachca!Contract!Begin
      BY <1>1 DEF Pachca!Begin, Pachca!Contract!Begin
    <2> QED BY <2>1 DEF Pachca!Contract!Next
  <1>2. CASE Pachca!Execute
    <2>1. PICK a \in pinbox : /\ pgot' = pgot \cup {a}
                              /\ UNCHANGED <<ptry, ppc, pexpired, pres, prerouted>>
      BY <1>2 DEF Pachca!Execute
    <2>2. a \in 1 .. Attempts /\ a <= ptry /\ a \notin pgot /\ pres[a] # "nil"
      OBVIOUS
    <2>3. Pachca!Contract!Deliver(a)
      BY <2>1, <2>2 DEF Pachca!Contract!Deliver
    <2> QED BY <2>2, <2>3 DEF Pachca!Contract!Next
  <1>3. CASE Pachca!Redirect
    <2>1. Pachca!Contract!Reroute
      BY <1>3 DEF Pachca!Redirect, Pachca!Contract!Reroute
    <2> QED BY <2>1 DEF Pachca!Contract!Next
  <1>4. CASE Pachca!DoFails \/ Pachca!DoTimeout \/ Pachca!ReadErrorBody
    <2>1. Pachca!Contract!Return("err")
      BY <1>4 DEF Pachca!DoFails, Pachca!DoTimeout, Pachca!ReadErrorBody,
         Pachca!Return, Pachca!Contract!Return
    <2> QED BY <2>1 DEF Pachca!Contract!Next
  <1>5. CASE Pachca!DrainBody
    <2>1. Pachca!Contract!Return("nil")
      BY <1>5 DEF Pachca!DrainBody, Pachca!Return, Pachca!Contract!Return
    <2> QED BY <2>1 DEF Pachca!Contract!Next
  <1>6. CASE \/ Pachca!Expire \/ Pachca!Post \/ Pachca!AnswerOK
             \/ Pachca!AnswerError \/ Pachca!GetAnswer
    <2>1. UNCHANGED Pachca!Contract!cvars
      BY <1>6 DEF Pachca!Expire, Pachca!Post, Pachca!AnswerOK,
         Pachca!AnswerError, Pachca!GetAnswer, Pachca!Moves, Pachca!Contract!cvars
    <2> QED BY <2>1
  <1> QED
    BY <1>1, <1>2, <1>3, <1>4, <1>5, <1>6 DEF Pachca!Next, Pachca!ServerStep

-----------------------------------------------------------------------------
(* The configuration                                                       *)

\* A set of numbers that is not empty has a least one.
LEMMA LeastExists ==
    ASSUME NEW T \in SUBSET Nat, T # {}
    PROVE  \E x \in T : \A y \in T : x <= y
  <1> DEFINE R == {ss \in Nat \X Nat : ss[1] < ss[2]}
  <1>1. IsWellFoundedOn(R, Nat)
    <2>1. OpToRel(<, Nat) = R
      BY DEF OpToRel
    <2> QED BY <2>1, NatLessThanWellFounded, Zenon
  <1>2. PICK x \in T : \A y \in T : ~(<<y, x>> \in R)
    <2> HIDE DEF R
    <2> QED BY <1>1, WFMin
  <1>3. ASSUME NEW y \in T PROVE x <= y
    <2>1. <<y, x>> \in Nat \X Nat /\ ~(<<y, x>> \in R)
      BY <1>2
    <2>2. ~(y < x)
      BY <2>1
    <2> QED BY <2>2
  <1> QED BY <1>3

\* A list of checks gives no error if none of them fails, and otherwise the
\* error of one that does.
LEMMA FirstErrorCases ==
    ASSUME NEW checks, DOMAIN checks \subseteq Nat
    PROVE  \/ /\ FirstError(checks) = "nil"
              /\ \A i \in DOMAIN checks : checks[i] = "nil"
           \/ /\ FirstError(checks) # "nil"
              /\ \E i \in DOMAIN checks : FirstError(checks) = checks[i]
  <1> DEFINE failed == {i \in DOMAIN checks : checks[i] # "nil"}
             least == CHOOSE i \in failed : \A j \in failed : i <= j
  <1>1. CASE failed = {}
    BY <1>1 DEF FirstError
  <1>2. CASE failed # {}
    <2>1. failed \in SUBSET Nat
      OBVIOUS
    <2>2. \E i \in failed : \A j \in failed : i <= j
      BY <1>2, <2>1, LeastExists
    <2>3. least \in failed
      BY <2>2
    <2>4. FirstError(checks) = checks[least]
      BY <1>2 DEF FirstError
    <2> QED BY <2>3, <2>4
  <1> QED BY <1>1, <1>2

\* Trimmed texts are told apart by their kind alone.
LEMMA TrimmedFacts ==
    /\ \A t, u : S(t) = S(u) <=> t = u
    /\ \A t : S(t).text = t
    /\ \A t : ~S(t).pad
  <1>1. \A t, u : S(t) = S(u) <=> t = u
    BY DEF S
  <1>2. \A t : S(t).text = t
    BY DEF S
  <1>3. \A t : ~S(t).pad
    BY DEF S
  <1> QED BY <1>1, <1>2, <1>3

LEMMA TextFacts ==
    ASSUME NEW K
    PROVE  /\ \A t \in K : S(t) \in Text(K)
           /\ \A x \in Text(K) : x.text \in K /\ Trim(x) = S(x.text)
  <1>1. \A t \in K : S(t) \in Text(K)
    BY DEF S, Text
  <1>2. \A x \in Text(K) : x.text \in K /\ Trim(x) = S(x.text)
    BY DEF Text, Trim
  <1> QED BY <1>1, <1>2

\* The members of EMAIL_TO.
Address == Text(AddressKinds)

\* The rounds of the loop over the parts of EMAIL_TO up to the n-th.
Rounds(list, n, kept) ==
    kept = [i \in 0 .. n |->
               IF i = 0 THEN <<>>
               ELSE IF Trim(list[i]).text = "" THEN kept[i - 1]
               ELSE Append(kept[i - 1], Trim(list[i]))]

LEMMA RoundsExist ==
    ASSUME NEW list, NEW n \in Nat
    PROVE  \E kept : Rounds(list, n, kept)
  <1> DEFINE T == {m \in Nat : ~ \E kept : Rounds(list, m, kept)}
  <1>1. SUFFICES ASSUME T # {} PROVE FALSE
    OBVIOUS
  <1>2. PICK m \in T : \A y \in T : m <= y
    <2>1. T \in SUBSET Nat
      OBVIOUS
    <2> HIDE DEF T
    <2> QED BY <1>1, <2>1, LeastExists
  <1>3. m \in Nat /\ ~ \E kept : Rounds(list, m, kept)
    BY <1>2
  <1>4. m # 0
    <2> DEFINE z == [i \in 0 .. 0 |-> <<>>]
    <2>1. z = [i \in 0 .. 0 |-> z[i]] /\ \A i \in 0 .. 0 : i = 0 /\ z[i] = <<>>
      OBVIOUS
    <2> HIDE DEF z
    <2>2. Rounds(list, 0, z)
      BY <2>1 DEF Rounds
    <2> QED BY <1>3, <2>2
  <1>5. m - 1 \in Nat /\ m - 1 \notin T
    BY <1>2, <1>3, <1>4
  <1>6. PICK f : Rounds(list, m - 1, f)
    BY <1>5
  <1> DEFINE last == IF Trim(list[m]).text = "" THEN f[m - 1]
                     ELSE Append(f[m - 1], Trim(list[m]))
             g == [i \in 0 .. m |-> IF i = m THEN last ELSE f[i]]
  <1>7. \A i \in 0 .. m - 1 :
            f[i] = IF i = 0 THEN <<>>
                   ELSE IF Trim(list[i]).text = "" THEN f[i - 1]
                   ELSE Append(f[i - 1], Trim(list[i]))
    BY <1>5, <1>6 DEF Rounds
  <1>8. \A i \in 0 .. m : i # 0 => g[i - 1] = f[i - 1]
    <2> HIDE DEF last
    <2> SUFFICES ASSUME NEW i \in 0 .. m, i # 0 PROVE g[i - 1] = f[i - 1]
      OBVIOUS
    <2>1. i - 1 \in 0 .. m /\ i - 1 # m
      BY <1>3
    <2> QED BY <2>1
  <1>9. \A i \in 0 .. m :
            g[i] = IF i = 0 THEN <<>>
                   ELSE IF Trim(list[i]).text = "" THEN g[i - 1]
                   ELSE Append(g[i - 1], Trim(list[i]))
    <2> SUFFICES ASSUME NEW i \in 0 .. m
                 PROVE  g[i] = IF i = 0 THEN <<>>
                               ELSE IF Trim(list[i]).text = "" THEN g[i - 1]
                               ELSE Append(g[i - 1], Trim(list[i]))
      OBVIOUS
    <2>1. CASE i = m
      BY <1>3, <1>4, <1>8, <2>1
    <2>2. CASE i # m
      <3>1. i \in 0 .. m - 1 /\ g[i] = f[i]
        BY <1>3, <2>2
      <3> HIDE DEF g
      <3> QED BY <1>7, <1>8, <3>1
    <2> QED BY <2>1, <2>2
  <1>10. Rounds(list, m, g)
    <2>1. g = [i \in 0 .. m |-> g[i]]
      OBVIOUS
    <2> HIDE DEF g
    <2> QED BY <1>9, <2>1 DEF Rounds
  <1> QED BY <1>3, <1>10

\* What Load makes of EMAIL_TO is the result of that loop.
LEMMA RecipientsAreRounds ==
    ASSUME NEW list, Len(list) \in Nat
    PROVE  \E kept : Rounds(list, Len(list), kept) /\ Recipients(list) = kept[Len(list)]
  <1> DEFINE k == CHOOSE kept : Rounds(list, Len(list), kept)
  <1>1. Rounds(list, Len(list), k)
    BY RoundsExist
  <1>2. Recipients(list) = k[Len(list)]
    BY DEF Recipients, Rounds
  <1> QED BY <1>1, <1>2

\* The list that has been kept after the first i parts: those that are not
\* empty, without the white space around them, and nothing else.
Keeps(list, i, s) ==
    /\ s \in Seq(Address)
    /\ \A k \in DOMAIN s :
           \E j \in 1 .. i : list[j].text # "" /\ s[k] = Trim(list[j])
    /\ \A j \in 1 .. i :
           list[j].text # "" => \E k \in DOMAIN s : s[k] = Trim(list[j])

\* One round of the loop.
LEMMA KeepsOne ==
    ASSUME NEW list, NEW i \in Nat, NEW s, Keeps(list, i, s), list[i + 1] \in Address
    PROVE  Keeps(list, i + 1, IF Trim(list[i + 1]).text = "" THEN s
                              ELSE Append(s, Trim(list[i + 1])))
  <1> DEFINE x == Trim(list[i + 1])
  <1>1. x \in Address /\ x.text = list[i + 1].text
    BY TextFacts, TrimmedFacts DEF Address
  <1>2. \A j \in 1 .. i + 1 : j \in 1 .. i \/ j = i + 1
    OBVIOUS
  <1>3. \A j \in 1 .. i : j \in 1 .. i + 1
    OBVIOUS
  <1>4. CASE x.text = ""
    BY <1>1, <1>2, <1>3, <1>4 DEF Keeps
  <1>5. CASE x.text # ""
    <2> HIDE DEF x
    <2> DEFINE t == Append(s, x)
    <2>1. s \in Seq(Address)
      BY DEF Keeps
    <2>2. /\ t \in Seq(Address)
          /\ Len(s) \in Nat /\ DOMAIN s = 1 .. Len(s)
          /\ DOMAIN t = 1 .. Len(s) + 1
          /\ \A k \in DOMAIN s : t[k] = s[k]
          /\ t[Len(s) + 1] = x
      BY <1>1, <2>1
    <2>3. /\ \A k \in DOMAIN t : k \in DOMAIN s \/ k = Len(s) + 1
          /\ \A k \in DOMAIN s : k \in DOMAIN t
          /\ Len(s) + 1 \in DOMAIN t
      BY <2>2
    <2>4. i + 1 \in 1 .. i + 1
      OBVIOUS
    <2>9. list[i + 1].text # ""
      BY <1>1, <1>5, Zenon
    <2> HIDE DEF t
    <2>5. ASSUME NEW k \in DOMAIN t
          PROVE  \E j \in 1 .. i + 1 : list[j].text # "" /\ t[k] = Trim(list[j])
      <3>1. CASE k \in DOMAIN s
        <4>1. PICK j \in 1 .. i : list[j].text # "" /\ s[k] = Trim(list[j])
          BY <3>1 DEF Keeps
        <4> QED BY <1>3, <2>2, <3>1, <4>1, Zenon
      <3>2. CASE k = Len(s) + 1
        BY <2>2, <2>4, <2>9, <3>2 DEF x
      <3> QED BY <2>3, <3>1, <3>2
    <2>6. ASSUME NEW j \in 1 .. i + 1, list[j].text # ""
          PROVE  \E k \in DOMAIN t : t[k] = Trim(list[j])
      <3>1. CASE j \in 1 .. i
        BY <2>2, <2>3, <2>6, <3>1 DEF Keeps
      <3>2. CASE j = i + 1
        BY <2>2, <2>3, <3>2 DEF x
      <3> QED BY <1>2, <3>1, <3>2
    <2>7. Keeps(list, i + 1, t)
      BY <2>2, <2>5, <2>6 DEF Keeps
    <2> QED BY <1>5, <2>7 DEF t, x
  <1> QED BY <1>4, <1>5

\* What Load makes of EMAIL_TO: a list of the addresses that are not empty.
LEMMA RecipientsFacts ==
    ASSUME NEW list \in Seq(Address)
    PROVE  Keeps(list, Len(list), Recipients(list))
  <1>1. Len(list) \in Nat /\ \A i \in 1 .. Len(list) : list[i] \in Address
    OBVIOUS
  <1>2. PICK kept : Rounds(list, Len(list), kept)
                    /\ Recipients(list) = kept[Len(list)]
    BY <1>1, RecipientsAreRounds
  <1>3. \A i \in 0 .. Len(list) :
            kept[i] = IF i = 0 THEN <<>>
                      ELSE IF Trim(list[i]).text = "" THEN kept[i - 1]
                      ELSE Append(kept[i - 1], Trim(list[i]))
    BY <1>2 DEF Rounds
  <1> DEFINE T == {i \in 0 .. Len(list) : ~Keeps(list, i, kept[i])}
  <1>4. ASSUME T # {} PROVE FALSE
    <2>1. T \in SUBSET Nat
      BY <1>1
    <2>2. PICK m \in T : \A y \in T : m <= y
      <3> HIDE DEF T
      <3> QED BY <1>4, <2>1, LeastExists
    <2>3. m \in 0 .. Len(list) /\ ~Keeps(list, m, kept[m])
      OBVIOUS
    <2>4. m # 0
      <3>1. <<>> \in Seq(Address) /\ DOMAIN <<>> = {} /\ 1 .. 0 = {}
        OBVIOUS
      <3>2. Keeps(list, 0, <<>>)
        BY <3>1, Zenon DEF Keeps
      <3> QED BY <1>1, <1>3, <2>3, <3>2
    <2> DEFINE i == m - 1
    <2>5. i \in Nat /\ i \in 0 .. Len(list) /\ i \notin T /\ m = i + 1
          /\ i + 1 \in 1 .. Len(list)
      BY <1>1, <2>2, <2>3, <2>4
    <2>6. Keeps(list, i, kept[i])
      BY <2>5
    <2> HIDE DEF i
    <2>7. Keeps(list, i + 1, IF Trim(list[i + 1]).text = "" THEN kept[i]
                             ELSE Append(kept[i], Trim(list[i + 1])))
      BY <1>1, <2>5, <2>6, KeepsOne
    <2>8. kept[i + 1] = IF Trim(list[i + 1]).text = "" THEN kept[i]
                        ELSE Append(kept[i], Trim(list[i + 1]))
      BY <1>3, <2>3, <2>4, <2>5 DEF i
    <2> QED BY <2>3, <2>5, <2>7, <2>8
  <1> QED BY <1>1, <1>2, <1>4

LimitVars ==
    {"PORT", "MAX_PAYLOAD_SIZE", "MAX_ALERTS_PER_PAYLOAD", "SHUTDOWN_TIMEOUT",
     "PRE_STOP_DELAY", "NOTIFY_POLL_INTERVAL", "NOTIFY_BATCH_SIZE",
     "NOTIFY_QUEUE_SIZE", "NOTIFY_SEND_TIMEOUT", "PACHCA_CHAT_ID",
     "EMAIL_SMTP_PORT"}

TextVars ==
    {"LOG_LEVEL", "DATABASE_DRIVER", "DATABASE_DSN", "PACHCA_TOKEN",
     "PACHCA_BASE_URL", "EMAIL_SMTP_HOST", "EMAIL_FROM", "EMAIL_USERNAME",
     "EMAIL_PASSWORD", "EMAIL_TLS_MODE", "EMAIL_SUBJECT_PREFIX", "TEMPLATE_DIR"}

LEMMA VarFacts ==
    /\ DOMAIN Limits = LimitVars
    /\ DOMAIN Texts = TextVars
    /\ Var = LimitVars \cup TextVars \cup {"EMAIL_TO", "TEMPLATE_RELOAD"}
  <1>1. DOMAIN Limits = LimitVars
    BY SMT DEF Limits, LimitVars
  <1>2. DOMAIN Texts = TextVars
    BY SMT DEF Texts, TextVars
  <1>3. Var = LimitVars \cup TextVars \cup {"EMAIL_TO", "TEMPLATE_RELOAD"}
    BY SMT DEF Var, Defaults, LimitVars, TextVars
  <1> QED BY <1>1, <1>2, <1>3

\* The value of a variable before it is normalized.
Given(env, v) == IF v \in env.set THEN env.value[v] ELSE Defaults[v]

LEMMA GivenFacts ==
    ASSUME NEW env, IsEnvironment(env)
    PROVE  /\ \A v \in LimitVars : Given(env, v) \in Int
           /\ \A v \in TextVars : Given(env, v) \in Text(Kinds[v])
           /\ Given(env, "EMAIL_TO") \in Seq(Address)
  <1>1. \A v \in LimitVars : Defaults[v] \in Int
    <2>1. /\ Defaults.PORT \in Int
          /\ Defaults.MAX_PAYLOAD_SIZE \in Int
          /\ Defaults.MAX_ALERTS_PER_PAYLOAD \in Int
          /\ Defaults.SHUTDOWN_TIMEOUT \in Int
          /\ Defaults.PRE_STOP_DELAY \in Int
          /\ Defaults.NOTIFY_POLL_INTERVAL \in Int
          /\ Defaults.NOTIFY_BATCH_SIZE \in Int
          /\ Defaults.NOTIFY_QUEUE_SIZE \in Int
          /\ Defaults.NOTIFY_SEND_TIMEOUT \in Int
          /\ Defaults.PACHCA_CHAT_ID \in Int
          /\ Defaults.EMAIL_SMTP_PORT \in Int
      BY SMT DEF Defaults
    <2> QED BY <2>1, SMT DEF LimitVars
  <1>2. \A v \in TextVars : Defaults[v] \in Text(Kinds[v])
    <2>1. /\ Defaults.LOG_LEVEL = S("info")
          /\ Defaults.DATABASE_DRIVER = S("sqlite")
          /\ Defaults.DATABASE_DSN = S("plain")
          /\ Defaults.PACHCA_TOKEN = S("")
          /\ Defaults.PACHCA_BASE_URL = S("https")
          /\ Defaults.EMAIL_SMTP_HOST = S("")
          /\ Defaults.EMAIL_FROM = S("")
          /\ Defaults.EMAIL_USERNAME = S("")
          /\ Defaults.EMAIL_PASSWORD = S("")
          /\ Defaults.EMAIL_TLS_MODE = S("starttls")
          /\ Defaults.EMAIL_SUBJECT_PREFIX = S("plain")
          /\ Defaults.TEMPLATE_DIR = S("")
      BY SMT DEF Defaults
    <2>2. /\ "info" \in Kinds.LOG_LEVEL
          /\ "sqlite" \in Kinds.DATABASE_DRIVER
          /\ "plain" \in Kinds.DATABASE_DSN
          /\ "" \in Kinds.PACHCA_TOKEN
          /\ "https" \in Kinds.PACHCA_BASE_URL
          /\ "" \in Kinds.EMAIL_SMTP_HOST
          /\ "" \in Kinds.EMAIL_FROM
          /\ "" \in Kinds.EMAIL_USERNAME
          /\ "" \in Kinds.EMAIL_PASSWORD
          /\ "starttls" \in Kinds.EMAIL_TLS_MODE
          /\ "plain" \in Kinds.EMAIL_SUBJECT_PREFIX
          /\ "" \in Kinds.TEMPLATE_DIR
      BY SMT DEF Kinds, PlainKinds, AddressKinds, LogLevels, TLSModes
    <2>3. \A v \in TextVars : \E t \in Kinds[v] : Defaults[v] = S(t)
      BY <2>1, <2>2, Zenon DEF TextVars
    <2> QED BY <2>3, TextFacts
  <1>3. Defaults["EMAIL_TO"] \in Seq(Address)
    BY SMT DEF Defaults
  <1>4. /\ \A v \in LimitVars : v \in Var /\ Values(v) = Int
        /\ \A v \in TextVars : v \in Var /\ Values(v) = Text(Kinds[v])
        /\ "EMAIL_TO" \in Var /\ Values("EMAIL_TO") = Seq(Address)
    <2>1. /\ \A v \in TextVars : v \notin LimitVars /\ v # "EMAIL_TO"
          /\ "EMAIL_TO" \notin LimitVars
      BY DEF LimitVars, TextVars
    <2> QED BY <2>1, VarFacts DEF Values, Address
  <1>5. \A v \in Var : env.value[v] \in Values(v)
    BY DEF IsEnvironment
  <1> QED BY <1>1, <1>2, <1>3, <1>4, <1>5 DEF Given

\* The variables that normalize only trims.
TrimmedVars ==
    {"DATABASE_DSN", "PACHCA_TOKEN", "EMAIL_SMTP_HOST", "EMAIL_FROM",
     "EMAIL_USERNAME", "EMAIL_PASSWORD", "EMAIL_SUBJECT_PREFIX", "TEMPLATE_DIR"}

LEMMA ConfiguredFacts ==
    ASSUME NEW env, IsEnvironment(env)
    PROVE  /\ \A v \in LimitVars : Configured(env)[v] = Given(env, v)
           /\ \A v \in TrimmedVars : Configured(env)[v] = S(Given(env, v).text)
           /\ \A v \in {"LOG_LEVEL", "DATABASE_DRIVER", "EMAIL_TLS_MODE"} :
                  Configured(env)[v] = ToLower(S(Given(env, v).text))
           /\ Configured(env)["PACHCA_BASE_URL"] =
                  TrimSlash(S(Given(env, "PACHCA_BASE_URL").text))
           /\ Configured(env)["EMAIL_TO"] = Recipients(Given(env, "EMAIL_TO"))
  <1>1. \A v \in Var : Configured(env)[v] = Normalized(v, Given(env, v))
    BY DEF Configured, Given
  <1>2. Var = LimitVars \cup TextVars \cup {"EMAIL_TO", "TEMPLATE_RELOAD"}
    BY VarFacts
  <1>3. \A v \in LimitVars : \A x : Normalized(v, x) = x
    BY SMT DEF LimitVars, Normalized
  <1>4. \A v \in TrimmedVars : \A x : v \in TextVars /\ Normalized(v, x) = S(x.text)
    BY SMT DEF TrimmedVars, TextVars, Normalized, Trim
  <1>5. \A v \in {"LOG_LEVEL", "DATABASE_DRIVER", "EMAIL_TLS_MODE"} :
            \A x : v \in TextVars /\ Normalized(v, x) = ToLower(S(x.text))
    BY SMT DEF TextVars, Normalized, Trim
  <1>6. \A x : /\ "PACHCA_BASE_URL" \in TextVars
               /\ Normalized("PACHCA_BASE_URL", x) = TrimSlash(S(x.text))
    BY SMT DEF TextVars, Normalized, Trim
  <1>7. \A x : Normalized("EMAIL_TO", x) = Recipients(x)
    BY SMT DEF Normalized
  <1> QED BY <1>1, <1>2, <1>3, <1>4, <1>5, <1>6, <1>7, Zenon

\* The range checks.
LEMMA RangeFacts ==
    ASSUME NEW env, IsEnvironment(env), NEW v \in LimitVars
    PROVE  InRange(Configured(env), v) =
               IF Given(env, v) \in Limits[v][1] .. Limits[v][2] THEN "nil" ELSE v
  <1>1. Configured(env)[v] = Given(env, v) /\ Given(env, v) \in Int
    BY ConfiguredFacts, GivenFacts
  <1>2. Limits[v][1] \in Int /\ Limits[v][2] \in Int
    BY SMT DEF LimitVars, Limits
  <1> QED BY <1>1, <1>2, SMT DEF InRange, Check

\* The other checks of a text that normalize only trims.
LEMMA TrimmedChecks ==
    ASSUME NEW env, IsEnvironment(env), NEW v \in TrimmedVars
    PROVE  LET c == Configured(env)
               t == Given(env, v).text
           IN  /\ NotEmpty(c, v) = IF t = "" THEN v ELSE "nil"
               /\ CleanText(c, v) =
                      IF t \in {"long", "control", "dangerous"} THEN v ELSE "nil"
               /\ CleanSecret(c, v) =
                      IF t \in {"long", "control", "spaced", "dangerous"}
                      THEN v ELSE "nil"
  <1> DEFINE c == Configured(env)
             t == Given(env, v).text
  <1>1. c[v] = S(t)
    BY ConfiguredFacts
  <1> HIDE DEF c, t
  <1>2. (c[v] = S("") <=> t = "") /\ c[v].text = t /\ ~c[v].pad
    BY <1>1, TrimmedFacts
  <1>3. NotEmpty(c, v) = IF t = "" THEN v ELSE "nil"
    BY <1>2 DEF NotEmpty, Check
  <1>4. CleanText(c, v) = IF t \in {"long", "control", "dangerous"} THEN v ELSE "nil"
    BY <1>2 DEF CleanText, Check
  <1>5. CleanSecret(c, v) = IF t \in {"long", "control", "spaced", "dangerous"}
                            THEN v ELSE "nil"
    BY <1>2 DEF CleanSecret, Check
  <1> QED BY <1>3, <1>4, <1>5 DEF c, t

\* Those of a text that is put in lower case, and of the base URL.
LEMMA OneOfChecks ==
    ASSUME NEW env, IsEnvironment(env)
    PROVE  LET c == Configured(env)
               t(v) == Given(env, v).text
           IN  /\ \A v \in {"LOG_LEVEL", "DATABASE_DRIVER", "EMAIL_TLS_MODE"} :
                      \A ok : OneOf(c, v, ok) =
                                 IF ToLower(S(t(v))).text \in ok THEN "nil" ELSE v
               /\ CleanText(c, "PACHCA_BASE_URL") =
                      IF t("PACHCA_BASE_URL") \in {"long", "control", "dangerous"}
                      THEN "PACHCA_BASE_URL" ELSE "nil"
               /\ OneOf(c, "PACHCA_BASE_URL", {"http", "https"}) =
                      IF t("PACHCA_BASE_URL") \in {"http", "https", "https/"}
                      THEN "nil" ELSE "PACHCA_BASE_URL"
  <1> DEFINE c == Configured(env)
             t(v) == Given(env, v).text
  <1>1. /\ \A v \in {"LOG_LEVEL", "DATABASE_DRIVER", "EMAIL_TLS_MODE"} :
               c[v] = ToLower(S(t(v)))
        /\ c["PACHCA_BASE_URL"] = TrimSlash(S(t("PACHCA_BASE_URL")))
    BY ConfiguredFacts
  <1>2. \A u : ~ToLower(S(u)).pad /\ ~TrimSlash(S(u)).pad
    BY TrimmedFacts DEF ToLower, TrimSlash
  <1>3. \A u : TrimSlash(S(u)).text = IF u = "https/" THEN "https" ELSE u
    BY TrimmedFacts DEF TrimSlash
  <1> HIDE DEF c, t
  <1>4. \A v \in {"LOG_LEVEL", "DATABASE_DRIVER", "EMAIL_TLS_MODE"} :
            \A ok : OneOf(c, v, ok) =
                       IF ToLower(S(t(v))).text \in ok THEN "nil" ELSE v
    BY <1>1, <1>2 DEF OneOf, Check
  <1>5. CleanText(c, "PACHCA_BASE_URL") =
            IF t("PACHCA_BASE_URL") \in {"long", "control", "dangerous"}
            THEN "PACHCA_BASE_URL" ELSE "nil"
    BY <1>1, <1>3 DEF CleanText, Check
  <1>6. OneOf(c, "PACHCA_BASE_URL", {"http", "https"}) =
            IF t("PACHCA_BASE_URL") \in {"http", "https", "https/"}
            THEN "nil" ELSE "PACHCA_BASE_URL"
    BY <1>1, <1>2, <1>3 DEF OneOf, Check
  <1> QED BY <1>4, <1>5, <1>6 DEF c, t

\* These checks accept a variable or name it, and they accept it if ok.
Decides(checks, v, ok) ==
    /\ checks # {} /\ checks \subseteq {"nil", v}
    /\ checks = {"nil"} <=> ok

\* The kinds there are and the kinds that are accepted.
LEMMA KindFacts ==
    /\ Kinds.LOG_LEVEL = LogLevels \cup {"", "INFO", "verbose"}
    /\ Texts.LOG_LEVEL = LogLevels \cup {"INFO"}
    /\ Kinds.DATABASE_DRIVER = {"", "sqlite", "SQLite", "postgres"}
    /\ Texts.DATABASE_DRIVER = {"sqlite", "SQLite"}
    /\ Kinds.DATABASE_DSN = PlainKinds
    /\ Texts.DATABASE_DSN = {"plain", "spaced"}
    /\ Kinds.PACHCA_TOKEN = PlainKinds
    /\ Texts.PACHCA_TOKEN = {"plain"}
    /\ Kinds.PACHCA_BASE_URL = {"", "http", "https", "https/", "ftp", "noHost", "long",
                                "control", "dangerous"}
    /\ Texts.PACHCA_BASE_URL = {"http", "https", "https/"}
    /\ Kinds.EMAIL_SMTP_HOST = PlainKinds \cup {"localhost"}
    /\ Texts.EMAIL_SMTP_HOST = {"plain", "spaced", "localhost"}
    /\ Kinds.EMAIL_FROM = AddressKinds
    /\ Texts.EMAIL_FROM = {"bare", "named"}
    /\ Kinds.EMAIL_USERNAME = PlainKinds
    /\ Texts.EMAIL_USERNAME = {"", "plain", "spaced"}
    /\ Kinds.EMAIL_PASSWORD = PlainKinds
    /\ Texts.EMAIL_PASSWORD = {"", "plain"}
    /\ Kinds.EMAIL_TLS_MODE = TLSModes \cup {"", "STARTTLS", "ssl"}
    /\ Texts.EMAIL_TLS_MODE = TLSModes \cup {"STARTTLS"}
    /\ Kinds.EMAIL_SUBJECT_PREFIX = PlainKinds
    /\ Texts.EMAIL_SUBJECT_PREFIX = {"", "plain", "spaced"}
    /\ Kinds.TEMPLATE_DIR = PlainKinds
    /\ Texts.TEMPLATE_DIR = {"", "plain", "spaced"}
  BY SMT DEF Kinds, Texts

\* The checks of each text accept the kinds that Texts lists, and no other.
LEMMA TextChecks ==
    ASSUME NEW env, IsEnvironment(env)
    PROVE  LET c == Configured(env)
               Fine(v) == Given(env, v).text \in Texts[v]
           IN  /\ Decides({OneOf(c, "LOG_LEVEL", LogLevels)},
                          "LOG_LEVEL", Fine("LOG_LEVEL"))
               /\ Decides({OneOf(c, "DATABASE_DRIVER", DatabaseDrivers)},
                          "DATABASE_DRIVER", Fine("DATABASE_DRIVER"))
               /\ Decides({NotEmpty(c, "DATABASE_DSN"),
                           CleanText(c, "DATABASE_DSN")},
                          "DATABASE_DSN", Fine("DATABASE_DSN"))
               /\ Decides({NotEmpty(c, "PACHCA_TOKEN"),
                           CleanSecret(c, "PACHCA_TOKEN")},
                          "PACHCA_TOKEN", Fine("PACHCA_TOKEN"))
               /\ Decides({CleanText(c, "PACHCA_BASE_URL"),
                           OneOf(c, "PACHCA_BASE_URL", {"http", "https"})},
                          "PACHCA_BASE_URL", Fine("PACHCA_BASE_URL"))
               /\ Decides({NotEmpty(c, "EMAIL_SMTP_HOST"),
                           CleanText(c, "EMAIL_SMTP_HOST")},
                          "EMAIL_SMTP_HOST", Fine("EMAIL_SMTP_HOST"))
               /\ Decides({NotEmpty(c, "EMAIL_FROM"),
                           Check("EMAIL_FROM", IsAddress(c.EMAIL_FROM))},
                          "EMAIL_FROM", Fine("EMAIL_FROM"))
               /\ Decides({CleanText(c, "EMAIL_USERNAME")},
                          "EMAIL_USERNAME", Fine("EMAIL_USERNAME"))
               /\ Decides({CleanSecret(c, "EMAIL_PASSWORD")},
                          "EMAIL_PASSWORD", Fine("EMAIL_PASSWORD"))
               /\ Decides({OneOf(c, "EMAIL_TLS_MODE", TLSModes)},
                          "EMAIL_TLS_MODE", Fine("EMAIL_TLS_MODE"))
               /\ Decides({CleanText(c, "EMAIL_SUBJECT_PREFIX")},
                          "EMAIL_SUBJECT_PREFIX", Fine("EMAIL_SUBJECT_PREFIX"))
               /\ Decides({CleanText(c, "TEMPLATE_DIR")},
                          "TEMPLATE_DIR", Fine("TEMPLATE_DIR"))
  <1> DEFINE c == Configured(env)
             t(v) == Given(env, v).text
             Fine(v) == t(v) \in Texts[v]
  <1>0. \A v \in TextVars : t(v) \in Kinds[v]
    BY GivenFacts, TextFacts
  <1>1. Decides({OneOf(c, "LOG_LEVEL", LogLevels)},
                "LOG_LEVEL", Fine("LOG_LEVEL"))
    <2> DEFINE u == t("LOG_LEVEL")
    <2>1. u \in Kinds.LOG_LEVEL
      BY <1>0, Zenon DEF TextVars
    <2>3. /\ OneOf(c, "LOG_LEVEL", LogLevels) =
                 IF ToLower(S(u)).text \in LogLevels
                 THEN "nil" ELSE "LOG_LEVEL"
      BY OneOfChecks
    <2> HIDE DEF c, u
    <2>4. /\ u \in LogLevels \cup {"", "INFO", "verbose"}
          /\ Texts.LOG_LEVEL = LogLevels \cup {"INFO"}
      BY <2>1, KindFacts, Zenon
    <2>5. u # "STARTTLS" /\ u # "SQLite" /\ "info" \in LogLevels
      BY <2>4 DEF LogLevels
    <2>6. u \in Texts.LOG_LEVEL <=> ToLower(S(u)).text \in LogLevels
      <3>1. CASE u = "INFO"
        <4>1. ToLower(S(u)).text = "info"
          BY <3>1, TrimmedFacts DEF ToLower
        <4> QED BY <2>4, <2>5, <3>1, <4>1, Zenon
      <3>2. CASE u # "INFO"
        <4>1. ToLower(S(u)).text = u
          BY <2>5, <3>2, TrimmedFacts DEF ToLower
        <4> QED BY <2>4, <3>2, <4>1, Zenon
      <3> QED BY <3>1, <3>2
    <2> QED BY <2>3, <2>6 DEF u, Decides
  <1>2. Decides({OneOf(c, "DATABASE_DRIVER", DatabaseDrivers)},
                "DATABASE_DRIVER", Fine("DATABASE_DRIVER"))
    <2> DEFINE u == t("DATABASE_DRIVER")
    <2>1. u \in Kinds.DATABASE_DRIVER
      BY <1>0, Zenon DEF TextVars
    <2>3. /\ OneOf(c, "DATABASE_DRIVER", DatabaseDrivers) =
                 IF ToLower(S(u)).text \in DatabaseDrivers
                 THEN "nil" ELSE "DATABASE_DRIVER"
      BY OneOfChecks
    <2> HIDE DEF c, u
    <2>6. u \in Texts.DATABASE_DRIVER <=> ToLower(S(u)).text \in DatabaseDrivers
      BY <2>1, KindFacts, TrimmedFacts DEF ToLower, LogLevels, DatabaseDrivers, TLSModes
    <2> QED BY <2>3, <2>6 DEF u, Decides
  <1>3. Decides({NotEmpty(c, "DATABASE_DSN"), CleanText(c, "DATABASE_DSN")},
                "DATABASE_DSN", Fine("DATABASE_DSN"))
    <2> DEFINE u == t("DATABASE_DSN")
    <2>1. u \in Kinds.DATABASE_DSN
      BY <1>0, Zenon DEF TextVars
    <2>2. "DATABASE_DSN" \in TrimmedVars
      BY DEF TrimmedVars
    <2>3. /\ NotEmpty(c, "DATABASE_DSN") =
                 IF u # ""
                 THEN "nil" ELSE "DATABASE_DSN"
          /\ CleanText(c, "DATABASE_DSN") =
                 IF u \notin {"long", "control", "dangerous"}
                 THEN "nil" ELSE "DATABASE_DSN"
      BY <2>2, TrimmedChecks
    <2> HIDE DEF c, u
    <2>6. u \in Texts.DATABASE_DSN <=>
              /\ u # ""
              /\ u \notin {"long", "control", "dangerous"}
      BY <2>1, KindFacts DEF PlainKinds
    <2> QED BY <2>3, <2>6 DEF u, Decides
  <1>4. Decides({NotEmpty(c, "PACHCA_TOKEN"), CleanSecret(c, "PACHCA_TOKEN")},
                "PACHCA_TOKEN", Fine("PACHCA_TOKEN"))
    <2> DEFINE u == t("PACHCA_TOKEN")
    <2>1. u \in Kinds.PACHCA_TOKEN
      BY <1>0, Zenon DEF TextVars
    <2>2. "PACHCA_TOKEN" \in TrimmedVars
      BY DEF TrimmedVars
    <2>3. /\ NotEmpty(c, "PACHCA_TOKEN") =
                 IF u # ""
                 THEN "nil" ELSE "PACHCA_TOKEN"
          /\ CleanSecret(c, "PACHCA_TOKEN") =
                 IF u \notin {"long", "control", "spaced", "dangerous"}
                 THEN "nil" ELSE "PACHCA_TOKEN"
      BY <2>2, TrimmedChecks
    <2> HIDE DEF c, u
    <2>6. u \in Texts.PACHCA_TOKEN <=>
              /\ u # ""
              /\ u \notin {"long", "control", "spaced", "dangerous"}
      BY <2>1, KindFacts DEF PlainKinds
    <2> QED BY <2>3, <2>6 DEF u, Decides
  <1>5. Decides({CleanText(c, "PACHCA_BASE_URL"),
                 OneOf(c, "PACHCA_BASE_URL", {"http", "https"})},
                "PACHCA_BASE_URL", Fine("PACHCA_BASE_URL"))
    <2> DEFINE u == t("PACHCA_BASE_URL")
    <2>1. u \in Kinds.PACHCA_BASE_URL
      BY <1>0, Zenon DEF TextVars
    <2>3. /\ CleanText(c, "PACHCA_BASE_URL") =
                 IF u \notin {"long", "control", "dangerous"}
                 THEN "nil" ELSE "PACHCA_BASE_URL"
          /\ OneOf(c, "PACHCA_BASE_URL", {"http", "https"}) =
                 IF u \in {"http", "https", "https/"}
                 THEN "nil" ELSE "PACHCA_BASE_URL"
      BY OneOfChecks
    <2> HIDE DEF c, u
    <2>6. u \in Texts.PACHCA_BASE_URL <=>
              /\ u \notin {"long", "control", "dangerous"}
              /\ u \in {"http", "https", "https/"}
      BY <2>1, KindFacts
    <2> QED BY <2>3, <2>6 DEF u, Decides
  <1>6. Decides({NotEmpty(c, "EMAIL_SMTP_HOST"),
                 CleanText(c, "EMAIL_SMTP_HOST")},
                "EMAIL_SMTP_HOST", Fine("EMAIL_SMTP_HOST"))
    <2> DEFINE u == t("EMAIL_SMTP_HOST")
    <2>1. u \in Kinds.EMAIL_SMTP_HOST
      BY <1>0, Zenon DEF TextVars
    <2>2. "EMAIL_SMTP_HOST" \in TrimmedVars
      BY DEF TrimmedVars
    <2>3. /\ NotEmpty(c, "EMAIL_SMTP_HOST") =
                 IF u # ""
                 THEN "nil" ELSE "EMAIL_SMTP_HOST"
          /\ CleanText(c, "EMAIL_SMTP_HOST") =
                 IF u \notin {"long", "control", "dangerous"}
                 THEN "nil" ELSE "EMAIL_SMTP_HOST"
      BY <2>2, TrimmedChecks
    <2> HIDE DEF c, u
    <2>6. u \in Texts.EMAIL_SMTP_HOST <=>
              /\ u # ""
              /\ u \notin {"long", "control", "dangerous"}
      BY <2>1, KindFacts DEF PlainKinds
    <2> QED BY <2>3, <2>6 DEF u, Decides
  <1>7. Decides({NotEmpty(c, "EMAIL_FROM"),
                 Check("EMAIL_FROM", IsAddress(c.EMAIL_FROM))},
                "EMAIL_FROM", Fine("EMAIL_FROM"))
    <2> DEFINE u == t("EMAIL_FROM")
    <2>1. u \in Kinds.EMAIL_FROM
      BY <1>0, Zenon DEF TextVars
    <2>2. "EMAIL_FROM" \in TrimmedVars
      BY DEF TrimmedVars
    <2>3. c.EMAIL_FROM.text = u
      BY <2>2, ConfiguredFacts, TrimmedFacts
    <2>4. /\ NotEmpty(c, "EMAIL_FROM") =
                 IF u # ""
                 THEN "nil" ELSE "EMAIL_FROM"
      BY <2>2, TrimmedChecks
    <2>5. Check("EMAIL_FROM", IsAddress(c.EMAIL_FROM)) =
              IF u \in {"bare", "named"}
              THEN "nil" ELSE "EMAIL_FROM"
      BY <2>3 DEF Check, IsAddress
    <2> HIDE DEF c, u
    <2>6. u \in Texts.EMAIL_FROM <=>
              /\ u # ""
              /\ u \in {"bare", "named"}
      BY <2>1, KindFacts DEF AddressKinds
    <2> QED BY <2>4, <2>5, <2>6 DEF u, Decides
  <1>8. Decides({CleanText(c, "EMAIL_USERNAME")},
                "EMAIL_USERNAME", Fine("EMAIL_USERNAME"))
    <2> DEFINE u == t("EMAIL_USERNAME")
    <2>1. u \in Kinds.EMAIL_USERNAME
      BY <1>0, Zenon DEF TextVars
    <2>2. "EMAIL_USERNAME" \in TrimmedVars
      BY DEF TrimmedVars
    <2>3. /\ CleanText(c, "EMAIL_USERNAME") =
                 IF u \notin {"long", "control", "dangerous"}
                 THEN "nil" ELSE "EMAIL_USERNAME"
      BY <2>2, TrimmedChecks
    <2> HIDE DEF c, u
    <2>6. u \in Texts.EMAIL_USERNAME <=> u \notin {"long", "control", "dangerous"}
      BY <2>1, KindFacts DEF PlainKinds
    <2> QED BY <2>3, <2>6 DEF u, Decides
  <1>9. Decides({CleanSecret(c, "EMAIL_PASSWORD")},
                "EMAIL_PASSWORD", Fine("EMAIL_PASSWORD"))
    <2> DEFINE u == t("EMAIL_PASSWORD")
    <2>1. u \in Kinds.EMAIL_PASSWORD
      BY <1>0, Zenon DEF TextVars
    <2>2. "EMAIL_PASSWORD" \in TrimmedVars
      BY DEF TrimmedVars
    <2>3. /\ CleanSecret(c, "EMAIL_PASSWORD") =
                 IF u \notin {"long", "control", "spaced", "dangerous"}
                 THEN "nil" ELSE "EMAIL_PASSWORD"
      BY <2>2, TrimmedChecks
    <2> HIDE DEF c, u
    <2>6. u \in Texts.EMAIL_PASSWORD <=> u \notin {"long", "control", "spaced", "dangerous"}
      BY <2>1, KindFacts DEF PlainKinds
    <2> QED BY <2>3, <2>6 DEF u, Decides
  <1>10. Decides({OneOf(c, "EMAIL_TLS_MODE", TLSModes)},
                "EMAIL_TLS_MODE", Fine("EMAIL_TLS_MODE"))
    <2> DEFINE u == t("EMAIL_TLS_MODE")
    <2>1. u \in Kinds.EMAIL_TLS_MODE
      BY <1>0, Zenon DEF TextVars
    <2>3. /\ OneOf(c, "EMAIL_TLS_MODE", TLSModes) =
                 IF ToLower(S(u)).text \in TLSModes
                 THEN "nil" ELSE "EMAIL_TLS_MODE"
      BY OneOfChecks
    <2> HIDE DEF c, u
    <2>4. /\ u \in TLSModes \cup {"", "STARTTLS", "ssl"}
          /\ Texts.EMAIL_TLS_MODE = TLSModes \cup {"STARTTLS"}
      BY <2>1, KindFacts, Zenon
    <2>5. u # "INFO" /\ u # "SQLite" /\ "starttls" \in TLSModes
      BY <2>4 DEF TLSModes
    <2>6. u \in Texts.EMAIL_TLS_MODE <=> ToLower(S(u)).text \in TLSModes
      <3>1. CASE u = "STARTTLS"
        <4>1. ToLower(S(u)).text = "starttls"
          BY <3>1, TrimmedFacts DEF ToLower
        <4> QED BY <2>4, <2>5, <3>1, <4>1, Zenon
      <3>2. CASE u # "STARTTLS"
        <4>1. ToLower(S(u)).text = u
          BY <2>5, <3>2, TrimmedFacts DEF ToLower
        <4> QED BY <2>4, <3>2, <4>1, Zenon
      <3> QED BY <3>1, <3>2
    <2> QED BY <2>3, <2>6 DEF u, Decides
  <1>11. Decides({CleanText(c, "EMAIL_SUBJECT_PREFIX")},
                "EMAIL_SUBJECT_PREFIX", Fine("EMAIL_SUBJECT_PREFIX"))
    <2> DEFINE u == t("EMAIL_SUBJECT_PREFIX")
    <2>1. u \in Kinds.EMAIL_SUBJECT_PREFIX
      BY <1>0, Zenon DEF TextVars
    <2>2. "EMAIL_SUBJECT_PREFIX" \in TrimmedVars
      BY DEF TrimmedVars
    <2>3. /\ CleanText(c, "EMAIL_SUBJECT_PREFIX") =
                 IF u \notin {"long", "control", "dangerous"}
                 THEN "nil" ELSE "EMAIL_SUBJECT_PREFIX"
      BY <2>2, TrimmedChecks
    <2> HIDE DEF c, u
    <2>6. u \in Texts.EMAIL_SUBJECT_PREFIX <=> u \notin {"long", "control", "dangerous"}
      BY <2>1, KindFacts DEF PlainKinds
    <2> QED BY <2>3, <2>6 DEF u, Decides
  <1>12. Decides({CleanText(c, "TEMPLATE_DIR")},
                "TEMPLATE_DIR", Fine("TEMPLATE_DIR"))
    <2> DEFINE u == t("TEMPLATE_DIR")
    <2>1. u \in Kinds.TEMPLATE_DIR
      BY <1>0, Zenon DEF TextVars
    <2>2. "TEMPLATE_DIR" \in TrimmedVars
      BY DEF TrimmedVars
    <2>3. /\ CleanText(c, "TEMPLATE_DIR") =
                 IF u \notin {"long", "control", "dangerous"}
                 THEN "nil" ELSE "TEMPLATE_DIR"
      BY <2>2, TrimmedChecks
    <2> HIDE DEF c, u
    <2>6. u \in Texts.TEMPLATE_DIR <=> u \notin {"long", "control", "dangerous"}
      BY <2>1, KindFacts DEF PlainKinds
    <2> QED BY <2>3, <2>6 DEF u, Decides
  <1> HIDE DEF c, Fine
  <1> QED BY <1>1, <1>2, <1>3, <1>4, <1>5, <1>6, <1>7, <1>8, <1>9, <1>10, <1>11, <1>12
          DEF c, Fine

\* The checks of EMAIL_TO look at the addresses that are not empty.
LEMMA RecipientChecks ==
    ASSUME NEW env, IsEnvironment(env)
    PROVE  LET c == Configured(env)
               list == Given(env, "EMAIL_TO")
               given == {i \in DOMAIN list : list[i].text # ""}
           IN  Decides({Check("EMAIL_TO", c.EMAIL_TO # <<>>),
                        Check("EMAIL_TO", \A i \in DOMAIN c.EMAIL_TO :
                                              IsAddress(c.EMAIL_TO[i]))},
                       "EMAIL_TO",
                       ~(given = {} \/ \E i \in given : ~IsAddress(list[i])))
  <1> DEFINE list == Given(env, "EMAIL_TO")
             given == {i \in DOMAIN list : list[i].text # ""}
             to == Recipients(list)
  <1>1. list \in Seq(Address) /\ Configured(env)["EMAIL_TO"] = to
    BY GivenFacts, ConfiguredFacts
  <1>2. Keeps(list, Len(list), to) /\ DOMAIN list = 1 .. Len(list)
    BY <1>1, RecipientsFacts
  <1> HIDE DEF list, to
  <1>3. to = <<>> <=> given = {}
    <2>1. to \in Seq(Address)
      BY <1>2 DEF Keeps
    <2>2. to = <<>> <=> DOMAIN to = {}
      BY <2>1
    <2> QED BY <1>2, <2>2 DEF Keeps
  <1>4. \A x : IsAddress(Trim(x)) <=> IsAddress(x)
    BY TrimmedFacts DEF IsAddress, Trim
  <1>5. (\A k \in DOMAIN to : IsAddress(to[k])) <=>
            (\A i \in given : IsAddress(list[i]))
    BY <1>2, <1>4 DEF Keeps
  <1> HIDE DEF given
  <1>6. Decides({Check("EMAIL_TO", to # <<>>),
                 Check("EMAIL_TO", \A i \in DOMAIN to : IsAddress(to[i]))},
                "EMAIL_TO",
                ~(given = {} \/ \E i \in given : ~IsAddress(list[i])))
    <2>1. Check("EMAIL_TO", to # <<>>) = IF given # {} THEN "nil" ELSE "EMAIL_TO"
      BY <1>3 DEF Check
    <2>2. Check("EMAIL_TO", \A i \in DOMAIN to : IsAddress(to[i])) =
              IF \A i \in given : IsAddress(list[i]) THEN "nil" ELSE "EMAIL_TO"
      BY <1>5 DEF Check
    <2> QED BY <2>1, <2>2 DEF Decides
  <1> QED BY <1>1, <1>6 DEF given, list

\* The checks that compare two variables.
LEMMA CrossChecks ==
    ASSUME NEW env, IsEnvironment(env)
    PROVE  LET c == Configured(env)
               Val(v) == Given(env, v)
           IN  /\ Decides({Check("NOTIFY_QUEUE_SIZE",
                                 c.NOTIFY_QUEUE_SIZE >= c.NOTIFY_BATCH_SIZE)},
                          "NOTIFY_QUEUE_SIZE",
                          ~(Val("NOTIFY_QUEUE_SIZE") < Val("NOTIFY_BATCH_SIZE")))
               /\ Val("PRE_STOP_DELAY") >= 0 =>
                  Decides({Check("PRE_STOP_DELAY", c.PRE_STOP_DELAY = 0
                                      \/ c.PRE_STOP_DELAY < c.SHUTDOWN_TIMEOUT)},
                          "PRE_STOP_DELAY",
                          ~(/\ Val("PRE_STOP_DELAY") > 0
                            /\ Val("SHUTDOWN_TIMEOUT") <= Val("PRE_STOP_DELAY")))
               /\ Decides({Check("EMAIL_USERNAME", (c.EMAIL_USERNAME # S(""))
                                                     = (c.EMAIL_PASSWORD # S("")))},
                          "EMAIL_USERNAME",
                          ~((Val("EMAIL_USERNAME").text = "")
                               # (Val("EMAIL_PASSWORD").text = "")))
  <1> DEFINE c == Configured(env)
             Val(v) == Given(env, v)
  <1>1. \A v \in {"NOTIFY_QUEUE_SIZE", "NOTIFY_BATCH_SIZE", "PRE_STOP_DELAY",
                  "SHUTDOWN_TIMEOUT"} : c[v] = Val(v) /\ Val(v) \in Int
    <2>1. {"NOTIFY_QUEUE_SIZE", "NOTIFY_BATCH_SIZE", "PRE_STOP_DELAY",
           "SHUTDOWN_TIMEOUT"} \subseteq LimitVars
      BY SMT DEF LimitVars
    <2> QED BY <2>1, ConfiguredFacts, GivenFacts
  <1>2. \A v \in {"EMAIL_USERNAME", "EMAIL_PASSWORD"} :
            c[v] = S("") <=> Val(v).text = ""
    <2>1. {"EMAIL_USERNAME", "EMAIL_PASSWORD"} \subseteq TrimmedVars
      BY SMT DEF TrimmedVars
    <2>2. \A v \in {"EMAIL_USERNAME", "EMAIL_PASSWORD"} : c[v] = S(Val(v).text)
      BY <2>1, ConfiguredFacts
    <2> HIDE DEF c, Val
    <2> QED BY <2>2, TrimmedFacts
  <1> HIDE DEF c, Val
  <1>3. Decides({Check("NOTIFY_QUEUE_SIZE",
                       c.NOTIFY_QUEUE_SIZE >= c.NOTIFY_BATCH_SIZE)},
                "NOTIFY_QUEUE_SIZE",
                ~(Val("NOTIFY_QUEUE_SIZE") < Val("NOTIFY_BATCH_SIZE")))
    BY <1>1, SMT DEF Decides, Check
  <1>4. Val("PRE_STOP_DELAY") >= 0 =>
          Decides({Check("PRE_STOP_DELAY", c.PRE_STOP_DELAY = 0
                              \/ c.PRE_STOP_DELAY < c.SHUTDOWN_TIMEOUT)},
                  "PRE_STOP_DELAY",
                  ~(/\ Val("PRE_STOP_DELAY") > 0
                    /\ Val("SHUTDOWN_TIMEOUT") <= Val("PRE_STOP_DELAY")))
    BY <1>1, SMT DEF Decides, Check
  <1>5. Decides({Check("EMAIL_USERNAME", (c.EMAIL_USERNAME # S(""))
                                            = (c.EMAIL_PASSWORD # S("")))},
                "EMAIL_USERNAME",
                ~((Val("EMAIL_USERNAME").text = "")
                     # (Val("EMAIL_PASSWORD").text = "")))
    <2>1. Check("EMAIL_USERNAME", (c.EMAIL_USERNAME # S(""))
                                     = (c.EMAIL_PASSWORD # S(""))) =
              IF (Val("EMAIL_USERNAME").text = "") <=> (Val("EMAIL_PASSWORD").text = "")
              THEN "nil" ELSE "EMAIL_USERNAME"
      BY <1>2 DEF Check
    <2> QED BY <2>1 DEF Decides
  <1> QED BY <1>3, <1>4, <1>5 DEF c, Val

\* What is wrong with the values, whether they matter or not.
Wrong(env) ==
    LET Val(v) == Given(env, v)
        given == {i \in DOMAIN Val("EMAIL_TO") : Val("EMAIL_TO")[i].text # ""}
    IN  {v \in DOMAIN Limits : Val(v) \notin Limits[v][1] .. Limits[v][2]}
        \cup {v \in DOMAIN Texts : Val(v).text \notin Texts[v]}
        \cup {v \in {"EMAIL_TO"} :
                 given = {} \/ \E i \in given : ~IsAddress(Val(v)[i])}
        \cup {v \in {"NOTIFY_QUEUE_SIZE"} : Val(v) < Val("NOTIFY_BATCH_SIZE")}
        \cup {v \in {"PRE_STOP_DELAY"} :
                 Val(v) > 0 /\ Val("SHUTDOWN_TIMEOUT") <= Val(v)}
        \cup {v \in {"EMAIL_USERNAME"} :
                 (Val(v).text = "") # (Val("EMAIL_PASSWORD").text = "")}

LEMMA WrongFacts ==
    ASSUME NEW env
    PROVE  LET Val(v) == Given(env, v)
               given == {i \in DOMAIN Val("EMAIL_TO") : Val("EMAIL_TO")[i].text # ""}
               Off(v) == Val(v) \notin Limits[v][1] .. Limits[v][2]
               Odd(v) == Val(v).text \notin Texts[v]
           IN  /\ Wrong(env) \subseteq LimitVars \cup TextVars \cup {"EMAIL_TO"}
               /\ \A v \in LimitVars \ {"NOTIFY_QUEUE_SIZE", "PRE_STOP_DELAY"} :
                      v \in Wrong(env) <=> Off(v)
               /\ "NOTIFY_QUEUE_SIZE" \in Wrong(env) <=>
                      \/ Off("NOTIFY_QUEUE_SIZE")
                      \/ Val("NOTIFY_QUEUE_SIZE") < Val("NOTIFY_BATCH_SIZE")
               /\ "PRE_STOP_DELAY" \in Wrong(env) <=>
                      \/ Off("PRE_STOP_DELAY")
                      \/ /\ Val("PRE_STOP_DELAY") > 0
                         /\ Val("SHUTDOWN_TIMEOUT") <= Val("PRE_STOP_DELAY")
               /\ \A v \in TextVars \ {"EMAIL_USERNAME"} :
                      v \in Wrong(env) <=> Odd(v)
               /\ "EMAIL_USERNAME" \in Wrong(env) <=>
                      \/ Odd("EMAIL_USERNAME")
                      \/ (Val("EMAIL_USERNAME").text = "")
                            # (Val("EMAIL_PASSWORD").text = "")
               /\ "EMAIL_TO" \in Wrong(env) <=>
                      \/ given = {}
                      \/ \E i \in given : ~IsAddress(Val("EMAIL_TO")[i])
  <1> DEFINE Val(v) == Given(env, v)
             given == {i \in DOMAIN Val("EMAIL_TO") : Val("EMAIL_TO")[i].text # ""}
             Off(v) == Val(v) \notin Limits[v][1] .. Limits[v][2]
             Odd(v) == Val(v).text \notin Texts[v]
             BadTo(x) == given = {} \/ \E i \in given : ~IsAddress(x[i])
             Small == Val("NOTIFY_QUEUE_SIZE") < Val("NOTIFY_BATCH_SIZE")
             Late == /\ Val("PRE_STOP_DELAY") > 0
                     /\ Val("SHUTDOWN_TIMEOUT") <= Val("PRE_STOP_DELAY")
             Half == (Val("EMAIL_USERNAME").text = "")
                        # (Val("EMAIL_PASSWORD").text = "")
  <1>1. \A v : v \in Wrong(env) <=>
            \/ v \in LimitVars /\ Off(v)
            \/ v \in TextVars /\ Odd(v)
            \/ v = "EMAIL_TO" /\ BadTo(Val("EMAIL_TO"))
            \/ v = "NOTIFY_QUEUE_SIZE" /\ Small
            \/ v = "PRE_STOP_DELAY" /\ Late
            \/ v = "EMAIL_USERNAME" /\ Half
    BY VarFacts, Zenon DEF Wrong
  <1>2. /\ "EMAIL_TO" \notin LimitVars \cup TextVars
        /\ "EMAIL_USERNAME" \in TextVars
        /\ "NOTIFY_QUEUE_SIZE" \in LimitVars /\ "PRE_STOP_DELAY" \in LimitVars
        /\ LimitVars \cap TextVars = {}
    BY SMT DEF LimitVars, TextVars
  <1> HIDE DEF Val, given, Off, Odd, BadTo, Small, Late, Half
  <1>3. /\ Wrong(env) \subseteq LimitVars \cup TextVars \cup {"EMAIL_TO"}
        /\ \A v \in LimitVars \ {"NOTIFY_QUEUE_SIZE", "PRE_STOP_DELAY"} :
               v \in Wrong(env) <=> Off(v)
        /\ "NOTIFY_QUEUE_SIZE" \in Wrong(env) <=> Off("NOTIFY_QUEUE_SIZE") \/ Small
        /\ "PRE_STOP_DELAY" \in Wrong(env) <=> Off("PRE_STOP_DELAY") \/ Late
        /\ \A v \in TextVars \ {"EMAIL_USERNAME"} : v \in Wrong(env) <=> Odd(v)
        /\ "EMAIL_USERNAME" \in Wrong(env) <=> Odd("EMAIL_USERNAME") \/ Half
        /\ "EMAIL_TO" \in Wrong(env) <=> BadTo(Val("EMAIL_TO"))
    BY <1>1, <1>2
  <1> QED BY <1>3, Zenon DEF Val, given, Off, Odd, BadTo, Small, Late, Half

\* The checks of validate that are made in any case, but the last one.
GeneralChecks(c) ==
    <<InRange(c, "PORT"), OneOf(c, "LOG_LEVEL", LogLevels),
      OneOf(c, "DATABASE_DRIVER", DatabaseDrivers),
      NotEmpty(c, "DATABASE_DSN"), CleanText(c, "DATABASE_DSN"),
      InRange(c, "MAX_PAYLOAD_SIZE"), InRange(c, "MAX_ALERTS_PER_PAYLOAD"),
      InRange(c, "SHUTDOWN_TIMEOUT"), InRange(c, "PRE_STOP_DELAY"),
      InRange(c, "NOTIFY_POLL_INTERVAL"), InRange(c, "NOTIFY_BATCH_SIZE"),
      InRange(c, "NOTIFY_QUEUE_SIZE"), InRange(c, "NOTIFY_SEND_TIMEOUT"),
      Check("NOTIFY_QUEUE_SIZE", c.NOTIFY_QUEUE_SIZE >= c.NOTIFY_BATCH_SIZE),
      Check("PRE_STOP_DELAY", c.PRE_STOP_DELAY = 0
                                  \/ c.PRE_STOP_DELAY < c.SHUTDOWN_TIMEOUT)>>

GeneralVars ==
    {"PORT", "LOG_LEVEL", "DATABASE_DRIVER", "DATABASE_DSN", "MAX_PAYLOAD_SIZE",
     "MAX_ALERTS_PER_PAYLOAD", "SHUTDOWN_TIMEOUT", "PRE_STOP_DELAY",
     "NOTIFY_POLL_INTERVAL", "NOTIFY_BATCH_SIZE", "NOTIFY_QUEUE_SIZE",
     "NOTIFY_SEND_TIMEOUT"}

PachcaVars == {"PACHCA_TOKEN", "PACHCA_BASE_URL", "PACHCA_CHAT_ID"}

EmailVars ==
    {"EMAIL_SMTP_HOST", "EMAIL_SMTP_PORT", "EMAIL_FROM", "EMAIL_TO",
     "EMAIL_USERNAME", "EMAIL_PASSWORD", "EMAIL_TLS_MODE", "EMAIL_SUBJECT_PREFIX"}

\* A list of checks finds exactly what is wrong among some variables: a check
\* that fails names one of them with a wrong value, and if all of them pass
\* there is none.
Finds(checks, env, V) ==
    /\ \A i \in DOMAIN checks : checks[i] = "nil" \/ checks[i] \in Wrong(env) \cap V
    /\ (\A i \in DOMAIN checks : checks[i] = "nil") => Wrong(env) \cap V = {}

\* The range checks find what is out of range.
LEMMA RangeFinds ==
    ASSUME NEW env, IsEnvironment(env)
    PROVE  \A v \in LimitVars \ {"NOTIFY_QUEUE_SIZE", "PRE_STOP_DELAY"} :
               LET x == InRange(Configured(env), v)
               IN  /\ x = "nil" \/ (x = v /\ v \in Wrong(env))
                   /\ x = "nil" => v \notin Wrong(env)
  <1> SUFFICES ASSUME NEW v \in LimitVars \ {"NOTIFY_QUEUE_SIZE", "PRE_STOP_DELAY"}
               PROVE  LET x == InRange(Configured(env), v)
                      IN  /\ x = "nil" \/ (x = v /\ v \in Wrong(env))
                          /\ x = "nil" => v \notin Wrong(env)
    OBVIOUS
  <1>1. v # "nil"
    BY SMT DEF LimitVars
  <1>2. v \in Wrong(env) <=> Given(env, v) \notin Limits[v][1] .. Limits[v][2]
    BY WrongFacts
  <1>3. InRange(Configured(env), v) =
            IF Given(env, v) \in Limits[v][1] .. Limits[v][2] THEN "nil" ELSE v
    BY RangeFacts
  <1> QED BY <1>1, <1>2, <1>3

\* validatePachca, validateEmail and the rest of validate find what is wrong.
LEMMA PachcaFinds ==
    ASSUME NEW env, IsEnvironment(env)
    PROVE  Finds(validatePachca(Configured(env)), env, PachcaVars)
  <1> DEFINE c == Configured(env)
             s == validatePachca(c)
             W == Wrong(env)
  <1>1. /\ DOMAIN s = 1 .. 5
        /\ s[1] = NotEmpty(c, "PACHCA_TOKEN")
        /\ s[2] = CleanSecret(c, "PACHCA_TOKEN")
        /\ s[3] = InRange(c, "PACHCA_CHAT_ID")
        /\ s[4] = CleanText(c, "PACHCA_BASE_URL")
        /\ s[5] = OneOf(c, "PACHCA_BASE_URL", {"http", "https"})
    BY DEF validatePachca
  <1> HIDE DEF s
  <1>2. /\ s[3] = "nil" \/ (s[3] = "PACHCA_CHAT_ID" /\ "PACHCA_CHAT_ID" \in W)
        /\ s[3] = "nil" => "PACHCA_CHAT_ID" \notin W
    <2>1. {"PACHCA_CHAT_ID"}
              \subseteq LimitVars \ {"NOTIFY_QUEUE_SIZE", "PRE_STOP_DELAY"}
      BY SMT DEF LimitVars
    <2>2. \A v \in LimitVars \ {"NOTIFY_QUEUE_SIZE", "PRE_STOP_DELAY"} :
              /\ InRange(c, v) = "nil" \/ (InRange(c, v) = v /\ v \in W)
              /\ InRange(c, v) = "nil" => v \notin W
      BY RangeFinds
    <2> HIDE DEF c, W
    <2> QED BY <1>1, <2>1, <2>2, Zenon
  <1>3. /\ s[1] = "nil" \/ (s[1] = "PACHCA_TOKEN" /\ "PACHCA_TOKEN" \in W)
        /\ s[2] = "nil" \/ (s[2] = "PACHCA_TOKEN" /\ "PACHCA_TOKEN" \in W)
        /\ s[1] = "nil" /\ s[2] = "nil" => "PACHCA_TOKEN" \notin W
    <2>1. "PACHCA_TOKEN" \in W <=>
              Given(env, "PACHCA_TOKEN").text \notin Texts["PACHCA_TOKEN"]
      BY WrongFacts DEF TextVars
    <2>2. Decides({NotEmpty(c, "PACHCA_TOKEN"),
                   CleanSecret(c, "PACHCA_TOKEN")},
                  "PACHCA_TOKEN",
                  Given(env, "PACHCA_TOKEN").text \in Texts["PACHCA_TOKEN"])
      BY TextChecks
    <2> HIDE DEF c, W
    <2> QED BY <1>1, <2>1, <2>2 DEF Decides
  <1>4. /\ s[4] = "nil" \/ (s[4] = "PACHCA_BASE_URL" /\ "PACHCA_BASE_URL" \in W)
        /\ s[5] = "nil" \/ (s[5] = "PACHCA_BASE_URL" /\ "PACHCA_BASE_URL" \in W)
        /\ s[4] = "nil" /\ s[5] = "nil" => "PACHCA_BASE_URL" \notin W
    <2>1. "PACHCA_BASE_URL" \in W <=>
              Given(env, "PACHCA_BASE_URL").text \notin Texts["PACHCA_BASE_URL"]
      BY WrongFacts DEF TextVars
    <2>2. Decides({CleanText(c, "PACHCA_BASE_URL"),
                   OneOf(c, "PACHCA_BASE_URL", {"http", "https"})},
                  "PACHCA_BASE_URL",
                  Given(env, "PACHCA_BASE_URL").text \in Texts["PACHCA_BASE_URL"])
      BY TextChecks
    <2> HIDE DEF c, W
    <2> QED BY <1>1, <2>1, <2>2 DEF Decides
  <1> HIDE DEF W
  <1>5. DOMAIN s = 1 .. 5
    BY <1>1
  <1>6. \A i \in DOMAIN s : i \in {1, 2, 3, 4, 5}
    BY <1>5
  <1> DEFINE Apt(x) == x = "nil" \/ x \in W \cap PachcaVars
  <1>7. /\ "PACHCA_TOKEN" \in PachcaVars /\ "PACHCA_CHAT_ID" \in PachcaVars
         /\ "PACHCA_BASE_URL" \in PachcaVars
    BY SMT DEF PachcaVars
  <1>8. Apt(s[1]) /\ Apt(s[2]) /\ Apt(s[3]) /\ Apt(s[4]) /\ Apt(s[5])
    BY <1>2, <1>3, <1>4, <1>7
  <1> HIDE DEF Apt
  <1>9. \A i \in DOMAIN s : Apt(s[i])
    BY <1>6, <1>8
  <1>10. (\A i \in DOMAIN s : s[i] = "nil") => W \cap PachcaVars = {}
    BY <1>2, <1>3, <1>4,
       <1>5, SMT DEF PachcaVars
  <1> QED BY <1>9, <1>10 DEF Finds, Apt, W, s

LEMMA EmailFinds ==
    ASSUME NEW env, IsEnvironment(env)
    PROVE  Finds(validateEmail(Configured(env)), env, EmailVars)
  <1> DEFINE c == Configured(env)
             s == validateEmail(c)
             W == Wrong(env)
  <1>1. /\ DOMAIN s = 1 .. 12
        /\ s[1] = NotEmpty(c, "EMAIL_SMTP_HOST")
        /\ s[2] = CleanText(c, "EMAIL_SMTP_HOST")
        /\ s[3] = InRange(c, "EMAIL_SMTP_PORT")
        /\ s[4] = NotEmpty(c, "EMAIL_FROM")
        /\ s[5] = Check("EMAIL_FROM", IsAddress(c.EMAIL_FROM))
        /\ s[6] = Check("EMAIL_TO", c.EMAIL_TO # <<>>)
        /\ s[7] = Check("EMAIL_TO", \A i \in DOMAIN c.EMAIL_TO :
                                        IsAddress(c.EMAIL_TO[i]))
        /\ s[8] = OneOf(c, "EMAIL_TLS_MODE", TLSModes)
        /\ s[9] = CleanSecret(c, "EMAIL_PASSWORD")
        /\ s[10] = CleanText(c, "EMAIL_SUBJECT_PREFIX")
        /\ s[11] = CleanText(c, "EMAIL_USERNAME")
        /\ s[12] = Check("EMAIL_USERNAME", (c.EMAIL_USERNAME # S(""))
                                           = (c.EMAIL_PASSWORD # S("")))
    BY DEF validateEmail
  <1> HIDE DEF s
  <1>2. /\ s[3] = "nil" \/ (s[3] = "EMAIL_SMTP_PORT" /\ "EMAIL_SMTP_PORT" \in W)
        /\ s[3] = "nil" => "EMAIL_SMTP_PORT" \notin W
    <2>1. {"EMAIL_SMTP_PORT"}
              \subseteq LimitVars \ {"NOTIFY_QUEUE_SIZE", "PRE_STOP_DELAY"}
      BY SMT DEF LimitVars
    <2>2. \A v \in LimitVars \ {"NOTIFY_QUEUE_SIZE", "PRE_STOP_DELAY"} :
              /\ InRange(c, v) = "nil" \/ (InRange(c, v) = v /\ v \in W)
              /\ InRange(c, v) = "nil" => v \notin W
      BY RangeFinds
    <2> HIDE DEF c, W
    <2> QED BY <1>1, <2>1, <2>2, Zenon
  <1>3. /\ s[1] = "nil" \/ (s[1] = "EMAIL_SMTP_HOST" /\ "EMAIL_SMTP_HOST" \in W)
        /\ s[2] = "nil" \/ (s[2] = "EMAIL_SMTP_HOST" /\ "EMAIL_SMTP_HOST" \in W)
        /\ s[1] = "nil" /\ s[2] = "nil" => "EMAIL_SMTP_HOST" \notin W
    <2>1. "EMAIL_SMTP_HOST" \in W <=>
              Given(env, "EMAIL_SMTP_HOST").text \notin Texts["EMAIL_SMTP_HOST"]
      BY WrongFacts DEF TextVars
    <2>2. Decides({NotEmpty(c, "EMAIL_SMTP_HOST"),
                   CleanText(c, "EMAIL_SMTP_HOST")},
                  "EMAIL_SMTP_HOST",
                  Given(env, "EMAIL_SMTP_HOST").text \in Texts["EMAIL_SMTP_HOST"])
      BY TextChecks
    <2> HIDE DEF c, W
    <2> QED BY <1>1, <2>1, <2>2 DEF Decides
  <1>4. /\ s[4] = "nil" \/ (s[4] = "EMAIL_FROM" /\ "EMAIL_FROM" \in W)
        /\ s[5] = "nil" \/ (s[5] = "EMAIL_FROM" /\ "EMAIL_FROM" \in W)
        /\ s[4] = "nil" /\ s[5] = "nil" => "EMAIL_FROM" \notin W
    <2>1. "EMAIL_FROM" \in W <=>
              Given(env, "EMAIL_FROM").text \notin Texts["EMAIL_FROM"]
      BY WrongFacts DEF TextVars
    <2>2. Decides({NotEmpty(c, "EMAIL_FROM"),
                   Check("EMAIL_FROM", IsAddress(c.EMAIL_FROM))},
                  "EMAIL_FROM",
                  Given(env, "EMAIL_FROM").text \in Texts["EMAIL_FROM"])
      BY TextChecks
    <2> HIDE DEF c, W
    <2> QED BY <1>1, <2>1, <2>2 DEF Decides
  <1>5. /\ s[6] = "nil" \/ (s[6] = "EMAIL_TO" /\ "EMAIL_TO" \in W)
        /\ s[7] = "nil" \/ (s[7] = "EMAIL_TO" /\ "EMAIL_TO" \in W)
        /\ s[6] = "nil" /\ s[7] = "nil" => "EMAIL_TO" \notin W
    <2> DEFINE list == Given(env, "EMAIL_TO")
               given == {i \in DOMAIN list : list[i].text # ""}
    <2>1. "EMAIL_TO" \in W <=> given = {} \/ \E i \in given : ~IsAddress(list[i])
      BY WrongFacts
    <2>2. Decides({Check("EMAIL_TO", c.EMAIL_TO # <<>>),
                   Check("EMAIL_TO", \A i \in DOMAIN c.EMAIL_TO :
                                         IsAddress(c.EMAIL_TO[i]))},
                  "EMAIL_TO",
                  ~(given = {} \/ \E i \in given : ~IsAddress(list[i])))
      BY RecipientChecks
    <2> HIDE DEF c, W, list, given
    <2> QED BY <1>1, <2>1, <2>2 DEF Decides
  <1>6. /\ s[8] = "nil" \/ (s[8] = "EMAIL_TLS_MODE" /\ "EMAIL_TLS_MODE" \in W)
        /\ s[8] = "nil" => "EMAIL_TLS_MODE" \notin W
    <2>1. "EMAIL_TLS_MODE" \in W <=>
              Given(env, "EMAIL_TLS_MODE").text \notin Texts["EMAIL_TLS_MODE"]
      BY WrongFacts DEF TextVars
    <2>2. Decides({OneOf(c, "EMAIL_TLS_MODE", TLSModes)},
                  "EMAIL_TLS_MODE",
                  Given(env, "EMAIL_TLS_MODE").text \in Texts["EMAIL_TLS_MODE"])
      BY TextChecks
    <2> HIDE DEF c, W
    <2> QED BY <1>1, <2>1, <2>2 DEF Decides
  <1>7. /\ s[9] = "nil" \/ (s[9] = "EMAIL_PASSWORD" /\ "EMAIL_PASSWORD" \in W)
        /\ s[9] = "nil" => "EMAIL_PASSWORD" \notin W
    <2>1. "EMAIL_PASSWORD" \in W <=>
              Given(env, "EMAIL_PASSWORD").text \notin Texts["EMAIL_PASSWORD"]
      BY WrongFacts DEF TextVars
    <2>2. Decides({CleanSecret(c, "EMAIL_PASSWORD")},
                  "EMAIL_PASSWORD",
                  Given(env, "EMAIL_PASSWORD").text \in Texts["EMAIL_PASSWORD"])
      BY TextChecks
    <2> HIDE DEF c, W
    <2> QED BY <1>1, <2>1, <2>2 DEF Decides
  <1>8. /\ s[10] = "nil" \/ (s[10] = "EMAIL_SUBJECT_PREFIX" /\ "EMAIL_SUBJECT_PREFIX" \in W)
        /\ s[10] = "nil" => "EMAIL_SUBJECT_PREFIX" \notin W
    <2>1. "EMAIL_SUBJECT_PREFIX" \in W <=>
              Given(env, "EMAIL_SUBJECT_PREFIX").text \notin Texts["EMAIL_SUBJECT_PREFIX"]
      BY WrongFacts DEF TextVars
    <2>2. Decides({CleanText(c, "EMAIL_SUBJECT_PREFIX")},
                  "EMAIL_SUBJECT_PREFIX",
                  Given(env, "EMAIL_SUBJECT_PREFIX").text \in Texts["EMAIL_SUBJECT_PREFIX"])
      BY TextChecks
    <2> HIDE DEF c, W
    <2> QED BY <1>1, <2>1, <2>2 DEF Decides
  <1>9. /\ s[11] = "nil" \/ (s[11] = "EMAIL_USERNAME" /\ "EMAIL_USERNAME" \in W)
        /\ s[12] = "nil" \/ (s[12] = "EMAIL_USERNAME" /\ "EMAIL_USERNAME" \in W)
        /\ s[11] = "nil" /\ s[12] = "nil" => "EMAIL_USERNAME" \notin W
    <2>1. "EMAIL_USERNAME" \in W <=>
              \/ Given(env, "EMAIL_USERNAME").text \notin Texts["EMAIL_USERNAME"]
              \/ (Given(env, "EMAIL_USERNAME").text = "")
                    # (Given(env, "EMAIL_PASSWORD").text = "")
      BY WrongFacts
    <2>3. Decides({Check("EMAIL_USERNAME", (c.EMAIL_USERNAME # S(""))
                                              = (c.EMAIL_PASSWORD # S("")))},
                  "EMAIL_USERNAME",
                  ~((Given(env, "EMAIL_USERNAME").text = "")
                       # (Given(env, "EMAIL_PASSWORD").text = "")))
      BY CrossChecks
    <2>2. Decides({CleanText(c, "EMAIL_USERNAME")},
                  "EMAIL_USERNAME",
                  Given(env, "EMAIL_USERNAME").text \in Texts["EMAIL_USERNAME"])
      BY TextChecks
    <2> HIDE DEF c, W
    <2> QED BY <1>1, <2>1, <2>2, <2>3 DEF Decides
  <1> HIDE DEF W
  <1>10. DOMAIN s = 1 .. 12
    BY <1>1
  <1>11. \A i \in DOMAIN s : i \in {1, 2, 3, 4, 5, 6, 7, 8, 9, 10, 11, 12}
    BY <1>10
  <1> DEFINE Apt(x) == x = "nil" \/ x \in W \cap EmailVars
  <1>12. /\ "EMAIL_SMTP_HOST" \in EmailVars /\ "EMAIL_SMTP_PORT" \in EmailVars
         /\ "EMAIL_FROM" \in EmailVars /\ "EMAIL_TO" \in EmailVars
         /\ "EMAIL_TLS_MODE" \in EmailVars /\ "EMAIL_PASSWORD" \in EmailVars
         /\ "EMAIL_SUBJECT_PREFIX" \in EmailVars /\ "EMAIL_USERNAME" \in EmailVars
    BY SMT DEF EmailVars
  <1>13. Apt(s[1]) /\ Apt(s[2]) /\ Apt(s[3]) /\ Apt(s[4]) /\ Apt(s[5])
    BY <1>2, <1>3, <1>4, <1>12
  <1>14. Apt(s[6]) /\ Apt(s[7]) /\ Apt(s[8]) /\ Apt(s[9]) /\ Apt(s[10])
    BY <1>5, <1>6, <1>7, <1>8, <1>12
  <1>15. Apt(s[11]) /\ Apt(s[12])
    BY <1>9, <1>12
  <1> HIDE DEF Apt
  <1>16. \A i \in DOMAIN s : Apt(s[i])
    BY <1>11, <1>13, <1>14, <1>15
  <1>17. (\A i \in DOMAIN s : s[i] = "nil") => W \cap EmailVars = {}
    BY <1>2, <1>3, <1>4, <1>5, <1>6, <1>7, <1>8, <1>9,
       <1>10, SMT DEF EmailVars
  <1> QED BY <1>16, <1>17 DEF Finds, Apt, W, s

LEMMA GeneralFinds ==
    ASSUME NEW env, IsEnvironment(env)
    PROVE  Finds(GeneralChecks(Configured(env)), env, GeneralVars)
  <1> DEFINE c == Configured(env)
             s == GeneralChecks(c)
             W == Wrong(env)
  <1>1. /\ DOMAIN s = 1 .. 15
        /\ s[1] = InRange(c, "PORT")
        /\ s[2] = OneOf(c, "LOG_LEVEL", LogLevels)
        /\ s[3] = OneOf(c, "DATABASE_DRIVER", DatabaseDrivers)
        /\ s[4] = NotEmpty(c, "DATABASE_DSN")
        /\ s[5] = CleanText(c, "DATABASE_DSN")
        /\ s[6] = InRange(c, "MAX_PAYLOAD_SIZE")
        /\ s[7] = InRange(c, "MAX_ALERTS_PER_PAYLOAD")
        /\ s[8] = InRange(c, "SHUTDOWN_TIMEOUT")
        /\ s[9] = InRange(c, "PRE_STOP_DELAY")
        /\ s[10] = InRange(c, "NOTIFY_POLL_INTERVAL")
        /\ s[11] = InRange(c, "NOTIFY_BATCH_SIZE")
        /\ s[12] = InRange(c, "NOTIFY_QUEUE_SIZE")
        /\ s[13] = InRange(c, "NOTIFY_SEND_TIMEOUT")
        /\ s[14] = Check("NOTIFY_QUEUE_SIZE",
                         c.NOTIFY_QUEUE_SIZE >= c.NOTIFY_BATCH_SIZE)
        /\ s[15] = Check("PRE_STOP_DELAY", c.PRE_STOP_DELAY = 0
                                       \/ c.PRE_STOP_DELAY < c.SHUTDOWN_TIMEOUT)
    BY DEF GeneralChecks
  <1> HIDE DEF s
  <1>2. /\ s[1] = "nil" \/ (s[1] = "PORT" /\ "PORT" \in W)
        /\ s[1] = "nil" => "PORT" \notin W
        /\ s[6] = "nil" \/ (s[6] = "MAX_PAYLOAD_SIZE" /\ "MAX_PAYLOAD_SIZE" \in W)
        /\ s[6] = "nil" => "MAX_PAYLOAD_SIZE" \notin W
        /\ s[7] = "nil" \/ (s[7] = "MAX_ALERTS_PER_PAYLOAD" /\ "MAX_ALERTS_PER_PAYLOAD" \in W)
        /\ s[7] = "nil" => "MAX_ALERTS_PER_PAYLOAD" \notin W
        /\ s[8] = "nil" \/ (s[8] = "SHUTDOWN_TIMEOUT" /\ "SHUTDOWN_TIMEOUT" \in W)
        /\ s[8] = "nil" => "SHUTDOWN_TIMEOUT" \notin W
        /\ s[10] = "nil" \/ (s[10] = "NOTIFY_POLL_INTERVAL" /\ "NOTIFY_POLL_INTERVAL" \in W)
        /\ s[10] = "nil" => "NOTIFY_POLL_INTERVAL" \notin W
        /\ s[11] = "nil" \/ (s[11] = "NOTIFY_BATCH_SIZE" /\ "NOTIFY_BATCH_SIZE" \in W)
        /\ s[11] = "nil" => "NOTIFY_BATCH_SIZE" \notin W
        /\ s[13] = "nil" \/ (s[13] = "NOTIFY_SEND_TIMEOUT" /\ "NOTIFY_SEND_TIMEOUT" \in W)
        /\ s[13] = "nil" => "NOTIFY_SEND_TIMEOUT" \notin W
    <2>1. {"PORT", "MAX_PAYLOAD_SIZE", "MAX_ALERTS_PER_PAYLOAD",
           "SHUTDOWN_TIMEOUT", "NOTIFY_POLL_INTERVAL", "NOTIFY_BATCH_SIZE",
           "NOTIFY_SEND_TIMEOUT"}
              \subseteq LimitVars \ {"NOTIFY_QUEUE_SIZE", "PRE_STOP_DELAY"}
      BY SMT DEF LimitVars
    <2>2. \A v \in LimitVars \ {"NOTIFY_QUEUE_SIZE", "PRE_STOP_DELAY"} :
              /\ InRange(c, v) = "nil" \/ (InRange(c, v) = v /\ v \in W)
              /\ InRange(c, v) = "nil" => v \notin W
      BY RangeFinds
    <2> HIDE DEF c, W
    <2> QED BY <1>1, <2>1, <2>2, Zenon
  <1>3. /\ s[2] = "nil" \/ (s[2] = "LOG_LEVEL" /\ "LOG_LEVEL" \in W)
        /\ s[2] = "nil" => "LOG_LEVEL" \notin W
    <2>1. "LOG_LEVEL" \in W <=>
              Given(env, "LOG_LEVEL").text \notin Texts["LOG_LEVEL"]
      BY WrongFacts DEF TextVars
    <2>2. Decides({OneOf(c, "LOG_LEVEL", LogLevels)},
                  "LOG_LEVEL",
                  Given(env, "LOG_LEVEL").text \in Texts["LOG_LEVEL"])
      BY TextChecks
    <2> HIDE DEF c, W
    <2> QED BY <1>1, <2>1, <2>2 DEF Decides
  <1>4. /\ s[3] = "nil" \/ (s[3] = "DATABASE_DRIVER" /\ "DATABASE_DRIVER" \in W)
        /\ s[3] = "nil" => "DATABASE_DRIVER" \notin W
    <2>1. "DATABASE_DRIVER" \in W <=>
              Given(env, "DATABASE_DRIVER").text \notin Texts["DATABASE_DRIVER"]
      BY WrongFacts DEF TextVars
    <2>2. Decides({OneOf(c, "DATABASE_DRIVER", DatabaseDrivers)},
                  "DATABASE_DRIVER",
                  Given(env, "DATABASE_DRIVER").text \in Texts["DATABASE_DRIVER"])
      BY TextChecks
    <2> HIDE DEF c, W
    <2> QED BY <1>1, <2>1, <2>2 DEF Decides
  <1>5. /\ s[4] = "nil" \/ (s[4] = "DATABASE_DSN" /\ "DATABASE_DSN" \in W)
        /\ s[5] = "nil" \/ (s[5] = "DATABASE_DSN" /\ "DATABASE_DSN" \in W)
        /\ s[4] = "nil" /\ s[5] = "nil" => "DATABASE_DSN" \notin W
    <2>1. "DATABASE_DSN" \in W <=>
              Given(env, "DATABASE_DSN").text \notin Texts["DATABASE_DSN"]
      BY WrongFacts DEF TextVars
    <2>2. Decides({NotEmpty(c, "DATABASE_DSN"),
                   CleanText(c, "DATABASE_DSN")},
                  "DATABASE_DSN",
                  Given(env, "DATABASE_DSN").text \in Texts["DATABASE_DSN"])
      BY TextChecks
    <2> HIDE DEF c, W
    <2> QED BY <1>1, <2>1, <2>2 DEF Decides
  <1>6. /\ s[9] = "nil" \/ (s[9] = "PRE_STOP_DELAY" /\ "PRE_STOP_DELAY" \in W)
        /\ s[15] = "nil" \/ (s[15] = "PRE_STOP_DELAY" /\ "PRE_STOP_DELAY" \in W)
        /\ s[9] = "nil" /\ s[15] = "nil" => "PRE_STOP_DELAY" \notin W
    <2>1. "PRE_STOP_DELAY" \in LimitVars
      BY SMT DEF LimitVars
    <2>2. InRange(c, "PRE_STOP_DELAY") =
              IF Given(env, "PRE_STOP_DELAY") \in
                     Limits["PRE_STOP_DELAY"][1] .. Limits["PRE_STOP_DELAY"][2]
              THEN "nil" ELSE "PRE_STOP_DELAY"
      BY <2>1, RangeFacts
    <2>3. "PRE_STOP_DELAY" \in W <=>
              \/ Given(env, "PRE_STOP_DELAY") \notin
                  Limits["PRE_STOP_DELAY"][1] .. Limits["PRE_STOP_DELAY"][2]
              \/ /\ Given(env, "PRE_STOP_DELAY") > 0
                 /\ Given(env, "SHUTDOWN_TIMEOUT") <= Given(env, "PRE_STOP_DELAY")
      BY WrongFacts
    <2>4. Given(env, "PRE_STOP_DELAY") >= 0 =>
          Decides({Check("PRE_STOP_DELAY", c.PRE_STOP_DELAY = 0
                              \/ c.PRE_STOP_DELAY < c.SHUTDOWN_TIMEOUT)},
                  "PRE_STOP_DELAY",
                  ~(/\ Given(env, "PRE_STOP_DELAY") > 0
                    /\ Given(env, "SHUTDOWN_TIMEOUT") <= Given(env, "PRE_STOP_DELAY")))
      BY CrossChecks
    <2>5. Given(env, "PRE_STOP_DELAY") \notin
              Limits["PRE_STOP_DELAY"][1] .. Limits["PRE_STOP_DELAY"][2]
          \/ Given(env, "PRE_STOP_DELAY") >= 0
      BY SMT DEF Limits
    <2>6. Check("PRE_STOP_DELAY", c.PRE_STOP_DELAY = 0
                    \/ c.PRE_STOP_DELAY < c.SHUTDOWN_TIMEOUT)
              \in {"nil", "PRE_STOP_DELAY"}
      BY DEF Check
    <2> HIDE DEF c, W
    <2> QED BY <1>1, <2>2, <2>3, <2>4, <2>5, <2>6, SMT DEF Decides
  <1>7. /\ s[12] = "nil" \/ (s[12] = "NOTIFY_QUEUE_SIZE" /\ "NOTIFY_QUEUE_SIZE" \in W)
        /\ s[14] = "nil" \/ (s[14] = "NOTIFY_QUEUE_SIZE" /\ "NOTIFY_QUEUE_SIZE" \in W)
        /\ s[12] = "nil" /\ s[14] = "nil" => "NOTIFY_QUEUE_SIZE" \notin W
    <2>1. "NOTIFY_QUEUE_SIZE" \in LimitVars
      BY SMT DEF LimitVars
    <2>2. InRange(c, "NOTIFY_QUEUE_SIZE") =
              IF Given(env, "NOTIFY_QUEUE_SIZE") \in
                     Limits["NOTIFY_QUEUE_SIZE"][1] .. Limits["NOTIFY_QUEUE_SIZE"][2]
              THEN "nil" ELSE "NOTIFY_QUEUE_SIZE"
      BY <2>1, RangeFacts
    <2>3. "NOTIFY_QUEUE_SIZE" \in W <=>
              \/ Given(env, "NOTIFY_QUEUE_SIZE") \notin
                  Limits["NOTIFY_QUEUE_SIZE"][1] .. Limits["NOTIFY_QUEUE_SIZE"][2]
              \/ Given(env, "NOTIFY_QUEUE_SIZE") < Given(env, "NOTIFY_BATCH_SIZE")
      BY WrongFacts
    <2>4. Decides({Check("NOTIFY_QUEUE_SIZE",
                         c.NOTIFY_QUEUE_SIZE >= c.NOTIFY_BATCH_SIZE)},
                  "NOTIFY_QUEUE_SIZE",
                  ~(Given(env, "NOTIFY_QUEUE_SIZE") < Given(env, "NOTIFY_BATCH_SIZE")))
      BY CrossChecks
    <2> HIDE DEF c, W
    <2> QED BY <1>1, <2>2, <2>3, <2>4, SMT DEF Decides
  <1> HIDE DEF W
  <1>8. DOMAIN s = 1 .. 15
    BY <1>1
  <1>9. \A i \in DOMAIN s : i \in {1, 2, 3, 4, 5, 6, 7, 8, 9, 10, 11, 12, 13, 14, 15}
    BY <1>8
  <1> DEFINE Apt(x) == x = "nil" \/ x \in W \cap GeneralVars
  <1>10. /\ "PORT" \in GeneralVars /\ "LOG_LEVEL" \in GeneralVars
         /\ "DATABASE_DRIVER" \in GeneralVars /\ "DATABASE_DSN" \in GeneralVars
         /\ "MAX_PAYLOAD_SIZE" \in GeneralVars /\ "MAX_ALERTS_PER_PAYLOAD" \in GeneralVars
         /\ "SHUTDOWN_TIMEOUT" \in GeneralVars /\ "PRE_STOP_DELAY" \in GeneralVars
         /\ "NOTIFY_POLL_INTERVAL" \in GeneralVars /\ "NOTIFY_BATCH_SIZE" \in GeneralVars
         /\ "NOTIFY_QUEUE_SIZE" \in GeneralVars /\ "NOTIFY_SEND_TIMEOUT" \in GeneralVars
    BY SMT DEF GeneralVars
  <1>11. Apt(s[1]) /\ Apt(s[2]) /\ Apt(s[3]) /\ Apt(s[4]) /\ Apt(s[5])
    BY <1>2, <1>3, <1>4, <1>5, <1>10
  <1>12. Apt(s[6]) /\ Apt(s[7]) /\ Apt(s[8]) /\ Apt(s[9]) /\ Apt(s[10])
    BY <1>2, <1>6, <1>10
  <1>13. Apt(s[11]) /\ Apt(s[12]) /\ Apt(s[13]) /\ Apt(s[14]) /\ Apt(s[15])
    BY <1>2, <1>6, <1>7, <1>10
  <1> HIDE DEF Apt
  <1>14. \A i \in DOMAIN s : Apt(s[i])
    BY <1>9, <1>11, <1>12, <1>13
  <1>15. (\A i \in DOMAIN s : s[i] = "nil") => W \cap GeneralVars = {}
    BY <1>2, <1>3, <1>4, <1>5, <1>6, <1>7,
       <1>8, SMT DEF GeneralVars
  <1> QED BY <1>14, <1>15 DEF Finds, Apt, W, s

\* Two lists of checks, one after the other.
LEMMA FindsBoth ==
    ASSUME NEW env, NEW T, NEW s \in Seq(T), NEW t \in Seq(T), NEW A, NEW B,
           Finds(s, env, A), Finds(t, env, B)
    PROVE  s \o t \in Seq(T) /\ Finds(s \o t, env, A \cup B)
  <1> DEFINE st == s \o t
  <1>1. /\ Len(s) \in Nat /\ Len(t) \in Nat
        /\ DOMAIN s = 1 .. Len(s) /\ DOMAIN t = 1 .. Len(t)
        /\ st \in Seq(T) /\ DOMAIN st = 1 .. Len(s) + Len(t)
        /\ \A i \in 1 .. Len(s) : st[i] = s[i]
        /\ \A i \in 1 .. Len(t) : st[Len(s) + i] = t[i]
    OBVIOUS
  <1> HIDE DEF st
  <1>2. \A i \in DOMAIN st : \/ i \in DOMAIN s /\ st[i] = s[i]
                             \/ i - Len(s) \in DOMAIN t /\ st[i] = t[i - Len(s)]
    <2> SUFFICES ASSUME NEW i \in DOMAIN st
                 PROVE  \/ i \in DOMAIN s /\ st[i] = s[i]
                        \/ i - Len(s) \in DOMAIN t /\ st[i] = t[i - Len(s)]
      OBVIOUS
    <2>1. CASE i <= Len(s)
      BY <1>1, <2>1
    <2>2. CASE ~(i <= Len(s))
      <3>1. i - Len(s) \in 1 .. Len(t) /\ i = Len(s) + (i - Len(s))
        BY <1>1, <2>2
      <3> QED BY <1>1, <3>1
    <2> QED BY <2>1, <2>2
  <1>3. /\ \A i \in DOMAIN s : i \in DOMAIN st /\ st[i] = s[i]
        /\ \A i \in DOMAIN t : Len(s) + i \in DOMAIN st /\ st[Len(s) + i] = t[i]
    BY <1>1
  <1>4. \A i \in DOMAIN st : st[i] = "nil" \/ st[i] \in Wrong(env) \cap (A \cup B)
    BY <1>2 DEF Finds
  <1>5. (\A i \in DOMAIN st : st[i] = "nil") => Wrong(env) \cap (A \cup B) = {}
    BY <1>3 DEF Finds
  <1> QED BY <1>1, <1>4, <1>5 DEF Finds, st

\* The lists of checks are sequences.
LEMMA ChecksAreLists ==
    ASSUME NEW c
    PROVE  \E T : /\ GeneralChecks(c) \in Seq(T) /\ validatePachca(c) \in Seq(T)
                  /\ validateEmail(c) \in Seq(T)
                  /\ <<CleanText(c, "TEMPLATE_DIR")>> \in Seq(T)
  <1> DEFINE g == GeneralChecks(c)
             p == validatePachca(c)
             e == validateEmail(c)
             x == CleanText(c, "TEMPLATE_DIR")
             T == {g[i] : i \in 1 .. 15} \cup {p[i] : i \in 1 .. 5}
                  \cup {e[i] : i \in 1 .. 12} \cup {x}
  <1>1. g = [i \in 1 .. 15 |-> g[i]]
    BY DEF GeneralChecks
  <1>2. p = [i \in 1 .. 5 |-> p[i]]
    BY DEF validatePachca
  <1>3. e = [i \in 1 .. 12 |-> e[i]]
    BY DEF validateEmail
  <1> HIDE DEF g, p, e, x
  <1>4. ASSUME NEW n \in Nat, NEW s, s = [i \in 1 .. n |-> s[i]],
               \A i \in 1 .. n : s[i] \in T
        PROVE  s \in Seq(T)
    <2> HIDE DEF T
    <2> QED BY <1>4
  <1>5. g \in Seq(T) /\ p \in Seq(T) /\ e \in Seq(T)
    <2>1. /\ \A i \in 1 .. 15 : g[i] \in T
          /\ \A i \in 1 .. 5 : p[i] \in T
          /\ \A i \in 1 .. 12 : e[i] \in T
      OBVIOUS
    <2>2. 15 \in Nat /\ 5 \in Nat /\ 12 \in Nat
      OBVIOUS
    <2> HIDE DEF T
    <2> QED BY <1>1, <1>2, <1>3, <1>4, <2>1, <2>2, Zenon
  <1>6. <<x>> \in Seq(T)
    <2>1. x \in T
      OBVIOUS
    <2> HIDE DEF T
    <2> QED BY <2>1
  <1> QED BY <1>5, <1>6 DEF g, p, e, x

LEMMA ValidateFinds ==
    ASSUME NEW env, IsEnvironment(env)
    PROVE  LET V == GeneralVars \cup (IF PachcaEnabled(env) THEN PachcaVars ELSE {})
                        \cup (IF EmailEnabled(env) THEN EmailVars ELSE {})
                        \cup {"TEMPLATE_DIR"}
               err == validate(env, Configured(env))
           IN  \/ err = "nil" /\ Wrong(env) \cap V = {}
               \/ err # "nil" /\ err \in Wrong(env) \cap V
  <1> DEFINE c == Configured(env)
             g == GeneralChecks(c)
             p == IF PachcaEnabled(env) THEN validatePachca(c) ELSE <<>>
             P == IF PachcaEnabled(env) THEN PachcaVars ELSE {}
             e == IF EmailEnabled(env) THEN validateEmail(c) ELSE <<>>
             E == IF EmailEnabled(env) THEN EmailVars ELSE {}
             t == <<CleanText(c, "TEMPLATE_DIR")>>
  <1>1. PICK T : /\ g \in Seq(T) /\ validatePachca(c) \in Seq(T)
                 /\ validateEmail(c) \in Seq(T) /\ t \in Seq(T)
    BY ChecksAreLists
  <1>2. p \in Seq(T) /\ e \in Seq(T)
    BY <1>1
  <1>3. Finds(<<>>, env, {})
    BY DEF Finds
  <1>4. Finds(g, env, GeneralVars)
    BY GeneralFinds
  <1>5. Finds(p, env, P) /\ Finds(e, env, E)
    BY <1>3, PachcaFinds, EmailFinds
  <1>6. Finds(t, env, {"TEMPLATE_DIR"})
    <2>1. "TEMPLATE_DIR" \in Wrong(env) <=>
              Given(env, "TEMPLATE_DIR").text \notin Texts["TEMPLATE_DIR"]
      BY WrongFacts DEF TextVars
    <2>2. Decides({CleanText(c, "TEMPLATE_DIR")}, "TEMPLATE_DIR",
                  Given(env, "TEMPLATE_DIR").text \in Texts["TEMPLATE_DIR"])
      BY TextChecks
    <2>3. DOMAIN t = {1} /\ t[1] = CleanText(c, "TEMPLATE_DIR")
      OBVIOUS
    <2> HIDE DEF c, t
    <2> QED BY <2>1, <2>2, <2>3 DEF Decides, Finds
  <1>7. validate(env, c) = FirstError(g \o p \o e \o t)
    BY DEF validate, GeneralChecks
  <1> HIDE DEF c, g, p, P, e, E, t
  <1>8. /\ g \o p \o e \o t \in Seq(T)
        /\ Finds(g \o p \o e \o t, env, GeneralVars \cup P \cup E \cup {"TEMPLATE_DIR"})
    <2>1. g \o p \in Seq(T) /\ Finds(g \o p, env, GeneralVars \cup P)
      BY <1>1, <1>2, <1>4, <1>5, FindsBoth
    <2>2. g \o p \o e \in Seq(T) /\ Finds(g \o p \o e, env, GeneralVars \cup P \cup E)
      BY <1>2, <1>5, <2>1, FindsBoth
    <2> QED BY <1>1, <1>6, <2>2, FindsBoth
  <1> DEFINE all == g \o p \o e \o t
  <1>9. DOMAIN all \subseteq Nat
    <2>1. all \in Seq(T)
      BY <1>8
    <2> HIDE DEF all
    <2> QED BY <2>1
  <1>10. LET V == GeneralVars \cup P \cup E \cup {"TEMPLATE_DIR"}
             err == FirstError(all)
         IN  \/ err = "nil" /\ Wrong(env) \cap V = {}
             \/ err # "nil" /\ err \in Wrong(env) \cap V
    <2>1. Finds(all, env, GeneralVars \cup P \cup E \cup {"TEMPLATE_DIR"})
      BY <1>8
    <2> HIDE DEF all
    <2> QED BY <1>9, <2>1, FirstErrorCases DEF Finds
  <1> QED BY <1>7, <1>10, Zenon DEF c, P, E

\* The variables that matter in an environment.
Matters(env) ==
    GeneralVars \cup (IF PachcaEnabled(env) THEN PachcaVars ELSE {})
        \cup (IF EmailEnabled(env) THEN EmailVars ELSE {}) \cup {"TEMPLATE_DIR"}

\* What is wrong with an environment is what does not parse, and what is wrong
\* among the variables that matter.
LEMMA DefectsAre ==
    ASSUME NEW env
    PROVE  Defects(env) = env.unparsable \cup (Wrong(env) \cap Matters(env))
  <1> DEFINE off == {x \in {"pachca", "email"} :
                        IF x = "pachca" THEN ~PachcaEnabled(env)
                        ELSE ~EmailEnabled(env)}
             away == UNION {ChannelVars[ch] : ch \in off}
             all == LimitVars \cup TextVars \cup {"EMAIL_TO"}
  <1>1. Defects(env) = env.unparsable \cup (Wrong(env) \cap (Var \ away))
    BY Zenon DEF Defects, Wrong, Given
  <1>2. ChannelVars["pachca"] = PachcaVars /\ ChannelVars["email"] = EmailVars
    BY SMT DEF ChannelVars, PachcaVars, EmailVars
  <1>3. \A v : v \in away <=> \/ v \in PachcaVars /\ ~PachcaEnabled(env)
                              \/ v \in EmailVars /\ ~EmailEnabled(env)
    <2>1. "pachca" # "email"
      OBVIOUS
    <2> QED BY <1>2, <2>1, Zenon
  <1>4. /\ all = GeneralVars \cup PachcaVars \cup EmailVars \cup {"TEMPLATE_DIR"}
        /\ PachcaVars \cap EmailVars = {}
        /\ (GeneralVars \cup {"TEMPLATE_DIR"}) \cap (PachcaVars \cup EmailVars) = {}
    BY SMT DEF LimitVars, TextVars, GeneralVars, PachcaVars, EmailVars
  <1>5. Wrong(env) \subseteq all /\ all \subseteq Var
    BY WrongFacts, VarFacts
  <1> HIDE DEF away, all
  <1>6. \A v \in all : v \notin away <=> v \in Matters(env)
    BY <1>3, <1>4 DEF Matters
  <1> QED BY <1>1, <1>5, <1>6

\* config.Load for every environment: it returns no error exactly if nothing
\* is wrong, and an error names a variable that is wrong.
THEOREM LoadAcceptsExactly ==
    ASSUME NEW env, IsEnvironment(env)
    PROVE  IF Defects(env) = {} THEN Load(env) = "nil"
           ELSE Load(env) # "nil" /\ Load(env) \in Defects(env)
  <1> DEFINE bad == env.unparsable
             checks == [i \in DOMAIN Parsed |-> Check(Parsed[i], Parsed[i] \notin bad)]
             parse == FirstError(checks)
             err == validate(env, Configured(env))
  <1>1. bad \subseteq {Parsed[i] : i \in DOMAIN Parsed}
    BY DEF IsEnvironment
  <1>2. DOMAIN checks = DOMAIN Parsed /\ DOMAIN Parsed = 1 .. 12
    BY DEF Parsed
  <1>3. \A i \in DOMAIN Parsed : Parsed[i] # "nil"
    BY DEF Parsed
  <1>4. \A i \in DOMAIN Parsed : checks[i] = IF Parsed[i] \in bad THEN Parsed[i] ELSE "nil"
    BY DEF Check
  <1>5. Load(env) = IF parse # "nil" THEN parse ELSE err
    BY DEF Load
  <1>6. \/ err = "nil" /\ Wrong(env) \cap Matters(env) = {}
        \/ err # "nil" /\ err \in Wrong(env) \cap Matters(env)
    BY ValidateFinds DEF Matters
  <1>7. Defects(env) = bad \cup (Wrong(env) \cap Matters(env))
    BY DefectsAre
  <1> HIDE DEF bad, checks, err
  <1>8. \/ parse = "nil" /\ \A i \in DOMAIN checks : checks[i] = "nil"
        \/ parse # "nil" /\ \E i \in DOMAIN checks : parse = checks[i]
    <2>1. DOMAIN checks \subseteq Nat
      BY <1>2
    <2> QED BY <2>1, FirstErrorCases
  <1> HIDE DEF parse
  <1>9. \/ parse = "nil" /\ bad = {}
        \/ parse # "nil" /\ parse \in bad
    BY <1>1, <1>2, <1>3, <1>4, <1>8, Zenon
  <1> QED BY <1>5, <1>6, <1>7, <1>9

\* An environment, field by field.
LEMMA EnvironmentIs ==
    ASSUME NEW s \in SUBSET Var, NEW f, f = [v \in Var |-> f[v]],
           \A v \in Var : f[v] \in Values(v),
           NEW u \in SUBSET {Parsed[i] : i \in DOMAIN Parsed}
    PROVE  IsEnvironment([set |-> s, value |-> f, unparsable |-> u])
  <1> DEFINE e == [set |-> s, value |-> f, unparsable |-> u]
  <1>1. e.value = f
    OBVIOUS
  <1>2. e \in [set : SUBSET Var, value : {f},
               unparsable : SUBSET {Parsed[i] : i \in DOMAIN Parsed}]
    <2> DEFINE P == {Parsed[i] : i \in DOMAIN Parsed}
    <2>1. u \in SUBSET P
      OBVIOUS
    <2> HIDE DEF P
    <2>2. e \in [set : SUBSET Var, value : {f}, unparsable : SUBSET P]
      BY <2>1
    <2> QED BY <2>2 DEF P
  <1> HIDE DEF e
  <1>3. IsEnvironment(e)
    BY <1>1, <1>2 DEF IsEnvironment
  <1> QED BY <1>3 DEF e

\* An environment stays one when a variable of it is changed.
LEMMA ChangedIsEnvironment ==
    ASSUME NEW env, IsEnvironment(env), NEW e \in Changed(env)
    PROVE  IsEnvironment(e)
  <1> DEFINE P == {Parsed[i] : i \in DOMAIN Parsed}
             R == [set : SUBSET Var, value : {env.value}, unparsable : SUBSET P]
  <1>1. /\ env \in R
        /\ env.value = [v \in Var |-> env.value[v]]
        /\ \A v \in Var : env.value[v] \in Values(v)
    BY DEF IsEnvironment
  <1>2. /\ env = [set |-> env.set, value |-> env.value, unparsable |-> env.unparsable]
        /\ env.set \in SUBSET Var /\ env.unparsable \in SUBSET P
    <2> HIDE DEF P
    <2> QED BY <1>1
  <1>3. P \subseteq Var
    <2>1. P \subseteq LimitVars \cup {"TEMPLATE_RELOAD"}
      BY DEF Parsed, LimitVars
    <2> QED BY <2>1, VarFacts
  <1>4. CASE \E v \in Var : e = [env EXCEPT !.set = @ \ {v}, !.unparsable = @ \ {v}]
    <2>1. PICK v \in Var : e = [env EXCEPT !.set = @ \ {v}, !.unparsable = @ \ {v}]
      BY <1>4
    <2> HIDE DEF P
    <2>2. e = [set |-> env.set \ {v}, value |-> env.value,
               unparsable |-> env.unparsable \ {v}]
      BY <1>2, <2>1
    <2>3. env.set \ {v} \in SUBSET Var /\ env.unparsable \ {v} \in SUBSET P
      BY <1>2
    <2> QED BY <1>1, <2>2, <2>3, EnvironmentIs, Zenon DEF P
  <1>5. CASE \E i \in DOMAIN Parsed :
                 e = [env EXCEPT !.set = @ \cup {Parsed[i]},
                                 !.unparsable = @ \cup {Parsed[i]}]
    <2>1. PICK i \in DOMAIN Parsed :
                 e = [env EXCEPT !.set = @ \cup {Parsed[i]},
                                 !.unparsable = @ \cup {Parsed[i]}]
      BY <1>5
    <2>2. Parsed[i] \in P
      OBVIOUS
    <2> HIDE DEF P
    <2>3. e = [set |-> env.set \cup {Parsed[i]}, value |-> env.value,
               unparsable |-> env.unparsable \cup {Parsed[i]}]
      BY <1>2, <2>1
    <2>4. /\ env.set \cup {Parsed[i]} \in SUBSET Var
          /\ env.unparsable \cup {Parsed[i]} \in SUBSET P
      BY <1>2, <1>3, <2>2
    <2> QED BY <1>1, <2>3, <2>4, EnvironmentIs, Zenon DEF P
  <1>6. CASE \E v \in Var : \E x \in Others[v] :
                 e = [env EXCEPT !.set = @ \cup {v}, !.unparsable = @ \ {v},
                                 !.value[v] = x]
    <2>1. PICK v \in Var :
              \E x \in Others[v] :
                 e = [env EXCEPT !.set = @ \cup {v}, !.unparsable = @ \ {v},
                                 !.value[v] = x]
      BY <1>6
    <2>2. PICK x \in Others[v] :
                 e = [env EXCEPT !.set = @ \cup {v}, !.unparsable = @ \ {v},
                                 !.value[v] = x]
      BY <2>1
    <2> DEFINE f == [env.value EXCEPT ![v] = x]
    <2> HIDE DEF P
    <2>3. e = [set |-> env.set \cup {v}, value |-> f,
               unparsable |-> env.unparsable \ {v}]
      BY <1>2, <2>2
    <2>4. env.set \cup {v} \in SUBSET Var /\ env.unparsable \ {v} \in SUBSET P
      BY <1>2
    <2>5. x \in Values(v)
      BY ChannelsAssumption
    <2>6. /\ f = [w \in Var |-> f[w]]
          /\ \A w \in Var : f[w] = IF w = v THEN x ELSE env.value[w]
      BY <1>1
    <2> HIDE DEF f
    <2>7. \A w \in Var : f[w] \in Values(w)
      BY <1>1, <2>5, <2>6, Zenon
    <2> QED BY <2>3, <2>4, <2>6, <2>7, EnvironmentIs, Zenon DEF P
  <1> QED BY <1>4, <1>5, <1>6, Zenon DEF Changed

\* The process is started in an environment, and has it until it loads it.
BootInv == boot = <<>> \/ \E e : IsEnvironment(e) /\ boot = <<e>>

LEMMA BootInit == Init => BootInv
  <1> SUFFICES ASSUME Init PROVE BootInv
    OBVIOUS
  <1>1. PICK e1 \in {Base} \cup Changed(Base) :
            \E e2 \in {e1} \cup Changed(e1) : boot = <<e2>>
    BY Zenon DEF Init
  <1>2. PICK e2 \in {e1} \cup Changed(e1) : boot = <<e2>>
    BY <1>1, Zenon
  <1>3. IsEnvironment(e1)
    BY ChannelsAssumption, ChangedIsEnvironment, Zenon
  <1>4. IsEnvironment(e2)
    BY <1>2, <1>3, ChangedIsEnvironment, Zenon
  <1> QED BY <1>2, <1>4 DEF BootInv

LEMMA BootNext == BootInv /\ [Next]_vars => BootInv'
  <1> SUFFICES ASSUME BootInv, [Next]_vars PROVE boot' = <<>> \/ boot' = boot
    BY DEF BootInv
  <1> QED BY DEF Next, Boot, EmailStep, PachcaStep, vars

\* In every environment that the process is started in, and not only in those
\* of a small instance, Load accepts what has no defect and nothing else.
THEOREM LoadExactness == Spec => []LoadIsExact
  <1>1. Init => BootInv
    BY BootInit
  <1>2. BootInv /\ [Next]_vars => BootInv'
    BY BootNext
  <1>3. BootInv => LoadIsExact
    <2> SUFFICES ASSUME BootInv, boot # <<>>
                 PROVE  LET err == Load(boot[1])
                        IN  IF Defects(boot[1]) = {} THEN err = "nil"
                            ELSE err \in Defects(boot[1])
      BY DEF LoadIsExact
    <2>1. PICK e : IsEnvironment(e) /\ boot = <<e>>
      BY DEF BootInv
    <2>2. boot[1] = e
      BY <2>1
    <2> QED BY <2>1, <2>2, LoadAcceptsExactly, Zenon
  <1> QED BY <1>1, <1>2, <1>3, PTL DEF Spec

\* The settings that the sender is built with.
Settings ==
    [tlsMode : TLSModes, auth : BOOLEAN, local : BOOLEAN,
     from : {"bare", "named"}, to : Seq({"bare", "named"})]

\* What Load accepts is a known TLS mode, a sender and at least one recipient,
\* every one of them an address.
LEMMA AcceptedSettings ==
    ASSUME NEW env, IsEnvironment(env), Load(env) = "nil", EmailEnabled(env)
    PROVE  /\ EmailSettings(Configured(env)) \in Settings
           /\ EmailSettings(Configured(env)).to # <<>>
  <1> DEFINE c == Configured(env)
             list == Given(env, "EMAIL_TO")
             to == c.EMAIL_TO
  <1>1. Wrong(env) \cap EmailVars = {}
    <2>1. Defects(env) = {}
      BY LoadAcceptsExactly
    <2>2. Wrong(env) \cap Matters(env) = {}
      BY <2>1, DefectsAre
    <2> QED BY <2>2 DEF Matters
  <1>2. /\ "EMAIL_TLS_MODE" \notin Wrong(env) /\ "EMAIL_FROM" \notin Wrong(env)
        /\ "EMAIL_TO" \notin Wrong(env)
    BY <1>1, SMT DEF EmailVars
  <1>3. c.EMAIL_TLS_MODE.text \in TLSModes
    <2> DEFINE t == Given(env, "EMAIL_TLS_MODE").text
    <2>1. t \in Texts["EMAIL_TLS_MODE"]
      <3>1. "EMAIL_TLS_MODE" \in TextVars \ {"EMAIL_USERNAME"}
        BY SMT DEF TextVars
      <3> QED BY <1>2, <3>1, WrongFacts, Zenon
    <2>2. Texts["EMAIL_TLS_MODE"] = TLSModes \cup {"STARTTLS"}
      BY SMT DEF Texts
    <2>3. c["EMAIL_TLS_MODE"] = ToLower(S(t))
      BY ConfiguredFacts
    <2> HIDE DEF t, c
    <2>4. c["EMAIL_TLS_MODE"].text \in TLSModes
      BY <2>1, <2>2, <2>3, SMT DEF ToLower, S, TLSModes
    <2> QED BY <2>4
  <1>4. c.EMAIL_FROM.text \in {"bare", "named"}
    <2> DEFINE t == Given(env, "EMAIL_FROM").text
    <2>1. t \in Texts["EMAIL_FROM"]
      <3>1. "EMAIL_FROM" \in TextVars \ {"EMAIL_USERNAME"}
        BY SMT DEF TextVars
      <3> QED BY <1>2, <3>1, WrongFacts, Zenon
    <2>2. Texts["EMAIL_FROM"] = {"bare", "named"}
      BY SMT DEF Texts
    <2>3. c["EMAIL_FROM"] = S(t)
      <3>1. "EMAIL_FROM" \in TrimmedVars
        BY SMT DEF TrimmedVars
      <3> QED BY <3>1, ConfiguredFacts
    <2> HIDE DEF t, c
    <2>4. c["EMAIL_FROM"].text \in {"bare", "named"}
      BY <2>1, <2>2, <2>3, TrimmedFacts
    <2> QED BY <2>4
  <1>5. to = Recipients(list) /\ list \in Seq(Address)
    BY ConfiguredFacts, GivenFacts
  <1>6. Keeps(list, Len(list), to)
    BY <1>5, RecipientsFacts
  <1>7. /\ \E i \in DOMAIN list : list[i].text # ""
        /\ \A i \in DOMAIN list : list[i].text # "" => list[i].text \in {"bare", "named"}
    BY <1>2, WrongFacts, Zenon DEF IsAddress
  <1>8. DOMAIN list = 1 .. Len(list)
    BY <1>5
  <1> HIDE DEF c, list, to
  <1>9. to \in Seq(Address) /\ to # <<>>
    <2>1. to \in Seq(Address) /\ \E k : k \in DOMAIN to
      BY <1>6, <1>7, <1>8, Zenon DEF Keeps
    <2>2. DOMAIN <<>> = {}
      OBVIOUS
    <2> QED BY <2>1, <2>2, Zenon
  <1>10. \A k \in DOMAIN to : to[k].text \in {"bare", "named"}
    <2> SUFFICES ASSUME NEW k \in DOMAIN to PROVE to[k].text \in {"bare", "named"}
      OBVIOUS
    <2>1. PICK j \in 1 .. Len(list) : list[j].text # "" /\ to[k] = Trim(list[j])
      BY <1>6 DEF Keeps
    <2>2. to[k].text = list[j].text
      BY <2>1, TrimmedFacts DEF Trim
    <2> QED BY <1>7, <1>8, <2>1, <2>2
  <1> DEFINE kinds == [i \in DOMAIN to |-> to[i].text]
  <1>11. kinds \in Seq({"bare", "named"}) /\ kinds # <<>>
    <2>1. Len(to) \in Nat /\ DOMAIN to = 1 .. Len(to) /\ Len(to) # 0
      BY <1>9
    <2>2. kinds \in [1 .. Len(to) -> {"bare", "named"}]
      BY <1>10, <2>1
    <2> HIDE DEF kinds
    <2>3. kinds \in Seq({"bare", "named"}) /\ Len(kinds) = Len(to)
      BY <2>1, <2>2
    <2> QED BY <2>1, <2>3
  <1> HIDE DEF kinds
  <1> DEFINE auth == c.EMAIL_USERNAME.text # "" /\ c.EMAIL_PASSWORD.text # ""
             local == c.EMAIL_SMTP_HOST.text = "localhost"
  <1>12. auth \in BOOLEAN /\ local \in BOOLEAN
    OBVIOUS
  <1>13. EmailSettings(c) = [tlsMode |-> c.EMAIL_TLS_MODE.text, auth |-> auth,
                             local |-> local, from |-> c.EMAIL_FROM.text, to |-> kinds]
    BY DEF EmailSettings, kinds, to
  <1> HIDE DEF auth, local
  <1>14. EmailSettings(c) \in Settings /\ EmailSettings(c).to # <<>>
    BY <1>3, <1>4, <1>11, <1>12, <1>13 DEF Settings
  <1> QED BY <1>14 DEF c

-----------------------------------------------------------------------------
(* The email channel                                                       *)

\* The commands before MAIL, the position of a recipient's RCPT after them
\* being the recipient's own plus one, and all commands.
Before(c) ==
    2 + (IF c.tlsMode = "starttls" THEN 1 ELSE 0) + (IF c.auth THEN 1 ELSE 0)

All(c) == Before(c) + Len(c.to) + 4

\* The number of commands of the call that have been accepted.
Done == All(cfg) - Len(etodo)

\* What has been built: nothing before the environment is loaded, and an email
\* channel only with recipients.
BuiltInv ==
    /\ boot # <<>> => channels = {}
    /\ cfg \in Settings
    /\ "email" \in channels => cfg.to # <<>>
    /\ "email" \notin channels =>
           /\ etry = 0 /\ etodo = <<>> /\ einbox = {}
           /\ eres = [a \in 1 .. Attempts |-> "none"]
           /\ egot = [a \in 1 .. Attempts |-> {}]

\* Where the call is in its dialogue, and what the commands that the server has
\* accepted say of the connection and of the settings.
DialogueInv ==
    /\ Len(etodo) <= All(cfg)
    /\ \A i \in 1 .. Len(etodo) : etodo[i] = Email!Dialogue(cfg)[Done + i]
    /\ enc <=> /\ etodo # <<>>
               /\ \/ cfg.tlsMode = "tls" /\ Done >= 1
                  \/ cfg.tlsMode = "starttls" /\ Done >= 3
    /\ rcpts = {i \in DOMAIN cfg.to : etodo # <<>> /\ Before(cfg) + i < Done}
    /\ etodo # <<>> =>
           /\ etry > 0 /\ eres[etry] = "none"
           /\ cfg.auth /\ Done >= Before(cfg) => cfg.tlsMode # "none" \/ cfg.local
           /\ Done > Before(cfg) => cfg.from = "bare"
           /\ \A i \in DOMAIN cfg.to : Before(cfg) + i < Done => cfg.to[i] = "bare"

\* Where the message of a call is: with the server only when the call is at its
\* end or has returned, and with all recipients or none.
MessageInv ==
    /\ \A a \in 1 .. Attempts :
           /\ egot[a] \in {{}, DOMAIN cfg.to}
           /\ a > etry => egot[a] = {} /\ eres[a] = "none"
           /\ eres[a] = "nil" => egot[a] # {}
           /\ a = etry /\ etodo # <<>> /\ Len(etodo) # 1 => egot[a] = {}
    /\ \A m \in einbox :
           /\ m.to = DOMAIN cfg.to /\ egot[m.try] = {} /\ eres[m.try] # "nil"
           /\ m.try = etry /\ etodo # <<>> => Len(etodo) = 1

EmailInv ==
    /\ Email!TypeOK
    /\ BuiltInv /\ DialogueInv /\ MessageInv
    /\ WillingServerDelivers

\* The commands, and those that begin a dialogue.
Commands ==
    [name : {"DIAL", "GREETING", "STARTTLS", "AUTH", "MAIL", "RCPT", "DATA",
             "BODY", "END"}, i : Nat]

LEMMA Joined ==
    ASSUME NEW T, NEW u \in Seq(T), NEW v \in Seq(T)
    PROVE  /\ u \o v \in Seq(T)
           /\ Len(u \o v) = Len(u) + Len(v)
           /\ \A i \in 1 .. Len(u) : (u \o v)[i] = u[i]
           /\ \A i \in 1 .. Len(v) : (u \o v)[Len(u) + i] = v[i]
  OBVIOUS

LEMMA CommandFacts ==
    /\ \A x \in Commands : x.i \in Nat
    /\ \A i \in Nat : \A name \in {"DIAL", "GREETING", "STARTTLS", "AUTH", "MAIL",
                                   "RCPT", "DATA", "BODY", "END"} :
           Email!Cmd(name, i) \in Commands
    /\ \A name, i : Email!Cmd(name, i).name = name /\ Email!Cmd(name, i).i = i
  BY DEF Commands, Email!Cmd

\* The dialogue up to MAIL.
LEMMA Opening ==
    ASSUME NEW c \in Settings
    PROVE  LET o == <<Email!Cmd("DIAL", 0), Email!Cmd("GREETING", 0)>>
                    \o (IF c.tlsMode = "starttls" THEN <<Email!Cmd("STARTTLS", 0)>>
                        ELSE <<>>)
                    \o (IF c.auth THEN <<Email!Cmd("AUTH", 0)>> ELSE <<>>)
                    \o <<Email!Cmd("MAIL", 0)>>
           IN  /\ o \in Seq(Commands) /\ Len(o) = Before(c) + 1
               /\ o[1] = Email!Cmd("DIAL", 0) /\ o[2] = Email!Cmd("GREETING", 0)
               /\ c.tlsMode = "starttls" => o[3] = Email!Cmd("STARTTLS", 0)
               /\ c.auth => o[Before(c)] = Email!Cmd("AUTH", 0)
               /\ o[Before(c) + 1] = Email!Cmd("MAIL", 0)
  <1> DEFINE p == <<Email!Cmd("DIAL", 0), Email!Cmd("GREETING", 0)>>
             q == IF c.tlsMode = "starttls" THEN <<Email!Cmd("STARTTLS", 0)>> ELSE <<>>
             r == IF c.auth THEN <<Email!Cmd("AUTH", 0)>> ELSE <<>>
             s == <<Email!Cmd("MAIL", 0)>>
  <1>1. /\ Email!Cmd("DIAL", 0) \in Commands /\ Email!Cmd("GREETING", 0) \in Commands
        /\ Email!Cmd("STARTTLS", 0) \in Commands /\ Email!Cmd("AUTH", 0) \in Commands
        /\ Email!Cmd("MAIL", 0) \in Commands
    BY CommandFacts
  <1>2. /\ p \in Seq(Commands) /\ Len(p) = 2
        /\ p[1] = Email!Cmd("DIAL", 0) /\ p[2] = Email!Cmd("GREETING", 0)
    BY <1>1
  <1>3. /\ q \in Seq(Commands)
        /\ Len(q) = (IF c.tlsMode = "starttls" THEN 1 ELSE 0)
        /\ c.tlsMode = "starttls" => q[1] = Email!Cmd("STARTTLS", 0)
    BY <1>1
  <1>4. /\ r \in Seq(Commands) /\ Len(r) = (IF c.auth THEN 1 ELSE 0)
        /\ c.auth => r[1] = Email!Cmd("AUTH", 0)
    BY <1>1
  <1>5. s \in Seq(Commands) /\ Len(s) = 1 /\ s[1] = Email!Cmd("MAIL", 0)
    BY <1>1
  <1> HIDE DEF p, q, r, s
  <1> DEFINE pq == p \o q
  <1>6. /\ pq \in Seq(Commands) /\ Len(pq) = Len(p) + Len(q)
        /\ \A i \in 1 .. Len(p) : pq[i] = p[i]
        /\ \A i \in 1 .. Len(q) : pq[Len(p) + i] = q[i]
    <2>1. p \in Seq(Commands) /\ q \in Seq(Commands)
      BY <1>2, <1>3
    <2> QED BY <2>1, Joined
  <1> HIDE DEF pq
  <1>7. /\ Len(pq) = 2 + (IF c.tlsMode = "starttls" THEN 1 ELSE 0)
        /\ pq[1] = Email!Cmd("DIAL", 0) /\ pq[2] = Email!Cmd("GREETING", 0)
        /\ c.tlsMode = "starttls" => pq[3] = Email!Cmd("STARTTLS", 0)
    BY <1>2, <1>3, <1>6
  <1> DEFINE pqr == pq \o r
  <1>8. /\ pqr \in Seq(Commands) /\ Len(pqr) = Len(pq) + Len(r)
        /\ \A i \in 1 .. Len(pq) : pqr[i] = pq[i]
        /\ \A i \in 1 .. Len(r) : pqr[Len(pq) + i] = r[i]
    <2>1. pq \in Seq(Commands) /\ r \in Seq(Commands)
      BY <1>4, <1>6
    <2> QED BY <2>1, Joined
  <1> HIDE DEF pqr
  <1>9. /\ Len(pqr) = Before(c)
        /\ pqr[1] = Email!Cmd("DIAL", 0) /\ pqr[2] = Email!Cmd("GREETING", 0)
        /\ c.tlsMode = "starttls" => pqr[3] = Email!Cmd("STARTTLS", 0)
        /\ c.auth => pqr[Before(c)] = Email!Cmd("AUTH", 0)
    BY <1>4, <1>7, <1>8 DEF Before
  <1> DEFINE o == pqr \o s
  <1>10. /\ o \in Seq(Commands) /\ Len(o) = Len(pqr) + Len(s)
         /\ \A i \in 1 .. Len(pqr) : o[i] = pqr[i]
         /\ \A i \in 1 .. Len(s) : o[Len(pqr) + i] = s[i]
    <2>1. pqr \in Seq(Commands) /\ s \in Seq(Commands)
      BY <1>5, <1>8
    <2> QED BY <2>1, Joined
  <1> HIDE DEF o
  <1>11. /\ Before(c) \in Nat /\ Before(c) >= 2
         /\ c.tlsMode = "starttls" => Before(c) >= 3
    BY DEF Before
  <1>12. /\ o \in Seq(Commands) /\ Len(o) = Before(c) + 1
         /\ o[1] = Email!Cmd("DIAL", 0) /\ o[2] = Email!Cmd("GREETING", 0)
         /\ c.tlsMode = "starttls" => o[3] = Email!Cmd("STARTTLS", 0)
         /\ c.auth => o[Before(c)] = Email!Cmd("AUTH", 0)
         /\ o[Before(c) + 1] = Email!Cmd("MAIL", 0)
    BY <1>5, <1>9, <1>10, <1>11
  <1> QED BY <1>12 DEF p, q, r, s, pq, pqr, o

\* Every command of the dialogue, by its position.
LEMMA DialogueFacts ==
    ASSUME NEW c \in Settings
    PROVE  LET d == Email!Dialogue(c)
               m == Before(c)
               n == Len(c.to)
           IN  /\ m \in Nat /\ n \in Nat /\ DOMAIN c.to = 1 .. n
               /\ d \in Seq(Commands) /\ Len(d) = All(c)
               /\ d[1] = Email!Cmd("DIAL", 0) /\ d[2] = Email!Cmd("GREETING", 0)
               /\ c.tlsMode = "starttls" => d[3] = Email!Cmd("STARTTLS", 0)
               /\ c.auth => d[m] = Email!Cmd("AUTH", 0)
               /\ d[m + 1] = Email!Cmd("MAIL", 0)
               /\ \A i \in 1 .. n : d[m + 1 + i] = Email!Cmd("RCPT", i)
               /\ d[m + n + 2] = Email!Cmd("DATA", 0)
               /\ d[m + n + 3] = Email!Cmd("BODY", 0)
               /\ d[m + n + 4] = Email!Cmd("END", 0)
  <1> DEFINE o == <<Email!Cmd("DIAL", 0), Email!Cmd("GREETING", 0)>>
                  \o (IF c.tlsMode = "starttls" THEN <<Email!Cmd("STARTTLS", 0)>>
                      ELSE <<>>)
                  \o (IF c.auth THEN <<Email!Cmd("AUTH", 0)>> ELSE <<>>)
                  \o <<Email!Cmd("MAIL", 0)>>
             p == [i \in DOMAIN c.to |-> Email!Cmd("RCPT", i)]
             q == <<Email!Cmd("DATA", 0), Email!Cmd("BODY", 0), Email!Cmd("END", 0)>>
             m == Before(c)
             n == Len(c.to)
  <1>1. Email!Dialogue(c) = o \o p \o q
    BY DEF Email!Dialogue
  <1>2. m \in Nat /\ m >= 2 /\ (c.tlsMode = "starttls" => m >= 3)
    BY DEF Before
  <1>3. n \in Nat /\ DOMAIN c.to = 1 .. n
    <2>1. c.to \in Seq({"bare", "named"})
      BY DEF Settings
    <2> QED BY <2>1
  <1>4. /\ o \in Seq(Commands) /\ Len(o) = m + 1
        /\ o[1] = Email!Cmd("DIAL", 0) /\ o[2] = Email!Cmd("GREETING", 0)
        /\ c.tlsMode = "starttls" => o[3] = Email!Cmd("STARTTLS", 0)
        /\ c.auth => o[m] = Email!Cmd("AUTH", 0)
        /\ o[m + 1] = Email!Cmd("MAIL", 0)
    BY Opening
  <1>5. p \in Seq(Commands) /\ Len(p) = n /\ \A i \in 1 .. n : p[i] = Email!Cmd("RCPT", i)
    <2>1. \A i \in 1 .. n : Email!Cmd("RCPT", i) \in Commands
      BY <1>3, CommandFacts
    <2>2. p = [i \in 1 .. n |-> Email!Cmd("RCPT", i)]
      BY <1>3
    <2> HIDE DEF n
    <2> QED BY <1>3, <2>1, <2>2
  <1>6. /\ q \in Seq(Commands) /\ Len(q) = 3 /\ q[1] = Email!Cmd("DATA", 0)
        /\ q[2] = Email!Cmd("BODY", 0) /\ q[3] = Email!Cmd("END", 0)
    <2>1. /\ Email!Cmd("DATA", 0) \in Commands /\ Email!Cmd("BODY", 0) \in Commands
          /\ Email!Cmd("END", 0) \in Commands
      BY CommandFacts
    <2> QED BY <2>1
  <1> HIDE DEF o, p, q, m, n
  <1> DEFINE op == o \o p
  <1>7. /\ op \in Seq(Commands) /\ Len(op) = Len(o) + Len(p)
        /\ \A i \in 1 .. Len(o) : op[i] = o[i]
        /\ \A i \in 1 .. Len(p) : op[Len(o) + i] = p[i]
    <2>1. o \in Seq(Commands) /\ p \in Seq(Commands)
      BY <1>4, <1>5
    <2> QED BY <2>1, Joined
  <1> HIDE DEF op
  <1>8. /\ op \in Seq(Commands) /\ Len(op) = m + 1 + n
        /\ op[1] = Email!Cmd("DIAL", 0) /\ op[2] = Email!Cmd("GREETING", 0)
        /\ c.tlsMode = "starttls" => op[3] = Email!Cmd("STARTTLS", 0)
        /\ c.auth => op[m] = Email!Cmd("AUTH", 0)
        /\ op[m + 1] = Email!Cmd("MAIL", 0)
        /\ \A i \in 1 .. n : op[m + 1 + i] = Email!Cmd("RCPT", i)
    BY <1>2, <1>3, <1>4, <1>5, <1>7
  <1> DEFINE d == op \o q
  <1>9. /\ d \in Seq(Commands) /\ Len(d) = Len(op) + Len(q)
        /\ \A i \in 1 .. Len(op) : d[i] = op[i]
        /\ \A i \in 1 .. Len(q) : d[Len(op) + i] = q[i]
    <2>1. op \in Seq(Commands) /\ q \in Seq(Commands)
      BY <1>6, <1>8
    <2> QED BY <2>1, Joined
  <1> HIDE DEF d
  <1>10. /\ d \in Seq(Commands) /\ Len(d) = m + n + 4
         /\ \A i \in 1 .. m + 1 + n : d[i] = op[i]
         /\ \A i \in 1 .. 3 : d[m + 1 + n + i] = q[i]
    BY <1>2, <1>3, <1>6, <1>8, <1>9
  <1>11. /\ d[1] = Email!Cmd("DIAL", 0) /\ d[2] = Email!Cmd("GREETING", 0)
         /\ c.tlsMode = "starttls" => d[3] = Email!Cmd("STARTTLS", 0)
         /\ c.auth => d[m] = Email!Cmd("AUTH", 0)
         /\ d[m + 1] = Email!Cmd("MAIL", 0)
         /\ \A i \in 1 .. n : d[m + 1 + i] = Email!Cmd("RCPT", i)
    BY <1>2, <1>3, <1>8, <1>10
  <1>12. /\ d[m + n + 2] = Email!Cmd("DATA", 0) /\ d[m + n + 3] = Email!Cmd("BODY", 0)
         /\ d[m + n + 4] = Email!Cmd("END", 0)
    <2>1. m + 1 + n + 1 = m + n + 2 /\ m + 1 + n + 2 = m + n + 3 /\ m + 1 + n + 3 = m + n + 4
      BY <1>2, <1>3
    <2>2. d[m + 1 + n + 1] = q[1] /\ d[m + 1 + n + 2] = q[2] /\ d[m + 1 + n + 3] = q[3]
      BY <1>10
    <2> QED BY <1>6, <2>1, <2>2, Zenon
  <1> QED BY <1>1, <1>2, <1>3, <1>10, <1>11, <1>12 DEF d, op, m, n, All

\* Which command comes after the first k.
LEMMA CommandAt ==
    ASSUME NEW c \in Settings, NEW k \in 0 .. All(c) - 1
    PROVE  LET x == Email!Dialogue(c)[k + 1]
               m == Before(c)
               n == Len(c.to)
           IN  /\ x.name = "DIAL" <=> k = 0
               /\ x.name = "GREETING" <=> k = 1
               /\ x.name = "STARTTLS" <=> k = 2 /\ c.tlsMode = "starttls"
               /\ x.name = "AUTH" <=> k = m - 1 /\ c.auth
               /\ x.name = "MAIL" <=> k = m
               /\ x.name = "RCPT" <=> k - m \in 1 .. n
               /\ x.name = "DATA" <=> k = m + n + 1
               /\ x.name = "BODY" <=> k = m + n + 2
               /\ x.name = "END" <=> k = m + n + 3
               /\ k - m \in 1 .. n => x.i = k - m
  <1> DEFINE d == Email!Dialogue(c)
             x == d[k + 1]
             m == Before(c)
             n == Len(c.to)
  <1>1. m \in Nat /\ n \in Nat /\ k \in Nat /\ k <= m + n + 3
    BY DialogueFacts DEF All
  <1>2. \/ k = 0 \/ k = 1
        \/ k = 2 /\ c.tlsMode = "starttls"
        \/ k = m - 1 /\ c.auth
        \/ k = m \/ k - m \in 1 .. n \/ k = m + n + 1 \/ k = m + n + 2
        \/ k = m + n + 3
    <2>1. m = 2 + (IF c.tlsMode = "starttls" THEN 1 ELSE 0) + (IF c.auth THEN 1 ELSE 0)
      BY DEF Before
    <2> HIDE DEF m, n
    <2>2. CASE k < m
      BY <1>1, <2>1, <2>2
    <2>3. CASE ~(k < m)
      BY <1>1, <2>3
    <2> QED BY <2>2, <2>3
  <1>3. /\ k = 0 => x = Email!Cmd("DIAL", 0)
        /\ k = 1 => x = Email!Cmd("GREETING", 0)
        /\ k = 2 /\ c.tlsMode = "starttls" => x = Email!Cmd("STARTTLS", 0)
    BY DialogueFacts
  <1>4. /\ k = m - 1 /\ c.auth => x = Email!Cmd("AUTH", 0)
        /\ k = m => x = Email!Cmd("MAIL", 0)
    <2>1. (c.auth => d[m] = Email!Cmd("AUTH", 0)) /\ d[m + 1] = Email!Cmd("MAIL", 0)
      BY DialogueFacts
    <2>2. k = m - 1 => k + 1 = m
      BY <1>1
    <2> HIDE DEF d, m
    <2> QED BY <2>1, <2>2
  <1>5. k - m \in 1 .. n => x = Email!Cmd("RCPT", k - m)
    <2>1. \A i \in 1 .. n : d[m + 1 + i] = Email!Cmd("RCPT", i)
      BY DialogueFacts
    <2>2. m + 1 + (k - m) = k + 1
      BY <1>1
    <2> HIDE DEF d, m, n
    <2> QED BY <2>1, <2>2
  <1>6. /\ k = m + n + 1 => x = Email!Cmd("DATA", 0)
        /\ k = m + n + 2 => x = Email!Cmd("BODY", 0)
        /\ k = m + n + 3 => x = Email!Cmd("END", 0)
    <2>1. /\ d[m + n + 2] = Email!Cmd("DATA", 0) /\ d[m + n + 3] = Email!Cmd("BODY", 0)
          /\ d[m + n + 4] = Email!Cmd("END", 0)
      BY DialogueFacts
    <2>2. /\ m + n + 1 + 1 = m + n + 2 /\ m + n + 2 + 1 = m + n + 3
          /\ m + n + 3 + 1 = m + n + 4
      BY <1>1, SMTT(30)
    <2> HIDE DEF d, m, n
    <2> QED BY <2>1, <2>2
  <1> HIDE DEF x, m, n
  <1>7. \A name, i : Email!Cmd(name, i).name = name /\ Email!Cmd(name, i).i = i
    BY CommandFacts
  <1>8. /\ k = 0 => x.name = "DIAL"
        /\ k = 1 => x.name = "GREETING"
        /\ k = 2 /\ c.tlsMode = "starttls" => x.name = "STARTTLS"
        /\ k = m - 1 /\ c.auth => x.name = "AUTH"
        /\ k = m => x.name = "MAIL"
        /\ k - m \in 1 .. n => x.name = "RCPT" /\ x.i = k - m
        /\ k = m + n + 1 => x.name = "DATA"
        /\ k = m + n + 2 => x.name = "BODY"
        /\ k = m + n + 3 => x.name = "END"
    BY <1>3, <1>4, <1>5, <1>6, <1>7, ZenonT(60)
  <1>9. /\ x.name = "DIAL" <=> k = 0
        /\ x.name = "GREETING" <=> k = 1
        /\ x.name = "STARTTLS" <=> k = 2 /\ c.tlsMode = "starttls"
        /\ x.name = "AUTH" <=> k = m - 1 /\ c.auth
        /\ x.name = "MAIL" <=> k = m
        /\ x.name = "RCPT" <=> k - m \in 1 .. n
        /\ x.name = "DATA" <=> k = m + n + 1
        /\ x.name = "BODY" <=> k = m + n + 2
        /\ x.name = "END" <=> k = m + n + 3
    BY <1>2, <1>8
  <1> QED BY <1>8, <1>9, Zenon DEF x, d, m, n

\* The settings do not change once there is a channel, so the numbers of the
\* dialogue do not either.
Sizes ==
    /\ Before(cfg) \in Nat /\ Before(cfg) >= 2 /\ Len(cfg.to) \in Nat
    /\ cfg.tlsMode = "starttls" => Before(cfg) >= 3
    /\ DOMAIN cfg.to = 1 .. Len(cfg.to)
    /\ All(cfg) = Before(cfg) + Len(cfg.to) + 4

LEMMA SizeFacts == cfg \in Settings => Sizes
  <1> SUFFICES ASSUME cfg \in Settings PROVE Sizes
    OBVIOUS
  <1>1. /\ Before(cfg) \in Nat /\ Before(cfg) >= 2
        /\ cfg.tlsMode = "starttls" => Before(cfg) >= 3
    BY DEF Before
  <1>2. Len(cfg.to) \in Nat /\ DOMAIN cfg.to = 1 .. Len(cfg.to)
    BY DialogueFacts
  <1> QED BY <1>1, <1>2 DEF Sizes, All

\* The rest of the dialogue that is still to come.
Rest(t) ==
    /\ t \in Seq(Commands) /\ Len(t) <= All(cfg)
    /\ \A i \in 1 .. Len(t) :
           t[i] = Email!Dialogue(cfg)[All(cfg) - Len(t) + i]

\* The command at hand, by the number of those that have been accepted.
LEMMA Position ==
    ASSUME cfg \in Settings, Rest(etodo), etodo # <<>>
    PROVE  LET m == Before(cfg)
               n == Len(cfg.to)
           IN  /\ Done \in Nat /\ Done <= m + n + 3 /\ Len(etodo) = m + n + 4 - Done
               /\ Email!At("DIAL") <=> Done = 0
               /\ Email!At("GREETING") <=> Done = 1
               /\ Email!At("STARTTLS") <=> Done = 2 /\ cfg.tlsMode = "starttls"
               /\ Email!At("AUTH") <=> Done = m - 1 /\ cfg.auth
               /\ Email!At("MAIL") <=> Done = m
               /\ Email!At("RCPT") <=> Done - m \in 1 .. n
               /\ Email!At("DATA") <=> Done = m + n + 1
               /\ Email!At("BODY") <=> Done = m + n + 2
               /\ Email!At("END") <=> Done = m + n + 3
               /\ Done - m \in 1 .. n => Head(etodo).i = Done - m
  <1> DEFINE m == Before(cfg)
             n == Len(cfg.to)
             d == Email!Dialogue(cfg)
  <1>1. /\ m \in Nat /\ n \in Nat /\ All(cfg) = m + n + 4
    BY SizeFacts DEF Sizes
  <1>2. etodo \in Seq(Commands) /\ Len(etodo) \in Nat /\ Len(etodo) # 0
        /\ Head(etodo) = etodo[1] /\ Len(etodo) <= All(cfg)
    BY DEF Rest
  <1>3. Done \in Nat /\ Done <= m + n + 3 /\ Len(etodo) = m + n + 4 - Done
    <2>1. Len(etodo) \in Nat /\ Len(etodo) # 0 /\ Len(etodo) <= m + n + 4
      BY <1>1, <1>2
    <2>2. Done = (m + n + 4) - Len(etodo)
      BY <1>1, Zenon DEF Done
    <2> HIDE DEF m, n
    <2> QED BY <1>1, <2>1, <2>2
  <1>4. Head(etodo) = d[Done + 1]
    BY <1>1, <1>2, SMTT(30) DEF Done, Rest
  <1>5. \A name : Email!At(name) <=> d[Done + 1].name = name
    BY <1>4 DEF Email!At, Email!Idle
  <1>6. Done \in 0 .. All(cfg) - 1
    BY <1>1, <1>3
  <1>7. LET x == d[Done + 1]
        IN  /\ x.name = "DIAL" <=> Done = 0
            /\ x.name = "GREETING" <=> Done = 1
            /\ x.name = "STARTTLS" <=> Done = 2 /\ cfg.tlsMode = "starttls"
            /\ x.name = "AUTH" <=> Done = m - 1 /\ cfg.auth
            /\ x.name = "MAIL" <=> Done = m
            /\ x.name = "RCPT" <=> Done - m \in 1 .. n
            /\ x.name = "DATA" <=> Done = m + n + 1
            /\ x.name = "BODY" <=> Done = m + n + 2
            /\ x.name = "END" <=> Done = m + n + 3
            /\ Done - m \in 1 .. n => x.i = Done - m
    BY <1>6, CommandAt
  <1> HIDE DEF m, n, d
  <1>8. /\ Email!At("DIAL") <=> Done = 0
        /\ Email!At("GREETING") <=> Done = 1
        /\ Email!At("STARTTLS") <=> Done = 2 /\ cfg.tlsMode = "starttls"
        /\ Email!At("AUTH") <=> Done = m - 1 /\ cfg.auth
        /\ Email!At("MAIL") <=> Done = m
        /\ Email!At("RCPT") <=> Done - m \in 1 .. n
        /\ Email!At("DATA") <=> Done = m + n + 1
        /\ Email!At("BODY") <=> Done = m + n + 2
        /\ Email!At("END") <=> Done = m + n + 3
        /\ Done - m \in 1 .. n => Head(etodo).i = Done - m
    BY <1>4, <1>5, <1>7, Zenon
  <1> QED BY <1>3, <1>8, Zenon DEF m, n

\* The server accepts a command that is not the last one.
LEMMA Advance ==
    ASSUME cfg \in Settings, Rest(etodo), etodo # <<>>, Len(etodo) # 1,
           etodo' = Tail(etodo), cfg' = cfg
    PROVE  /\ etodo' # <<>> /\ Len(etodo') = Len(etodo) - 1
           /\ Done' = Done + 1
           /\ Rest(etodo)'
  <1>1. All(cfg) \in Nat
    BY SizeFacts DEF Sizes
  <1>2. /\ etodo \in Seq(Commands) /\ Len(etodo) \in Nat /\ Len(etodo) # 0
        /\ Len(etodo) <= All(cfg)
        /\ \A i \in 1 .. Len(etodo) :
               etodo[i] = Email!Dialogue(cfg)[All(cfg) - Len(etodo) + i]
    BY DEF Rest
  <1>3. /\ etodo' \in Seq(Commands) /\ Len(etodo') = Len(etodo) - 1
        /\ \A i \in 1 .. Len(etodo) - 1 : etodo'[i] = etodo[i + 1]
    BY <1>2
  <1>4. etodo' # <<>>
    <2>1. Len(etodo') # 0
      BY <1>2, <1>3
    <2>2. Len(<<>>) = 0
      OBVIOUS
    <2> QED BY <2>1, <2>2, Zenon
  <1>5. All(cfg') = All(cfg) /\ Email!Dialogue(cfg') = Email!Dialogue(cfg)
    OBVIOUS
  <1>6. Done' = Done + 1
    BY <1>1, <1>2, <1>3, <1>5 DEF Done
  <1>7. ASSUME NEW i \in 1 .. Len(etodo')
        PROVE  etodo'[i] = Email!Dialogue(cfg)[All(cfg) - Len(etodo') + i]
    <2>1. i + 1 \in 1 .. Len(etodo) /\ i \in 1 .. Len(etodo) - 1
      BY <1>2, <1>3
    <2>2. All(cfg) - Len(etodo) + (i + 1) = All(cfg) - Len(etodo') + i
      BY <1>1, <1>2, <1>3
    <2> QED BY <1>2, <1>3, <2>1, <2>2
  <1>8. Rest(etodo)'
    BY <1>1, <1>2, <1>3, <1>5, <1>7 DEF Rest
  <1> QED BY <1>3, <1>4, <1>6, <1>8

\* The type of the email channel's variables, and where the call is in its
\* dialogue, in the form in which the steps below use them.
LEMMA Unfolded ==
    ASSUME EmailInv
    PROVE  /\ cfg \in Settings /\ Sizes /\ Rest(etodo)
           /\ etry \in Nat /\ etry <= Attempts
           /\ enc \in BOOLEAN
           /\ eres \in [1 .. Attempts -> {"none", "nil", "err"}]
           /\ egot \in [1 .. Attempts -> SUBSET DOMAIN cfg.to]
           /\ einbox \subseteq [try : 1 .. etry, to : SUBSET DOMAIN cfg.to]
  <1>1. cfg \in Settings
    BY DEF EmailInv, BuiltInv
  <1>2. /\ etry \in Nat /\ etry <= Attempts
        /\ enc \in BOOLEAN
        /\ eres \in [1 .. Attempts -> {"none", "nil", "err"}]
        /\ egot \in [1 .. Attempts -> SUBSET DOMAIN cfg.to]
        /\ einbox \subseteq [try : 1 .. etry, to : SUBSET DOMAIN cfg.to]
        /\ etodo \in Seq(Commands)
    BY ChannelsAssumption DEF EmailInv, Email!TypeOK, Commands
  <1>3. Rest(etodo)
    BY <1>2 DEF EmailInv, DialogueInv, Rest, Done
  <1> QED BY <1>1, <1>2, <1>3, SizeFacts

\* No step of the channel changes its settings.
LEMMA SettingsStay ==
    ASSUME EmailInv, EmailStep
    PROVE  /\ cfg' = cfg /\ smtpWilling' = smtpWilling
           /\ BuiltInv'
  <1>1. cfg' = cfg /\ smtpWilling' = smtpWilling
    BY DEF EmailStep, Email!Next, Email!ServerStep, Email!Begin, Email!Dial,
       Email!DialFails, Email!Accept, Email!Refuse, Email!WriteBody,
       Email!WriteFails, Email!Deliver, Email!Delivered, Email!EndFails,
       Email!Return
  <1>2. "email" \in channels /\ boot' = boot /\ channels' = channels
    BY DEF EmailStep
  <1> QED BY <1>1, <1>2 DEF EmailInv, BuiltInv

\* The worker calls Send.
LEMMA BeginKeeps ==
    ASSUME EmailInv, EmailStep, Email!Begin
    PROVE  EmailInv'
  <1>1. /\ cfg \in Settings /\ Sizes
        /\ etry \in Nat /\ etry <= Attempts
        /\ enc \in BOOLEAN
        /\ eres \in [1 .. Attempts -> {"none", "nil", "err"}]
        /\ egot \in [1 .. Attempts -> SUBSET DOMAIN cfg.to]
        /\ einbox \subseteq [try : 1 .. etry, to : SUBSET DOMAIN cfg.to]
    BY Unfolded
  <1>2. cfg' = cfg /\ smtpWilling' = smtpWilling /\ BuiltInv'
    BY SettingsStay
  <1>3. /\ etodo = <<>> /\ etry < Attempts /\ etry' = etry + 1
        /\ etodo' = Email!Dialogue(cfg)
        /\ enc' = enc /\ rcpts' = rcpts
        /\ eres' = eres /\ egot' = egot /\ einbox' = einbox
    BY DEF Email!Begin, Email!Idle, Email!hvars
  <1>4. /\ etodo' \in Seq(Commands) /\ Len(etodo') = All(cfg)
    BY <1>1, <1>3, DialogueFacts
  <1>5. All(cfg) \in Nat /\ All(cfg) >= 6
    BY <1>1 DEF Sizes
  <1>6. All(cfg') = All(cfg) /\ Before(cfg') = Before(cfg)
    BY <1>2
  <1>7. Done' = 0
    BY <1>4, <1>5, <1>6 DEF Done
  <1>8. ~enc /\ rcpts = {}
    BY <1>3 DEF EmailInv, DialogueInv
  <1>9. MessageInv
    BY DEF EmailInv
  <1>10. eres[etry'] = "none" /\ etry' \in 1 .. Attempts
    BY <1>1, <1>3, <1>9, ChannelsAssumption DEF MessageInv
  <1>11. Rest(etodo)'
    <2>1. \A i \in 1 .. Len(etodo') :
             etodo'[i] = Email!Dialogue(cfg)[All(cfg) - Len(etodo') + i]
      BY <1>3, <1>4, <1>5
    <2> QED BY <1>2, <1>4, <1>5, <2>1 DEF Rest
  <1>12. Email!TypeOK'
    <2>1. einbox' \subseteq [try : 1 .. etry', to : SUBSET DOMAIN cfg'.to]
      BY <1>1, <1>2, <1>3
    <2>2. rcpts' \subseteq DOMAIN cfg'.to
      BY <1>3, <1>8
    <2>3. enc' \in BOOLEAN
      BY <1>1, <1>3
    <2>4. etry' \in Nat /\ etry' <= Attempts
      BY <1>1, <1>3, ChannelsAssumption
    <2> QED BY <1>1, <1>2, <1>3, <1>4, <2>1, <2>2, <2>3, <2>4, ChannelsAssumption
        DEF Email!TypeOK, Commands
  <1>13. DialogueInv'
    <2>1. enc' <=> /\ etodo' # <<>>
                   /\ \/ cfg'.tlsMode = "tls" /\ Done' >= 1
                      \/ cfg'.tlsMode = "starttls" /\ Done' >= 3
      BY <1>3, <1>7, <1>8
    <2>2. \A i \in DOMAIN cfg.to : ~(Before(cfg) + i < Done')
      BY <1>1, <1>7 DEF Sizes
    <2>3. Len(etodo') <= All(cfg')
          /\ \A i \in 1 .. Len(etodo') : etodo'[i] = Email!Dialogue(cfg')[Done' + i]
      BY <1>11 DEF Rest, Done
    <2> QED BY <1>1, <1>2, <1>3, <1>6, <1>7, <1>8, <1>10, <2>1, <2>2, <2>3, SMTT(30)
        DEF DialogueInv, Sizes
  <1>14. MessageInv'
    <2>1. ASSUME NEW a \in 1 .. Attempts
          PROVE  /\ egot'[a] \in {{}, DOMAIN cfg'.to}
                 /\ a > etry' => egot'[a] = {} /\ eres'[a] = "none"
                 /\ eres'[a] = "nil" => egot'[a] # {}
                 /\ a = etry' /\ etodo' # <<>> /\ Len(etodo') # 1 => egot'[a] = {}
      BY <1>1, <1>2, <1>3, <1>9, ChannelsAssumption DEF MessageInv
    <2>2. ASSUME NEW x \in einbox'
          PROVE  /\ x.to = DOMAIN cfg'.to /\ egot'[x.try] = {} /\ eres'[x.try] # "nil"
                 /\ x.try # etry'
      BY <1>1, <1>2, <1>3, <1>9 DEF MessageInv
    <2> QED BY <2>1, <2>2 DEF MessageInv
  <1>15. WillingServerDelivers'
    BY <1>2, <1>3 DEF EmailInv, WillingServerDelivers, Email!WillingServerDelivers,
       Email!Usable
  <1> QED BY <1>2, <1>12, <1>13, <1>14, <1>15 DEF EmailInv

\* What the commands so far say of the connection, one command later.
LEMMA AcceptedSoFar ==
    ASSUME EmailInv, EmailStep, Email!Dial \/ Email!Accept \/ Email!WriteBody
    PROVE  LET m == Before(cfg)
           IN  /\ etodo # <<>> /\ Len(etodo) # 1 /\ etodo' = Tail(etodo)
               /\ etry' = etry /\ eres' = eres /\ egot' = egot
               /\ enc' <=> \/ cfg.tlsMode = "tls" /\ Done + 1 >= 1
                           \/ cfg.tlsMode = "starttls" /\ Done + 1 >= 3
               /\ rcpts' = {i \in DOMAIN cfg.to : m + i < Done + 1}
               /\ cfg.auth /\ Done + 1 >= m => cfg.tlsMode # "none" \/ cfg.local
               /\ Done + 1 > m => cfg.from = "bare"
               /\ \A i \in DOMAIN cfg.to : m + i < Done + 1 => cfg.to[i] = "bare"
  <1> DEFINE m == Before(cfg)
             n == Len(cfg.to)
             k == Done
  <1>1. cfg \in Settings /\ Sizes /\ Rest(etodo) /\ enc \in BOOLEAN
    BY Unfolded
  <1>2. etodo # <<>> /\ etodo' = Tail(etodo) /\ etry' = etry /\ eres' = eres /\ egot' = egot
    BY DEF Email!Dial, Email!Accept, Email!WriteBody, Email!AtCommand, Email!At,
       Email!Idle, Email!hvars
  <1>3. /\ k \in Nat /\ k <= m + n + 3 /\ Len(etodo) = m + n + 4 - k
        /\ Email!At("DIAL") <=> k = 0
        /\ Email!At("GREETING") <=> k = 1
        /\ Email!At("STARTTLS") <=> k = 2 /\ cfg.tlsMode = "starttls"
        /\ Email!At("AUTH") <=> k = m - 1 /\ cfg.auth
        /\ Email!At("MAIL") <=> k = m
        /\ Email!At("RCPT") <=> k - m \in 1 .. n
        /\ Email!At("DATA") <=> k = m + n + 1
        /\ Email!At("BODY") <=> k = m + n + 2
        /\ k - m \in 1 .. n => Head(etodo).i = k - m
    BY <1>1, <1>2, Position
  <1>4. /\ m \in Nat /\ m >= 2 /\ n \in Nat /\ DOMAIN cfg.to = 1 .. n
        /\ cfg.tlsMode = "starttls" => m >= 3
    BY <1>1 DEF Sizes
  <1>5. DialogueInv
    BY DEF EmailInv
  <1>6. enc <=> \/ cfg.tlsMode = "tls" /\ k >= 1
                \/ cfg.tlsMode = "starttls" /\ k >= 3
    BY <1>2, <1>5 DEF DialogueInv
  <1>7. rcpts = {i \in 1 .. n : m + i < k}
    BY <1>2, <1>4, <1>5 DEF DialogueInv
  <1>8. /\ cfg.auth /\ k >= m => cfg.tlsMode # "none" \/ cfg.local
        /\ k > m => cfg.from = "bare"
        /\ \A i \in 1 .. n : m + i < k => cfg.to[i] = "bare"
    BY <1>2, <1>4, <1>5 DEF DialogueInv
  <1> HIDE DEF m, n, k
  <1>9. CASE Email!Dial
    <2>1. k = 0 /\ rcpts' = rcpts
      BY <1>3, <1>9 DEF Email!Dial
    <2>2. enc' <=> \/ cfg.tlsMode = "tls" /\ k + 1 >= 1
                   \/ cfg.tlsMode = "starttls" /\ k + 1 >= 3
      <3>1. enc' <=> cfg.tlsMode = "tls"
        BY <1>9 DEF Email!Dial
      <3> QED BY <2>1, <3>1
    <2>3. rcpts' = {i \in 1 .. n : m + i < k + 1} /\ \A i \in 1 .. n : ~(m + i < k + 1)
      BY <1>4, <1>7, <2>1
    <2>4. ~(k + 1 >= m) /\ ~(k + 1 > m) /\ Len(etodo) # 1
      BY <1>3, <1>4, <2>1
    <2> QED BY <1>2, <1>4, <2>2, <2>3, <2>4 DEF m, n, k
  <1>10. CASE Email!WriteBody
    <2>1. k = m + n + 2 /\ enc' = enc /\ rcpts' = rcpts
      BY <1>3, <1>10 DEF Email!WriteBody
    <2>2. enc' <=> \/ cfg.tlsMode = "tls" /\ k + 1 >= 1
                   \/ cfg.tlsMode = "starttls" /\ k + 1 >= 3
      BY <1>4, <1>6, <2>1
    <2>3. \A i \in 1 .. n : m + i < k + 1 /\ m + i < k
      BY <1>4, <2>1
    <2>4. k >= m /\ k > m /\ Len(etodo) # 1
      BY <1>3, <1>4, <2>1, SMTT(30)
    <2>5. rcpts' = {i \in 1 .. n : m + i < k + 1}
      BY <1>7, <2>1, <2>3
    <2> QED BY <1>2, <1>4, <1>8, <2>2, <2>3, <2>4, <2>5 DEF m, n, k
  <1>11. CASE Email!Accept
    <2>1. /\ Email!AtCommand
          /\ Email!At("AUTH") => enc \/ cfg.local
          /\ Email!At("MAIL") => cfg.from = "bare"
          /\ Email!At("RCPT") => cfg.to[Head(etodo).i] = "bare"
          /\ rcpts' = IF Email!At("RCPT") THEN rcpts \cup {Head(etodo).i} ELSE rcpts
      BY <1>11 DEF Email!Accept, Email!MayAuth, Email!WellFormed
    <2>2. enc' <=> (enc \/ Email!At("STARTTLS"))
      BY <1>11 DEF Email!Accept
    <2>3. k >= 1 /\ k <= m + n + 1
      BY <1>3, <1>4, <2>1 DEF Email!AtCommand
    <2>4. enc' <=> \/ cfg.tlsMode = "tls" /\ k + 1 >= 1
                   \/ cfg.tlsMode = "starttls" /\ k + 1 >= 3
      BY <1>3, <1>6, <2>2, <2>3
    <2>5. rcpts' = {i \in 1 .. n : m + i < k + 1}
      <3>1. CASE k - m \in 1 .. n
        <4>1. rcpts' = rcpts \cup {k - m}
          BY <1>3, <2>1, <3>1
        <4>2. \A i \in 1 .. n : m + i < k + 1 <=> (m + i < k \/ i = k - m)
          BY <1>3, <1>4
        <4> QED BY <1>7, <3>1, <4>1, <4>2
      <3>2. CASE ~(k - m \in 1 .. n)
        <4>1. rcpts' = rcpts
          BY <1>3, <2>1, <3>2
        <4>2. \A i \in 1 .. n : m + i < k + 1 <=> m + i < k
          BY <1>3, <1>4, <3>2
        <4> QED BY <1>7, <4>1, <4>2
      <3> QED BY <3>1, <3>2
    <2>6. cfg.auth /\ k + 1 >= m => cfg.tlsMode # "none" \/ cfg.local
      <3>1. k + 1 >= m => k >= m \/ k = m - 1
        BY <1>3, <1>4
      <3>2. enc => cfg.tlsMode # "none"
        BY <1>6
      <3> QED BY <1>3, <1>8, <2>1, <3>1, <3>2, Zenon
    <2>7. k + 1 > m => cfg.from = "bare"
      BY <1>3, <1>4, <1>8, <2>1
    <2>8. \A i \in 1 .. n : m + i < k + 1 => cfg.to[i] = "bare"
      <3> SUFFICES ASSUME NEW i \in 1 .. n, m + i < k + 1 PROVE cfg.to[i] = "bare"
        OBVIOUS
      <3>1. CASE m + i < k
        BY <1>8, <3>1
      <3>2. CASE i = k - m
        BY <1>3, <2>1, <3>2, SMTT(30)
      <3> QED BY <1>3, <1>4, <3>1, <3>2, SMTT(30)
    <2>9. Len(etodo) # 1
      BY <1>3, <1>4, <2>3
    <2> QED BY <1>2, <1>4, <2>4, <2>5, <2>6, <2>7, <2>8, <2>9 DEF m, n, k
  <1> QED BY <1>9, <1>10, <1>11

\* The server accepts a command, or has the body.
LEMMA AdvanceKeeps ==
    ASSUME EmailInv, EmailStep, Email!Dial \/ Email!Accept \/ Email!WriteBody
    PROVE  EmailInv'
  <1> DEFINE m == Before(cfg)
             n == Len(cfg.to)
             k == Done
  <1>1. /\ cfg \in Settings /\ Sizes /\ Rest(etodo)
        /\ etry \in Nat /\ etry <= Attempts
        /\ eres \in [1 .. Attempts -> {"none", "nil", "err"}]
        /\ egot \in [1 .. Attempts -> SUBSET DOMAIN cfg.to]
        /\ einbox \subseteq [try : 1 .. etry, to : SUBSET DOMAIN cfg.to]
    BY Unfolded
  <1>2. cfg' = cfg /\ smtpWilling' = smtpWilling /\ BuiltInv'
    BY SettingsStay
  <1>3. /\ etodo # <<>> /\ Len(etodo) # 1 /\ etodo' = Tail(etodo)
        /\ etry' = etry /\ eres' = eres /\ egot' = egot
        /\ enc' <=> \/ cfg.tlsMode = "tls" /\ k + 1 >= 1
                    \/ cfg.tlsMode = "starttls" /\ k + 1 >= 3
        /\ rcpts' = {i \in DOMAIN cfg.to : m + i < k + 1}
        /\ cfg.auth /\ k + 1 >= m => cfg.tlsMode # "none" \/ cfg.local
        /\ k + 1 > m => cfg.from = "bare"
        /\ \A i \in DOMAIN cfg.to : m + i < k + 1 => cfg.to[i] = "bare"
    BY AcceptedSoFar
  <1>4. /\ etodo' # <<>> /\ Len(etodo') = Len(etodo) - 1
        /\ Done' = k + 1 /\ Rest(etodo)'
    BY <1>1, <1>2, <1>3, Advance
  <1>5. enc' \in BOOLEAN
    BY DEF Email!Dial, Email!Accept, Email!WriteBody, EmailInv, Email!TypeOK
  <1>6. DialogueInv /\ MessageInv
    BY DEF EmailInv
  <1>7. /\ Before(cfg') = m /\ All(cfg') = All(cfg)
        /\ Email!Dialogue(cfg') = Email!Dialogue(cfg)
    BY <1>2
  <1>8. /\ m \in Nat /\ n \in Nat /\ DOMAIN cfg.to = 1 .. n /\ All(cfg) = m + n + 4
        /\ Len(etodo) \in Nat /\ Len(etodo) # 0
    BY <1>1, <1>3 DEF Sizes, Rest
  <1>9. DialogueInv'
    <2>1. /\ Len(etodo') <= All(cfg')
          /\ \A i \in 1 .. Len(etodo') : etodo'[i] = Email!Dialogue(cfg')[Done' + i]
      BY <1>4 DEF Rest, Done
    <2>2. etry > 0 /\ eres[etry] = "none"
      BY <1>3, <1>6 DEF DialogueInv
    <2> HIDE DEF m, n, k
    <2>3. enc' <=> /\ etodo' # <<>>
                   /\ \/ cfg'.tlsMode = "tls" /\ Done' >= 1
                      \/ cfg'.tlsMode = "starttls" /\ Done' >= 3
      BY <1>2, <1>3, <1>4
    <2>4. rcpts' = {i \in DOMAIN cfg'.to : etodo' # <<>> /\ Before(cfg') + i < Done'}
      BY <1>2, <1>3, <1>4, <1>7
    <2>5. /\ cfg'.auth /\ Done' >= Before(cfg') => cfg'.tlsMode # "none" \/ cfg'.local
          /\ Done' > Before(cfg') => cfg'.from = "bare"
          /\ \A i \in DOMAIN cfg'.to : Before(cfg') + i < Done' => cfg'.to[i] = "bare"
      BY <1>2, <1>3, <1>4, <1>7
    <2> QED BY <1>3, <2>1, <2>2, <2>3, <2>4, <2>5 DEF DialogueInv
  <1>10. \A x \in einbox' :
             x \in einbox \/ (Email!WriteBody /\ x = [try |-> etry, to |-> rcpts])
    BY DEF Email!Dial, Email!Accept, Email!WriteBody, Email!hvars
  <1>11. Email!WriteBody =>
             /\ Len(etodo) = 2 /\ rcpts = DOMAIN cfg.to
             /\ etry \in 1 .. etry /\ egot[etry] = {} /\ eres[etry] # "nil"
    <2> SUFFICES ASSUME Email!WriteBody
                 PROVE  /\ Len(etodo) = 2 /\ rcpts = DOMAIN cfg.to
                        /\ etry \in 1 .. etry /\ egot[etry] = {} /\ eres[etry] # "nil"
      OBVIOUS
    <2>1. k = m + n + 2 /\ Len(etodo) = m + n + 4 - k
      BY <1>1, <1>3, Position DEF Email!WriteBody
    <2>2. rcpts = {i \in DOMAIN cfg.to : m + i < k} /\ etry > 0 /\ eres[etry] = "none"
      BY <1>3, <1>6 DEF DialogueInv
    <2> HIDE DEF m, n, k
    <2>3. Len(etodo) = 2 /\ \A i \in 1 .. n : m + i < k
      BY <1>8, <2>1
    <2>4. rcpts = DOMAIN cfg.to
      BY <1>8, <2>2, <2>3
    <2>5. etry \in 1 .. etry /\ etry \in 1 .. Attempts
      BY <1>1, <2>2, ChannelsAssumption
    <2>6. egot[etry] = {}
      BY <1>3, <1>6, <2>5 DEF MessageInv
    <2> QED BY <2>2, <2>3, <2>4, <2>5, <2>6
  <1>12. Email!TypeOK'
    <2>1. einbox' \subseteq [try : 1 .. etry', to : SUBSET DOMAIN cfg'.to]
      <3> SUFFICES ASSUME NEW x \in einbox'
                   PROVE  x \in [try : 1 .. etry', to : SUBSET DOMAIN cfg'.to]
        OBVIOUS
      <3>1. CASE x \in einbox
        BY <1>1, <1>2, <1>3, <3>1
      <3>2. CASE Email!WriteBody /\ x = [try |-> etry, to |-> rcpts]
        BY <1>2, <1>3, <1>11, <3>2
      <3> QED BY <1>10, <3>1, <3>2
    <2>2. rcpts' \subseteq DOMAIN cfg'.to
      BY <1>2, <1>3
    <2>3. etodo' \in Seq(Commands)
      BY <1>4 DEF Rest
    <2> QED BY <1>1, <1>2, <1>3, <1>5, <2>1, <2>2, <2>3, ChannelsAssumption
        DEF Email!TypeOK, Commands
  <1>13. MessageInv'
    <2>1. ASSUME NEW a \in 1 .. Attempts
          PROVE  /\ egot'[a] \in {{}, DOMAIN cfg'.to}
                 /\ a > etry' => egot'[a] = {} /\ eres'[a] = "none"
                 /\ eres'[a] = "nil" => egot'[a] # {}
                 /\ a = etry' /\ etodo' # <<>> /\ Len(etodo') # 1 => egot'[a] = {}
      BY <1>2, <1>3, <1>6 DEF MessageInv
    <2>2. ASSUME NEW x \in einbox'
          PROVE  /\ x.to = DOMAIN cfg'.to /\ egot'[x.try] = {} /\ eres'[x.try] # "nil"
                 /\ x.try = etry' /\ etodo' # <<>> => Len(etodo') = 1
      <3>1. CASE x \in einbox
        BY <1>2, <1>3, <1>6, <3>1 DEF MessageInv
      <3>2. CASE Email!WriteBody /\ x = [try |-> etry, to |-> rcpts]
        <4>1. x.try = etry /\ x.to = rcpts
          BY <3>2
        <4>2. Len(etodo') = 1
          <5>1. Len(etodo') = Len(etodo) - 1
            BY <1>4
          <5>2. Len(etodo) = 2
            BY <1>11, <3>2
          <5> QED BY <5>1, <5>2
        <4> QED BY <1>2, <1>3, <1>11, <3>2, <4>1, <4>2, Zenon
      <3> QED BY <1>10, <3>1, <3>2
    <2> QED BY <2>1, <2>2 DEF MessageInv
  <1>14. WillingServerDelivers'
    BY <1>2, <1>3 DEF EmailInv, WillingServerDelivers, Email!WillingServerDelivers,
       Email!Usable
  <1> QED BY <1>2, <1>9, <1>12, <1>13, <1>14 DEF EmailInv

\* The steps that end a call.
EmailReturns ==
    \/ Email!DialFails \/ Email!Refuse \/ Email!WriteFails
    \/ Email!Delivered \/ Email!EndFails

\* What a call returns: nil only when the server has taken the message, and an
\* error of a willing server only with settings that are not usable.
LEMMA ReturnFacts ==
    ASSUME EmailInv, EmailStep, EmailReturns
    PROVE  /\ etodo # <<>> /\ etodo' = <<>> /\ enc' = FALSE /\ rcpts' = {}
           /\ etry' = etry /\ egot' = egot /\ einbox' \subseteq einbox
           /\ \E r \in {"nil", "err"} :
                  /\ eres' = [eres EXCEPT ![etry] = r]
                  /\ r = "nil" => egot[etry] # {}
                  /\ r = "err" => ~smtpWilling \/ ~Email!Usable
  <1> DEFINE m == Before(cfg)
             n == Len(cfg.to)
             k == Done
  <1>1. /\ cfg \in Settings /\ Sizes /\ Rest(etodo) /\ DialogueInv
    BY Unfolded DEF EmailInv
  <1>2. /\ etodo # <<>> /\ etodo' = <<>> /\ enc' = FALSE /\ rcpts' = {}
        /\ etry' = etry /\ egot' = egot /\ einbox' \subseteq einbox
    BY DEF EmailReturns, Email!DialFails, Email!Refuse, Email!WriteFails,
       Email!Delivered, Email!EndFails, Email!Return, Email!AtCommand, Email!At,
       Email!Idle
  <1>3. /\ k \in Nat /\ k <= m + n + 3
        /\ Email!At("AUTH") <=> k = m - 1 /\ cfg.auth
        /\ Email!At("RCPT") <=> k - m \in 1 .. n
        /\ Email!At("END") <=> k = m + n + 3
        /\ k - m \in 1 .. n => Head(etodo).i = k - m
    BY <1>1, <1>2, Position
  <1>4. /\ m \in Nat /\ n \in Nat /\ DOMAIN cfg.to = 1 .. n
    BY <1>1 DEF Sizes
  <1>5. enc <=> \/ cfg.tlsMode = "tls" /\ k >= 1
                \/ cfg.tlsMode = "starttls" /\ k >= 3
    BY <1>1, <1>2 DEF DialogueInv
  <1>6. CASE Email!DialFails \/ Email!WriteFails \/ Email!EndFails
    <2>1. ~smtpWilling /\ eres' = [eres EXCEPT ![etry] = "err"]
      BY <1>6 DEF Email!DialFails, Email!WriteFails, Email!EndFails, Email!Return
    <2> QED BY <1>2, <2>1
  <1>7. CASE Email!Delivered
    <2>1. k = m + n + 3 /\ egot[etry] # {} /\ eres' = [eres EXCEPT ![etry] = "nil"]
      BY <1>3, <1>7 DEF Email!Delivered, Email!Return
    <2> QED BY <1>2, <2>1
  <1>8. CASE Email!Refuse
    <2>1. /\ eres' = [eres EXCEPT ![etry] = "err"]
          /\ ~smtpWilling \/ ~Email!WellFormed \/ (Email!At("AUTH") /\ ~Email!MayAuth)
      BY <1>8 DEF Email!Refuse, Email!Return
    <2>2. ~Email!WellFormed => ~Email!Usable
      <3>1. Email!At("RCPT") => Head(etodo).i \in DOMAIN cfg.to
        BY <1>3, <1>4
      <3> QED BY <3>1 DEF Email!WellFormed, Email!Usable
    <2>3. Email!At("AUTH") /\ ~Email!MayAuth => ~Email!Usable
      <3> SUFFICES ASSUME Email!At("AUTH"), ~enc, ~cfg.local PROVE ~Email!Usable
        BY DEF Email!MayAuth
      <3>1. cfg.auth /\ k = m - 1
        BY <1>3
      <3>2. cfg.tlsMode \in {"starttls", "tls", "none"}
        BY <1>1 DEF Settings, TLSModes
      <3>3. m = 2 + (IF cfg.tlsMode = "starttls" THEN 1 ELSE 0) + 1
        BY <3>1 DEF Before
      <3> HIDE DEF m, k
      <3>4. cfg.tlsMode = "none"
        BY <1>5, <3>1, <3>2, <3>3
      <3> QED BY <3>1, <3>4 DEF Email!Usable
    <2> QED BY <1>2, <2>1, <2>2, <2>3
  <1> QED BY <1>6, <1>7, <1>8 DEF EmailReturns

LEMMA ReturnKeeps ==
    ASSUME EmailInv, EmailStep, EmailReturns
    PROVE  EmailInv'
  <1>1. /\ cfg \in Settings /\ Sizes /\ Rest(etodo)
        /\ etry \in Nat /\ etry <= Attempts
        /\ eres \in [1 .. Attempts -> {"none", "nil", "err"}]
        /\ egot \in [1 .. Attempts -> SUBSET DOMAIN cfg.to]
        /\ einbox \subseteq [try : 1 .. etry, to : SUBSET DOMAIN cfg.to]
    BY Unfolded
  <1>2. cfg' = cfg /\ smtpWilling' = smtpWilling /\ BuiltInv'
    BY SettingsStay
  <1>3. /\ etodo # <<>> /\ etodo' = <<>> /\ enc' = FALSE /\ rcpts' = {}
        /\ etry' = etry /\ egot' = egot /\ einbox' \subseteq einbox
    BY ReturnFacts
  <1>4. PICK r \in {"nil", "err"} :
            /\ eres' = [eres EXCEPT ![etry] = r]
            /\ r = "nil" => egot[etry] # {}
            /\ r = "err" => ~smtpWilling \/ ~Email!Usable
    BY ReturnFacts
  <1>5. DialogueInv /\ MessageInv /\ Email!WillingServerDelivers
    BY DEF EmailInv, WillingServerDelivers
  <1>6. etry \in 1 .. Attempts
    BY <1>1, <1>3, <1>5, ChannelsAssumption DEF DialogueInv
  <1>7. /\ eres' \in [1 .. Attempts -> {"none", "nil", "err"}]
        /\ eres'[etry] = r
        /\ \A a \in 1 .. Attempts : a # etry => eres'[a] = eres[a]
    BY <1>1, <1>4, <1>6
  <1>8. DialogueInv'
    <2>1. Len(etodo') = 0 /\ Len(etodo') <= All(cfg')
      BY <1>1, <1>2, <1>3 DEF Sizes
    <2>2. ~enc'
      BY <1>3
    <2>3. rcpts' = {i \in DOMAIN cfg'.to : etodo' # <<>> /\ Before(cfg') + i < Done'}
      BY <1>3
    <2> QED BY <1>3, <2>1, <2>2, <2>3 DEF DialogueInv
  <1>9. Email!TypeOK'
    <2>1. einbox' \subseteq [try : 1 .. etry', to : SUBSET DOMAIN cfg'.to]
      BY <1>1, <1>2, <1>3
    <2>2. etodo' \in Seq(Commands) /\ rcpts' \subseteq DOMAIN cfg'.to
      BY <1>3
    <2>3. enc' \in BOOLEAN
      BY <1>3
    <2> QED BY <1>1, <1>2, <1>3, <1>7, <2>1, <2>2, <2>3, ChannelsAssumption
        DEF Email!TypeOK, Commands
  <1>10. MessageInv'
    <2>1. ASSUME NEW a \in 1 .. Attempts
          PROVE  /\ egot'[a] \in {{}, DOMAIN cfg'.to}
                 /\ a > etry' => egot'[a] = {} /\ eres'[a] = "none"
                 /\ eres'[a] = "nil" => egot'[a] # {}
      <3>1. CASE a = etry
        BY <1>1, <1>2, <1>3, <1>4, <1>5, <1>7, <3>1 DEF MessageInv
      <3>2. CASE a # etry
        BY <1>2, <1>3, <1>5, <1>7, <3>2 DEF MessageInv
      <3> QED BY <3>1, <3>2
    <2>2. ASSUME NEW x \in einbox'
          PROVE  x.to = DOMAIN cfg'.to /\ egot'[x.try] = {} /\ eres'[x.try] # "nil"
      <3>1. /\ x \in einbox /\ x.to = DOMAIN cfg.to /\ egot[x.try] = {}
            /\ eres[x.try] # "nil" /\ x.try \in 1 .. Attempts
        BY <1>1, <1>3, <1>5, ChannelsAssumption DEF MessageInv
      <3>2. x.try = etry => r # "nil"
        BY <1>4, <3>1
      <3> QED BY <1>2, <1>3, <1>7, <3>1, <3>2
    <2> QED BY <1>3, <2>1, <2>2 DEF MessageInv
  <1>11. WillingServerDelivers'
    <2>1. Email!Usable' <=> Email!Usable
      BY <1>2 DEF Email!Usable
    <2>2. ASSUME smtpWilling, Email!Usable, NEW a \in 1 .. Attempts
          PROVE  eres'[a] \in {"none", "nil"}
      <3>1. CASE a = etry
        BY <1>4, <1>7, <2>2, <3>1
      <3>2. CASE a # etry
        BY <1>5, <1>7, <2>2, <3>2 DEF Email!WillingServerDelivers
      <3> QED BY <3>1, <3>2
    <2> QED BY <1>2, <2>1, <2>2 DEF WillingServerDelivers, Email!WillingServerDelivers
  <1> QED BY <1>2, <1>8, <1>9, <1>10, <1>11 DEF EmailInv

\* The server takes a message.
LEMMA DeliverKeeps ==
    ASSUME EmailInv, EmailStep, Email!Deliver
    PROVE  EmailInv'
  <1>1. /\ cfg \in Settings
        /\ etry \in Nat /\ etry <= Attempts
        /\ egot \in [1 .. Attempts -> SUBSET DOMAIN cfg.to]
        /\ einbox \subseteq [try : 1 .. etry, to : SUBSET DOMAIN cfg.to]
    BY Unfolded
  <1>2. cfg' = cfg /\ smtpWilling' = smtpWilling /\ BuiltInv'
    BY SettingsStay
  <1>3. PICK m \in einbox : /\ egot' = [egot EXCEPT ![m.try] = m.to]
                            /\ einbox' = einbox \ {m}
                            /\ UNCHANGED <<etry, etodo, enc, rcpts, eres>>
    BY DEF Email!Deliver
  <1>4. /\ DialogueInv /\ MessageInv /\ Email!WillingServerDelivers /\ Email!TypeOK
    BY DEF EmailInv, WillingServerDelivers
  <1>5. /\ m.to = DOMAIN cfg.to /\ egot[m.try] = {} /\ eres[m.try] # "nil"
        /\ m.try = etry /\ etodo # <<>> => Len(etodo) = 1
        /\ m.try \in 1 .. Attempts
    BY <1>1, <1>4, ChannelsAssumption DEF MessageInv
  <1>6. /\ egot' \in [1 .. Attempts -> SUBSET DOMAIN cfg.to]
        /\ egot'[m.try] = DOMAIN cfg.to
        /\ \A a \in 1 .. Attempts : a # m.try => egot'[a] = egot[a]
    BY <1>1, <1>3, <1>5
  <1>7. Email!TypeOK'
    BY <1>2, <1>3, <1>4, <1>6 DEF Email!TypeOK
  <1>8. DialogueInv'
    BY <1>2, <1>3, <1>4 DEF DialogueInv, Done
  <1>9. MessageInv'
    <2>1. ASSUME NEW a \in 1 .. Attempts
          PROVE  /\ egot'[a] \in {{}, DOMAIN cfg'.to}
                 /\ a > etry' => egot'[a] = {} /\ eres'[a] = "none"
                 /\ eres'[a] = "nil" => egot'[a] # {}
                 /\ a = etry' /\ etodo' # <<>> /\ Len(etodo') # 1 => egot'[a] = {}
      <3>1. CASE a = m.try
        <4>1. ~(a > etry)
          BY <1>1, <3>1
        <4> QED BY <1>2, <1>3, <1>5, <1>6, <3>1, <4>1
      <3>2. CASE a # m.try
        BY <1>2, <1>3, <1>4, <1>6, <3>2 DEF MessageInv
      <3> QED BY <3>1, <3>2
    <2>2. ASSUME NEW x \in einbox'
          PROVE  /\ x.to = DOMAIN cfg'.to /\ egot'[x.try] = {} /\ eres'[x.try] # "nil"
                 /\ x.try = etry' /\ etodo' # <<>> => Len(etodo') = 1
      <3>1. /\ x \in einbox /\ x # m /\ x.to = DOMAIN cfg.to /\ egot[x.try] = {}
            /\ eres[x.try] # "nil" /\ x.try \in 1 .. Attempts
            /\ x.try = etry /\ etodo # <<>> => Len(etodo) = 1
        BY <1>1, <1>3, <1>4, ChannelsAssumption DEF MessageInv
      <3>2. x.try # m.try
        <4>1. /\ x \in [try : 1 .. etry, to : SUBSET DOMAIN cfg.to]
              /\ m \in [try : 1 .. etry, to : SUBSET DOMAIN cfg.to]
          BY <1>1, <3>1
        <4> QED BY <1>5, <3>1, <4>1
      <3> QED BY <1>2, <1>3, <1>6, <3>1, <3>2
    <2> QED BY <2>1, <2>2 DEF MessageInv
  <1>10. WillingServerDelivers'
    BY <1>2, <1>3, <1>4 DEF WillingServerDelivers, Email!WillingServerDelivers,
       Email!Usable
  <1> QED BY <1>2, <1>7, <1>8, <1>9, <1>10 DEF EmailInv

LEMMA EmailStepKeeps ==
    ASSUME EmailInv, EmailStep
    PROVE  EmailInv'
  BY BeginKeeps, AdvanceKeeps, ReturnKeeps, DeliverKeeps
     DEF EmailStep, Email!Next, Email!ServerStep, EmailReturns

\* The email channel before its first call.
Fresh ==
    /\ BuiltInv
    /\ etry = 0 /\ etodo = <<>> /\ enc = FALSE /\ rcpts = {} /\ einbox = {}
    /\ eres = [a \in 1 .. Attempts |-> "none"]
    /\ egot = [a \in 1 .. Attempts |-> {}]

LEMMA FreshIsFine == Fresh => EmailInv
  <1> SUFFICES ASSUME Fresh PROVE EmailInv
    OBVIOUS
  <1>1. cfg \in Settings /\ Sizes
    BY SizeFacts DEF Fresh, BuiltInv
  <1>2. Email!TypeOK
    <2>1. enc \in BOOLEAN
      BY DEF Fresh
    <2> QED BY <2>1, ChannelsAssumption DEF Fresh, Email!TypeOK
  <1>3. DialogueInv
    <2>1. ~enc
      BY DEF Fresh
    <2>2. Len(etodo) = 0 /\ Len(etodo) <= All(cfg)
      BY <1>1 DEF Fresh, Sizes
    <2> QED BY <2>1, <2>2 DEF Fresh, DialogueInv
  <1>4. MessageInv
    BY DEF Fresh, MessageInv
  <1>5. WillingServerDelivers
    BY DEF Fresh, WillingServerDelivers, Email!WillingServerDelivers
  <1> QED BY <1>2, <1>3, <1>4, <1>5 DEF Fresh, EmailInv

\* The inductive invariant of both channels and of the start.
ChannelsInv ==
    /\ BootInv /\ EmailInv /\ PachcaInv
    /\ channels \subseteq {"pachca", "email"}

LEMMA ChannelsInit == Init => ChannelsInv
  <1> SUFFICES ASSUME Init PROVE ChannelsInv
    OBVIOUS
  <1>1. NoSettings \in Settings
    <2>1. FALSE \in BOOLEAN /\ <<>> \in Seq({"bare", "named"})
      OBVIOUS
    <2> QED BY <2>1 DEF NoSettings, Settings, TLSModes
  <1>2. BuiltInv
    BY <1>1 DEF Init, Email!Init, BuiltInv
  <1>3. Fresh
    BY <1>2 DEF Init, Email!Init, Fresh
  <1>4. Pachca!Init /\ channels = {}
    BY DEF Init
  <1> QED BY <1>3, <1>4, BootInit, FreshIsFine, PachcaInit DEF ChannelsInv

\* run() builds the channels.
LEMMA BootFacts ==
    ASSUME BootInv, EmailInv, Boot
    PROVE  /\ boot' = <<>> /\ channels' \subseteq {"pachca", "email"}
           /\ cfg' \in Settings
           /\ "email" \in channels' => cfg'.to # <<>>
           /\ etodo = <<>> /\ egot = [a \in 1 .. Attempts |-> {}]
           /\ Fresh'
  <1>1. PICK e : IsEnvironment(e) /\ boot = <<e>>
    BY DEF BootInv, Boot
  <1>2. boot[1] = e /\ boot # <<>>
    BY <1>1
  <1>3. /\ boot' = <<>>
        /\ channels' \in {{}, {ch \in {"pachca", "email"} :
                                 /\ Load(e) = "nil"
                                 /\ ch = "pachca" => PachcaEnabled(e)
                                 /\ ch = "email" => EmailEnabled(e)}}
        /\ cfg' = IF "email" \in channels' THEN EmailSettings(Configured(e))
                  ELSE NoSettings
        /\ UNCHANGED <<etry, etodo, enc, rcpts, eres, egot, einbox>>
    BY <1>2 DEF Boot
  <1>4. channels' \subseteq {"pachca", "email"}
    BY <1>3
  <1>5. "email" \in channels' => Load(e) = "nil" /\ EmailEnabled(e)
    BY <1>3
  <1>6. NoSettings \in Settings
    <2>1. FALSE \in BOOLEAN /\ <<>> \in Seq({"bare", "named"})
      OBVIOUS
    <2> QED BY <2>1 DEF NoSettings, Settings, TLSModes
  <1>7. cfg' \in Settings /\ ("email" \in channels' => cfg'.to # <<>>)
    BY <1>1, <1>3, <1>5, <1>6, AcceptedSettings, Zenon
  <1>8. /\ etry = 0 /\ etodo = <<>> /\ einbox = {}
        /\ eres = [a \in 1 .. Attempts |-> "none"]
        /\ egot = [a \in 1 .. Attempts |-> {}]
    BY <1>2 DEF EmailInv, BuiltInv
  <1>9. enc = FALSE
    BY <1>8 DEF EmailInv, DialogueInv, Email!TypeOK
  <1>10. rcpts = {}
    BY <1>8 DEF EmailInv, DialogueInv
  <1>11. BuiltInv'
    BY <1>3, <1>7, <1>8 DEF BuiltInv
  <1>12. Fresh'
    BY <1>3, <1>8, <1>9, <1>10, <1>11 DEF Fresh
  <1> QED BY <1>3, <1>4, <1>7, <1>8, <1>12

LEMMA ChannelsNext == ChannelsInv /\ [Next]_vars => ChannelsInv'
  <1>1. ASSUME ChannelsInv, Boot PROVE ChannelsInv'
    <2>1. Fresh' /\ channels' \subseteq {"pachca", "email"}
      BY <1>1, BootFacts DEF ChannelsInv
    <2>2. EmailInv'
      BY <2>1, FreshIsFine, PTL
    <2>3. PachcaInv'
      BY <1>1 DEF ChannelsInv, Boot, PachcaInv, Pachca!TypeOK, pvars
    <2>4. BootInv'
      BY <1>1 DEF Boot, BootInv
    <2> QED BY <2>1, <2>2, <2>3, <2>4 DEF ChannelsInv
  <1>2. ASSUME ChannelsInv, EmailStep PROVE ChannelsInv'
    <2>1. EmailInv'
      BY <1>2, EmailStepKeeps DEF ChannelsInv
    <2>2. UNCHANGED <<boot, channels, pvars>>
      BY <1>2 DEF EmailStep
    <2>3. PachcaInv'
      BY <1>2, <2>2 DEF ChannelsInv, PachcaInv, Pachca!TypeOK, pvars
    <2> QED BY <1>2, <2>1, <2>2, <2>3 DEF ChannelsInv, BootInv
  <1>3. ASSUME ChannelsInv, UNCHANGED <<boot, channels, cfg, evars>>
        PROVE  EmailInv' /\ BootInv' /\ channels' \subseteq {"pachca", "email"}
    BY <1>3, ZenonT(60) DEF ChannelsInv, BootInv, EmailInv, Email!TypeOK, BuiltInv, DialogueInv,
       MessageInv, Done, WillingServerDelivers, Email!WillingServerDelivers,
       Email!Usable, evars
  <1>4. ASSUME ChannelsInv, PachcaStep PROVE ChannelsInv'
    <2>1. UNCHANGED <<boot, channels, cfg, evars>> /\ Pachca!Next
      BY <1>4 DEF PachcaStep
    <2>2. PachcaInv'
      BY <1>4, <2>1, PachcaNext DEF ChannelsInv
    <2> QED BY <1>3, <1>4, <2>1, <2>2 DEF ChannelsInv
  <1>5. ASSUME ChannelsInv, UNCHANGED vars PROVE ChannelsInv'
    <2>1. UNCHANGED <<boot, channels, cfg, evars, pvars>>
      BY <1>5 DEF vars
    <2>2. PachcaInv'
      BY <1>5, <2>1 DEF ChannelsInv, PachcaInv, Pachca!TypeOK, pvars
    <2> QED BY <1>3, <1>5, <2>1, <2>2 DEF ChannelsInv
  <1> QED BY <1>1, <1>2, <1>4, <1>5 DEF Next

\* The channels' inductive invariant holds for every environment and any number
\* of recipients and calls.
THEOREM ChannelsInvariant == Spec => []ChannelsInv
  BY ChannelsInit, ChannelsNext, PTL DEF Spec

\* Types, of the sender's settings too: whatever the environment, a channel is
\* built only with a TLS mode it knows and with addresses.
THEOREM ChannelsTypes == Spec => []TypeOK
  <1>1. ChannelsInv => TypeOK
    <2> SUFFICES ASSUME ChannelsInv PROVE TypeOK
      OBVIOUS
    <2>1. Len(boot) <= 1
      <3>1. CASE boot = <<>>
        BY <3>1
      <3>2. CASE \E e : boot = <<e>>
        BY <3>2
      <3> QED BY <3>1, <3>2 DEF ChannelsInv, BootInv
    <2>2. cfg \in Settings
      BY DEF ChannelsInv, EmailInv, BuiltInv
    <2> QED BY <2>1, <2>2 DEF ChannelsInv, EmailInv, PachcaInv, TypeOK, Settings
  <1> QED BY <1>1, ChannelsInvariant, PTL

\* With "tls" or "starttls" no credentials, addresses or messages go over an
\* unencrypted connection, whatever the server does and whoever the recipients.
THEOREM Encryption == Spec => []EncryptedAsConfigured
  <1>1. ChannelsInv => EncryptedAsConfigured
    <2> SUFFICES ASSUME ChannelsInv, etodo # <<>>, cfg.tlsMode # "none"
                 PROVE  \/ enc
                        \/ Email!At("DIAL") \/ Email!At("GREETING")
                        \/ Email!At("STARTTLS")
      BY DEF EncryptedAsConfigured, Email!EncryptedAsConfigured, Email!Idle
    <2>1. EmailInv /\ DialogueInv
      BY DEF ChannelsInv, EmailInv
    <2>2. cfg \in Settings /\ Rest(etodo)
      BY <2>1, Unfolded
    <2>3. /\ Done \in Nat
          /\ Email!At("DIAL") <=> Done = 0
          /\ Email!At("GREETING") <=> Done = 1
          /\ Email!At("STARTTLS") <=> Done = 2 /\ cfg.tlsMode = "starttls"
      BY <2>2, Position
    <2>4. enc <=> \/ cfg.tlsMode = "tls" /\ Done >= 1
                  \/ cfg.tlsMode = "starttls" /\ Done >= 3
      BY <2>1 DEF DialogueInv
    <2>5. cfg.tlsMode \in {"starttls", "tls"}
      BY <2>2 DEF Settings, TLSModes
    <2> QED BY <2>3, <2>4, <2>5
  <1> QED BY <1>1, ChannelsInvariant, PTL

\* No call of Send with usable settings returns an error when the server is
\* willing; a nil return means that everybody was given the message (below).
THEOREM WillingServer == Spec => []WillingServerDelivers
  <1>1. ChannelsInv => WillingServerDelivers
    BY DEF ChannelsInv, EmailInv
  <1> QED BY <1>1, ChannelsInvariant, PTL

-----------------------------------------------------------------------------
(* Both channels are what the worker expects                               *)

\* Every step of the Pachca client, and every other step of the process, is one
\* of the contract's or leaves what the worker sees alone.
THEOREM PachcaRefinement == Spec => PachcaIsChannel
  <1>1. Init => Pachca!Contract!Init
    BY DEF Init, Pachca!Init, Pachca!Contract!Init
  <1>2. ChannelsInv /\ [Next]_vars => [Pachca!Contract!Next]_(Pachca!Contract!cvars)
    <2> SUFFICES ASSUME ChannelsInv, [Next]_vars
                 PROVE  [Pachca!Contract!Next]_(Pachca!Contract!cvars)
      OBVIOUS
    <2>1. CASE PachcaStep
      BY <2>1, PachcaRefines DEF ChannelsInv, PachcaStep
    <2>2. CASE Boot \/ EmailStep \/ UNCHANGED vars
      <3>1. UNCHANGED pvars
        BY <2>2 DEF Boot, EmailStep, vars
      <3>2. UNCHANGED Pachca!Contract!cvars
        BY <3>1 DEF pvars, Pachca!Contract!cvars
      <3> QED BY <3>2
    <2> QED BY <2>1, <2>2 DEF Next
  <1>3. Spec => Pachca!Contract!Init /\ [][Pachca!Contract!Next]_(Pachca!Contract!cvars)
    BY <1>1, <1>2, ChannelsInvariant, PTL DEF Spec
  <1> QED BY <1>3 DEF PachcaIsChannel, Pachca!PachcaIsChannel, Pachca!Contract!Spec

\* Every step of the sender and of its server is one that the worker expects of
\* a channel, or none that it sees.
LEMMA EmailRefines ==
    ASSUME EmailInv, EmailStep
    PROVE  [Email!Contract!Next]_(Email!Contract!cvars)
  <1> DEFINE who(a) == IF egot[a] = {} THEN "nobody"
                       ELSE IF egot[a] = DOMAIN cfg.to THEN "all" ELSE "some"
             got == [a \in 1 .. Attempts |-> who(a)]
  <1>1. /\ etry \in Nat /\ etry <= Attempts
        /\ eres \in [1 .. Attempts -> {"none", "nil", "err"}]
        /\ egot \in [1 .. Attempts -> SUBSET DOMAIN cfg.to]
        /\ einbox \subseteq [try : 1 .. etry, to : SUBSET DOMAIN cfg.to]
    BY Unfolded
  <1>2. cfg' = cfg
    BY SettingsStay
  <1>3. MessageInv /\ DialogueInv
    BY DEF EmailInv
  <1>4. DOMAIN cfg.to # {}
    <2>1. cfg.to \in Seq({"bare", "named"}) /\ cfg.to # <<>>
      BY DEF EmailInv, BuiltInv, EmailStep, Settings
    <2>2. ASSUME NEW T, NEW t \in Seq(T), t # <<>> PROVE 1 \in DOMAIN t
      BY <2>2
    <2> QED BY <2>1, <2>2, Zenon
  <1>5. egot' = egot => got' = got
    BY <1>2
  <1>6. CASE Email!Begin
    <2>1. /\ etodo = <<>> /\ etry < Attempts /\ etry' = etry + 1
          /\ etodo' = Email!Dialogue(cfg) /\ eres' = eres /\ egot' = egot
      BY <1>6 DEF Email!Begin, Email!Idle, Email!hvars
    <2>2. etodo' # <<>>
      <3>1. cfg \in Settings /\ All(cfg) \in Nat /\ All(cfg) # 0
        BY Unfolded DEF Sizes
      <3>2. Len(etodo') # 0
        BY <2>1, <3>1, DialogueFacts
      <3>3. Len(<<>>) = 0
        OBVIOUS
      <3> QED BY <3>2, <3>3, Zenon
    <2>3. Email!Contract!Begin
      BY <1>5, <2>1, <2>2 DEF Email!Contract!Begin, Email!Idle
    <2> QED BY <2>3 DEF Email!Contract!Next
  <1>7. CASE Email!Dial \/ Email!Accept \/ Email!WriteBody
    <2>1. /\ etodo # <<>> /\ Len(etodo) # 1 /\ etodo' = Tail(etodo)
          /\ etry' = etry /\ eres' = eres /\ egot' = egot
      BY <1>7, AcceptedSoFar
    <2>2. etodo' # <<>>
      BY <1>2, <2>1, Advance, Unfolded
    <2>3. UNCHANGED Email!Contract!cvars
      BY <1>5, <2>1, <2>2 DEF Email!Contract!cvars, Email!Idle
    <2> QED BY <2>3
  <1>8. CASE Email!Deliver
    <2>1. PICK m \in einbox : /\ egot' = [egot EXCEPT ![m.try] = m.to]
                              /\ UNCHANGED <<etry, etodo, eres>>
      BY <1>8 DEF Email!Deliver
    <2> DEFINE a == m.try
    <2>2. /\ m.to = DOMAIN cfg.to /\ egot[a] = {} /\ eres[a] # "nil"
          /\ a \in 1 .. Attempts /\ a <= etry
      BY <1>1, <1>3, ChannelsAssumption DEF MessageInv
    <2>3. /\ egot'[a] = DOMAIN cfg.to
          /\ \A b \in 1 .. Attempts : b # a => egot'[b] = egot[b]
      BY <1>1, <2>1, <2>2
    <2> HIDE DEF a
    <2>4. got[a] = "nobody" /\ got' = [got EXCEPT ![a] = "all"]
      <3>1. got'= [b \in 1 .. Attempts |-> IF b = a THEN "all" ELSE got[b]]
        BY <1>2, <1>4, <2>2, <2>3
      <3> QED BY <2>2, <3>1
    <2>5. Email!Contract!Deliver(a)
      BY <2>1, <2>2, <2>4 DEF Email!Contract!Deliver, Email!Idle
    <2> QED BY <2>2, <2>5 DEF Email!Contract!Next
  <1>9. CASE EmailReturns
    <2>1. etodo # <<>> /\ etodo' = <<>> /\ etry' = etry /\ egot' = egot
      BY <1>9, ReturnFacts
    <2>2. PICK r \in {"nil", "err"} : /\ eres' = [eres EXCEPT ![etry] = r]
                                      /\ r = "nil" => egot[etry] # {}
      BY <1>9, ReturnFacts
    <2>3. etry \in 1 .. Attempts
      BY <1>1, <1>3, <2>1, ChannelsAssumption DEF DialogueInv
    <2>4. r = "nil" => got[etry] = "all"
      <3>1. egot[etry] \in {{}, DOMAIN cfg.to}
        BY <1>3, <2>3 DEF MessageInv
      <3> QED BY <1>4, <2>2, <2>3, <3>1
    <2>5. Email!Contract!Return(r)
      BY <1>5, <2>1, <2>2, <2>4 DEF Email!Contract!Return, Email!Idle
    <2> QED BY <2>2, <2>5 DEF Email!Contract!Next
  <1> QED BY <1>6, <1>7, <1>8, <1>9
      DEF EmailStep, Email!Next, Email!ServerStep, EmailReturns

\* Nil means that the message was given to every configured recipient, a
\* refusal of one of them that nobody gets it, and no call gives it twice.
THEOREM EmailRefinement == Spec => EmailIsChannel
  <1>1. Init => Email!Contract!Init
    BY DEF Init, Email!Init, Email!Contract!Init, Email!Idle
  <1>2. ChannelsInv /\ [Next]_vars => [Email!Contract!Next]_(Email!Contract!cvars)
    <2> SUFFICES ASSUME ChannelsInv, [Next]_vars
                 PROVE  [Email!Contract!Next]_(Email!Contract!cvars)
      OBVIOUS
    <2>1. CASE EmailStep
      BY <2>1, EmailRefines DEF ChannelsInv
    <2>2. CASE Boot
      <3>1. etodo = <<>> /\ egot = [a \in 1 .. Attempts |-> {}]
        BY <2>2, BootFacts DEF ChannelsInv
      <3>2. UNCHANGED <<etry, etodo, eres, egot>>
        BY <2>2 DEF Boot
      <3>3. UNCHANGED Email!Contract!cvars
        BY <3>1, <3>2 DEF Email!Contract!cvars, Email!Idle
      <3> QED BY <3>3
    <2>3. CASE PachcaStep \/ UNCHANGED vars
      <3>1. UNCHANGED <<cfg, evars>>
        BY <2>3 DEF PachcaStep, vars
      <3>2. UNCHANGED Email!Contract!cvars
        BY <3>1 DEF evars, Email!Contract!cvars, Email!Idle
      <3> QED BY <3>2
    <2> QED BY <2>1, <2>2, <2>3 DEF Next
  <1>3. Spec => Email!Contract!Init /\ [][Email!Contract!Next]_(Email!Contract!cvars)
    BY <1>1, <1>2, ChannelsInvariant, PTL DEF Spec
  <1> QED BY <1>3 DEF EmailIsChannel, Email!EmailIsChannel, Email!Contract!Spec
=============================================================================
