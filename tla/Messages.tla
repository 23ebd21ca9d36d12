------------------------------ MODULE Messages ------------------------------
(***************************************************************************)
(* From a webhook payload to the messages about it: ValidatePayload, then, *)
(* for what was accepted and stored, NewNotification and the formatters.   *)
(* What Validation keeps of a map of labels is only its length; here an    *)
(* accepted alert gets its labels and the end of its time.                 *)
(***************************************************************************)
EXTENDS Validation, Formatters

CONSTANTS Inputs,      \* the payloads that are received
          Details,     \* labels and endsAt of an alert
          Truncated    \* values of truncatedAlerts

\* A label that has no value is one that the alert does not have.
ASSUME MessagesAssumption ==
    /\ Inputs \subseteq AlertGroup
    /\ \A d \in Details : \A k \in DOMAIN d.labels : d.labels[k] # ""

VARIABLES group,     \* the payload
          verdict,   \* what ValidatePayload returned
          note,      \* the notification; none before
          sent       \* the messages about it

vars == <<group, verdict, note, sent>>

Init ==
    /\ group \in Inputs
    /\ verdict = "none"
    /\ note = <<>>
    /\ sent = <<>>

Validate ==
    /\ verdict = "none"
    /\ verdict' = ValidatePayload(group)
    /\ UNCHANGED <<group, note, sent>>

\* Alertmanager's commonLabels: what all alerts of the group share.  The code
\* takes the field of the payload as it comes and does not compare it with the
\* alerts.
CommonLabels(alerts) ==
    LET shared == {k \in DOMAIN alerts[1].labels : \A i \in DOMAIN alerts :
                       Get(alerts[i].labels, k) = alerts[1].labels[k]}
    IN  [k \in shared |-> alerts[1].labels[k]]

NewNotification(g, alerts, truncated) ==
    [status |-> g.status, receiver |-> g.receiver, alerts |-> alerts,
     commonLabels |-> CommonLabels(alerts), externalURL |-> g.externalURL,
     alertsCount |-> Len(g.alerts), truncatedAlerts |-> truncated]

\* The dispatcher makes a notification of an accepted group.
Notify ==
    /\ verdict = "nil" /\ note = <<>>
    /\ \E d \in [DOMAIN group.alerts -> Details], t \in Truncated :
           note' = <<NewNotification(group,
                        [i \in DOMAIN group.alerts |->
                            [status |-> group.alerts[i].status,
                             annotations |-> group.alerts[i].annotations,
                             generatorURL |-> group.alerts[i].generatorURL,
                             labels |-> d[i].labels, endsAt |-> d[i].endsAt]],
                        t)>>
    /\ UNCHANGED <<group, verdict, sent>>

\* Both channels format it; no templates, or they cannot be rendered.
Format ==
    /\ note # <<>> /\ sent = <<>>
    /\ sent' = <<[pachca |-> FormatNotification(note[1]),
                  subject |-> FormatSubject(note[1]),
                  email |-> FormatBody(note[1], "error")]>>
    /\ UNCHANGED <<group, verdict, note>>

Next == Validate \/ Notify \/ Format

Spec == Init /\ [][Next]_vars

-----------------------------------------------------------------------------
(* Properties                                                              *)

\* ValidatePayload accepts exactly the well-formed payloads, and refuses with
\* each sentinel error only a payload that has that kind of defect: 413 is
\* never given for a payload within the limits, nor 400 for a complete one.
ValidationIsExact ==
    /\ verdict = "nil" => WellFormed(group)
    /\ verdict = Invalid => ~Complete(group)
    /\ verdict = TooLarge => ~Bounded(group)

\* How often a message shows label k of alert i, in its header or in the
\* alert's own block.
Shown(msg, i, k) ==
    Cardinality({j \in DOMAIN msg.alerts[i].labels : msg.alerts[i].labels[j] = k})
    + (IF k \in filteredLabels /\ msg.header[k] = note[1].alerts[i].labels[k]
       THEN 1 ELSE 0)

\* Both channels show every alert, no label of it twice, and every label that
\* the alerts share or that is neither alertname nor severity.  Nothing is
\* said of an alertname or severity that the alerts do not share: the comments
\* on filteredLabels have it "already in header", where it is not.
LabelsShownOnce ==
    sent # <<>> =>
        \A msg \in {sent[1].pachca, sent[1].email} :
            /\ DOMAIN msg.alerts = DOMAIN group.alerts
            /\ \A i \in DOMAIN msg.alerts, k \in ToSet(LabelOrder) :
                   k \in DOMAIN note[1].alerts[i].labels =>
                       /\ Shown(msg, i, k) <= 1
                       /\ k \notin filteredLabels \/ k \in DOMAIN note[1].commonLabels
                              => Shown(msg, i, k) = 1
=============================================================================
