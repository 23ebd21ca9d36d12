----------------------------- MODULE Validation -----------------------------
(***************************************************************************)
(* internal/alerts/validation.go: which webhook payloads are accepted, and *)
(* with which of the two sentinel errors the others are refused.           *)
(*                                                                         *)
(* A string is abstracted to what the checks ask of it: whether it is      *)
(* empty, within maxStringLength, or longer.  A map of labels or           *)
(* annotations is "long" when one of its keys or values is.  The code does *)
(* not check groupLabels, commonLabels and commonAnnotations, although the *)
(* comment on maxStringLength speaks of the string fields of payloads:     *)
(* they are left out here.                                                 *)
(***************************************************************************)
EXTENDS Naturals, Sequences

CONSTANTS Groups,      \* the group keys of ordinary length
          MaxAlerts    \* MAX_ALERTS_PER_PAYLOAD

ASSUME ValidationAssumption ==
    /\ {"", "long"} \cap Groups = {}
    /\ MaxAlerts \in Nat \ {0}

Text == {"", "text", "long"}

AlertStatus == {"", "firing", "resolved", "other"}

Alert == [fingerprint : Text, status : AlertStatus, alertname : Text,
          generatorURL : Text, labels : {"text", "long"},
          annotations : {"text", "long"}]

AlertGroup == [groupKey : {"", "long"} \cup Groups, receiver : Text,
               status : AlertStatus, externalURL : Text, version : {"4", "other"},
               alerts : Seq(Alert)]

\* The outcomes of Receive's validation; "nil" is no error.
Invalid == "ErrInvalidPayload"
TooLarge == "ErrPayloadTooLarge"

\* A check returns its error, or "nil".
Check(bad, err) == IF bad THEN err ELSE "nil"

Least(S) == CHOOSE i \in S : \A j \in S : i <= j

\* The checks run in order and the first that fails decides.
FirstError(checks) ==
    LET failing == {i \in DOMAIN checks : checks[i] # "nil"}
    IN  IF failing = {} THEN "nil" ELSE checks[Least(failing)]

Long(s) == Check(s = "long", TooLarge)

validateAlert(a) ==
    FirstError(<<Check(a.fingerprint = "", Invalid),
                 Check(a.status \notin {"firing", "resolved"}, Invalid),
                 Check(a.alertname = "", Invalid),
                 Long(a.fingerprint), Long(a.generatorURL),
                 Check("long" \in {a.labels, a.alertname}, TooLarge),
                 Long(a.annotations)>>)

\* The checks before the loop over the alerts.
ValidateGroup(g) ==
    FirstError(<<Check(g.groupKey = "", Invalid), Check(g.receiver = "", Invalid),
                 Check(g.status \notin {"firing", "resolved"}, Invalid),
                 Long(g.groupKey), Long(g.receiver), Long(g.externalURL),
                 Check(g.version # "4", Invalid), Check(g.alerts = <<>>, Invalid),
                 Check(Len(g.alerts) > MaxAlerts, TooLarge)>>)

\* Seeded fault: the loop over the alerts starts one too late.
ValidatePayload_SkipsFirst(g) ==
    IF ValidateGroup(g) # "nil" THEN ValidateGroup(g)
    ELSE FirstError([i \in 1 .. Len(g.alerts) - 1 |->
                        validateAlert(g.alerts[i + 1])])

ValidatePayload(g) ==
    IF ValidateGroup(g) # "nil" THEN ValidateGroup(g)
    ELSE FirstError([i \in 1 .. Len(g.alerts) |-> validateAlert(g.alerts[i])])

-----------------------------------------------------------------------------
(* The reference: what the rest of the program relies on                   *)

\* Nothing is missing: the database's NOT NULL columns, the formatters and the
\* mail's subject have something to show.
Complete(g) ==
    /\ "" \notin {g.groupKey, g.receiver}
    /\ g.status \in {"firing", "resolved"}
    /\ g.version = "4"
    /\ g.alerts # <<>>
    /\ \A i \in DOMAIN g.alerts :
           /\ "" \notin {g.alerts[i].fingerprint, g.alerts[i].alertname}
           /\ g.alerts[i].status \in {"firing", "resolved"}

\* Nothing is too large.
Bounded(g) ==
    /\ "long" \notin {g.groupKey, g.receiver, g.externalURL}
    /\ Len(g.alerts) <= MaxAlerts
    /\ \A i \in DOMAIN g.alerts :
           LET a == g.alerts[i]
           IN  "long" \notin {a.fingerprint, a.alertname, a.generatorURL,
                              a.labels, a.annotations}

WellFormed(g) == Complete(g) /\ Bounded(g)
=============================================================================
