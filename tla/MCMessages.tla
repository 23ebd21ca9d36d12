----------------------------- MODULE MCMessages -----------------------------
(***************************************************************************)
(* Messages for TLC, over bounded inputs.                                  *)
(***************************************************************************)
EXTENDS Messages

GoodAlert == [fingerprint |-> "text", status |-> "firing", alertname |-> "text",
              generatorURL |-> "text", labels |-> "text", annotations |-> "text"]

\* A good alert, and every way to spoil one field of it.
AlmostGood == {a \in Alert : \E f \in DOMAIN a :
                    \A e \in DOMAIN a \ {f} : a[e] = GoodAlert[e]}

\* Up to one alert more than MaxAlerts.
AlertSeqs == UNION {[1 .. n -> AlmostGood] : n \in 0 .. MaxAlerts + 1}

\* Every combination of the group's fields with every sequence of alerts.
AllInputs == [groupKey : {"", "long"} \cup Groups, receiver : Text,
              status : AlertStatus, externalURL : Text, version : {"4", "other"},
              alerts : AlertSeqs]

\* Two priority labels that sort the other way round, and one that is neither.
Labels == <<"alertname", "exported_pod", "pod", "severity", "zone">>

\* An alert always has a name; two values are enough to differ.
SomeDetails ==
    {[labels |-> [k \in {"alertname"} \cup more |->
                     IF k = "alertname" THEN name ELSE "x"],
      endsAt |-> e] :
         more \in SUBSET (ToSet(Labels) \ {"alertname"}), name \in {"x", "y"},
         e \in BOOLEAN}
=============================================================================
