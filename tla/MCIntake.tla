------------------------------ MODULE MCIntake ------------------------------
(***************************************************************************)
(* Intake for TLC: two deliveries to the same group with different numbers *)
(* of alerts, one to another group, and payloads that must be refused.     *)
(***************************************************************************)
EXTENDS Intake

Firing == [fingerprint |-> "text", status |-> "firing", alertname |-> "text",
           generatorURL |-> "text", labels |-> "text", annotations |-> "text"]

Of(key, alerts) ==
    [groupKey |-> key, receiver |-> "text", status |-> "firing",
     externalURL |-> "", version |-> "4", alerts |-> alerts]

\* Acceptable: to the same group with one alert and with two, and to another.
Good == {Of("k1", <<Firing>>), Of("k1", <<Firing, Firing>>),
         Of("k2", <<Firing, Firing>>)}

\* To be refused: one alert too many, a defect in the first alert, and in the
\* last one.
Bad == {Of("k1", <<Firing, Firing, Firing>>),
        Of("k2", <<[Firing EXCEPT !.alertname = ""], Firing>>),
        Of("k1", <<Firing, [Firing EXCEPT !.labels = "long"]>>)}

Payloads == Good \cup Bad
=============================================================================
