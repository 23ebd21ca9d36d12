----------------------------- MODULE Formatters -----------------------------
(***************************************************************************)
(* The two formatters: what the messages show of a notification and in     *)
(* which order.  Wording, markup, escaping and the formats of times are    *)
(* left out.  A map of labels is a function on the names it has; iterating *)
(* over a Go map and sorting is the sorted sequence of its names.          *)
(***************************************************************************)
EXTENDS Naturals, FiniteSets, SequencesExt

CONSTANT LabelOrder   \* the names of labels, sorted as strings

ASSUME FormattersAssumption ==
    /\ LabelOrder \in Seq(STRING)
    /\ \A i, j \in DOMAIN LabelOrder : LabelOrder[i] = LabelOrder[j] => i = j

filteredLabels == {"alertname", "severity"}

priorityLabels ==
    <<"namespace", "exported_namespace", "pod", "exported_pod", "container",
      "exported_container", "deployment", "statefulset", "daemonset",
      "replicaset">>

\* The loop that writes those of the names that are among the keys.
Among(names, keys) ==
    LET kept[i \in 0 .. Len(names)] ==
            IF i = 0 THEN <<>>
            ELSE IF names[i] \in keys THEN Append(kept[i - 1], names[i])
            ELSE kept[i - 1]
    IN  kept[Len(names)]

\* Go's labels[k]: the empty string if there is none.
Get(labels, k) == IF k \in DOMAIN labels THEN labels[k] ELSE ""

countByStatus(alerts, status) ==
    Cardinality({i \in DOMAIN alerts : alerts[i].status = status})

StatusLabel(n) == IF n.status = "resolved" THEN "RESOLVED" ELSE "FIRING"

\* The alerts the subject and Pachca's header count.
Counted(n) ==
    countByStatus(n.alerts, IF n.status = "resolved" THEN "resolved" ELSE "firing")

\* Either formatter's block for an alert, with the labels it lists.
AlertBlock(num, a, labels) ==
    [num |-> num, status |-> a.status, summary |-> a.annotations,
     ended |-> a.status = "resolved" /\ a.endsAt, labels |-> labels,
     source |-> a.generatorURL]

-----------------------------------------------------------------------------
(* internal/channel/pachca/formatter.go                                    *)

\* Seeded fault: a label shown among the first is not deleted from the rest.
writeLabels_Twice(labels) ==
    LET keys == DOMAIN labels \ filteredLabels
    IN  Among(priorityLabels, keys) \o Among(LabelOrder, keys)

\* Priority labels in their order, then the rest alphabetically.
writeLabels(labels) ==
    LET keys == DOMAIN labels \ filteredLabels
    IN  Among(priorityLabels, keys)
            \o Among(LabelOrder, keys \ ToSet(priorityLabels))

writeHeader(n) ==
    [state |-> StatusLabel(n), count |-> Counted(n),
     alertname |-> Get(n.commonLabels, "alertname"),
     severity |-> Get(n.commonLabels, "severity")]

FormatNotification(n) ==
    [header |-> writeHeader(n), link |-> n.externalURL,
     alerts |-> [i \in DOMAIN n.alerts |->
                    AlertBlock(i, n.alerts[i], writeLabels(n.alerts[i].labels))],
     truncated |-> n.truncatedAlerts]

-----------------------------------------------------------------------------
(* internal/channel/email/formatter.go                                     *)

FilterLabels(labels) == Among(LabelOrder, DOMAIN labels \ filteredLabels)

FormatSubject(n) ==
    [state |-> StatusLabel(n), count |-> Counted(n),
     alertname |-> Get(n.commonLabels, "alertname"), receiver |-> n.receiver]

FormatBodyDefault(n) ==
    [header |-> [state |-> StatusLabel(n), count |-> n.alertsCount,
                 alertname |-> Get(n.commonLabels, "alertname"),
                 severity |-> Get(n.commonLabels, "severity")],
     link |-> n.externalURL,
     alerts |-> [i \in DOMAIN n.alerts |->
                    AlertBlock(i, n.alerts[i], FilterLabels(n.alerts[i].labels))],
     truncated |-> n.truncatedAlerts]

\* TemplateFormatter: what the engine renders, or the default if it cannot.
FormatBody(n, rendered) ==
    IF rendered = "error" THEN FormatBodyDefault(n) ELSE rendered
=============================================================================
