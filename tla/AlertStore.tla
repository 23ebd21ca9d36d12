----------------------------- MODULE AlertStore -----------------------------
(***************************************************************************)
(* The alert_groups table of internal/storage/sqlite and the statements    *)
(* that internal/alerts and internal/notify run against it.                *)
(*                                                                         *)
(* A row's payload is abstracted to the number of times the row has been   *)
(* upserted: two payloads of one group differ exactly when their versions  *)
(* do.  received_at keeps only its order; it has a resolution of one       *)
(* second, so different rows may carry the same stamp.                     *)
(***************************************************************************)
EXTENDS Integers, FiniteSets, Sequences

CONSTANT Groups   \* the group keys Alertmanager may send

ASSUME GroupsAssumption == IsFiniteSet(Groups)

NotificationStatus == {"absent", "pending", "sent"}

Row == [ver : Nat, status : NotificationStatus, at : Nat]

EmptyTable == [g \in Groups |-> [ver |-> 0, status |-> "absent", at |-> 0]]

\* INSERT ... ON CONFLICT(group_key) DO UPDATE: the new payload replaces the
\* old one, the row goes back to 'pending' and moves to the end of the order.
Save(tbl, g, stamp) ==
    [tbl EXCEPT ![g] = [ver |-> @.ver + 1, status |-> "pending", at |-> stamp]]

PendingKeys(tbl) == {g \in Groups : tbl[g].status = "pending"}

\* Seeded fault: SELECT without WHERE notification_status = 'pending'.
GetPending_AnyStatus(tbl, limit) ==
    LET rows == {g \in Groups : tbl[g].status # "absent"}
        n    == IF Cardinality(rows) < limit THEN Cardinality(rows) ELSE limit
    IN  {s \in [1 .. n -> rows] :
            \A i, j \in DOMAIN s : i < j =>
                s[i] # s[j] /\ tbl[s[i]].at <= tbl[s[j]].at}

\* SELECT ... WHERE notification_status = 'pending' ORDER BY received_at ASC
\* LIMIT ?: every answer the query may give.  Rows with equal stamps come in
\* any order, and LIMIT may cut anywhere among them.
GetPending(tbl, limit) ==
    LET pending == PendingKeys(tbl)
        n == IF Cardinality(pending) < limit THEN Cardinality(pending) ELSE limit
    IN  {s \in [1 .. n -> pending] :
            /\ \A i, j \in DOMAIN s : i < j =>
                   s[i] # s[j] /\ tbl[s[i]].at <= tbl[s[j]].at
            /\ \A g \in pending, i \in DOMAIN s :
                   (\A j \in DOMAIN s : s[j] # g) => tbl[s[i]].at <= tbl[g].at}

\* UPDATE alert_groups SET notification_status = 'sent' WHERE group_key = ?
\* The statement looks at the key only, never at the payload it was sent for.
MarkSent(tbl, g) == [tbl EXCEPT ![g].status = "sent"]

\* The statement touches a row; otherwise the caller gets ErrNotFound.
MarkSentFinds(tbl, g) == tbl[g].status # "absent"
=============================================================================
