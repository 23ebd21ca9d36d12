--------------------------- MODULE MessagesProofs ---------------------------
(***************************************************************************)
(* The verdict about a payload, for every payload and every limit, and     *)
(* what the messages show of the labels, for every alphabet of labels.     *)
(* What the formatters' loops leave is shown by the least counterexample.  *)
(***************************************************************************)
EXTENDS Messages, ValidationProofs, FiniteSetTheorems

\* The payload stays what it was and the verdict is ValidatePayload's.
VInv ==
    /\ group \in AlertGroup
    /\ verdict \in {"none", ValidatePayload(group)}

\* Whatever is received is judged by ValidatePayload once, and by nothing else.
LEMMA VInvHolds == Spec => []VInv
  <1>1. Init => VInv
    BY MessagesAssumption DEF Init, VInv
  <1>2. VInv /\ [Next]_vars => VInv'
    BY DEF VInv, Next, Validate, Notify, Format, vars
  <1> QED BY <1>1, <1>2, PTL DEF Spec

\* ValidatePayload accepts only well-formed payloads, and refuses with each
\* sentinel error only a payload that has that kind of defect.
THEOREM AcceptedIsWellFormed == Spec => []ValidationIsExact
  <1>1. VInv => ValidationIsExact
    <2> SUFFICES ASSUME VInv PROVE ValidationIsExact
      OBVIOUS
    <2>1. /\ ValidatePayload(group) = "nil" <=> WellFormed(group)
          /\ ValidatePayload(group) = Invalid => ~Complete(group)
          /\ ValidatePayload(group) = TooLarge => ~Bounded(group)
      BY ValidatePayloadIsExact DEF VInv
    <2> QED BY <2>1 DEF VInv, ValidationIsExact, Invalid, TooLarge
  <1> QED BY <1>1, VInvHolds, PTL

-----------------------------------------------------------------------------
(* The labels that the messages show                                       *)

\* The names of labels; that a literal is a string is beyond the provers.
Name == STRING \cup ToSet(priorityLabels)

\* The rounds of the loop over the first n names.
Rounds(names, keys, n, kept) ==
    kept = [i \in 0 .. n |->
               IF i = 0 THEN <<>>
               ELSE IF names[i] \in keys THEN Append(kept[i - 1], names[i])
               ELSE kept[i - 1]]

LEMMA RoundsExist ==
    ASSUME NEW names, NEW keys, NEW n \in Nat
    PROVE  \E kept : Rounds(names, keys, n, kept)
  <1> DEFINE T == {m \in Nat : ~ \E kept : Rounds(names, keys, m, kept)}
  <1>1. SUFFICES ASSUME T # {} PROVE FALSE
    OBVIOUS
  <1>2. PICK m \in T : \A y \in T : m <= y
    <2>1. T \in SUBSET Nat
      OBVIOUS
    <2> HIDE DEF T
    <2> QED BY <1>1, <2>1, LeastIsLeast
  <1>3. m \in Nat /\ ~ \E kept : Rounds(names, keys, m, kept)
    BY <1>2
  <1>4. m # 0
    <2> DEFINE z == [i \in 0 .. 0 |-> <<>>]
    <2>1. z = [i \in 0 .. 0 |-> z[i]] /\ \A i \in 0 .. 0 : i = 0 /\ z[i] = <<>>
      OBVIOUS
    <2> HIDE DEF z
    <2>2. Rounds(names, keys, 0, z)
      BY <2>1 DEF Rounds
    <2> QED BY <1>3, <2>2
  <1>5. m - 1 \in Nat /\ m - 1 \notin T
    BY <1>2, <1>3, <1>4
  <1>6. PICK f : Rounds(names, keys, m - 1, f)
    BY <1>5
  <1> DEFINE last == IF names[m] \in keys THEN Append(f[m - 1], names[m]) ELSE f[m - 1]
             g == [i \in 0 .. m |-> IF i = m THEN last ELSE f[i]]
  <1>7. \A i \in 0 .. m - 1 :
            f[i] = IF i = 0 THEN <<>>
                   ELSE IF names[i] \in keys THEN Append(f[i - 1], names[i])
                   ELSE f[i - 1]
    BY <1>5, <1>6 DEF Rounds
  <1>8. \A i \in 0 .. m : i # 0 => g[i - 1] = f[i - 1]
    <2> HIDE DEF last
    <2> SUFFICES ASSUME NEW i \in 0 .. m, i # 0 PROVE g[i - 1] = f[i - 1]
      OBVIOUS
    <2>1. i - 1 \in 0 .. m /\ i - 1 # m
      BY <1>3
    <2> QED BY <2>1
  <1>9. \A i \in 0 .. m :
            g[i] = IF i = 0 THEN <<>>
                   ELSE IF names[i] \in keys THEN Append(g[i - 1], names[i])
                   ELSE g[i - 1]
    <2> SUFFICES ASSUME NEW i \in 0 .. m
                 PROVE  g[i] = IF i = 0 THEN <<>>
                               ELSE IF names[i] \in keys THEN Append(g[i - 1], names[i])
                               ELSE g[i - 1]
      OBVIOUS
    <2>1. CASE i = m
      BY <1>3, <1>4, <1>8, <2>1
    <2>2. CASE i # m
      <3>1. i \in 0 .. m - 1 /\ g[i] = f[i]
        BY <1>3, <2>2
      <3> HIDE DEF g
      <3> QED BY <1>7, <1>8, <3>1
    <2> QED BY <2>1, <2>2
  <1>10. Rounds(names, keys, m, g)
    <2>1. g = [i \in 0 .. m |-> g[i]]
      OBVIOUS
    <2> HIDE DEF g
    <2> QED BY <1>9, <2>1 DEF Rounds
  <1> QED BY <1>3, <1>10

\* The names without repetition that have been kept after the first i: those
\* that are keys, and each of them once.
Keeps(names, keys, i, s) ==
    /\ s \in Seq(Name)
    /\ \A p \in DOMAIN s : s[p] \in keys /\ \E j \in 1 .. i : s[p] = names[j]
    /\ \A j \in 1 .. i : names[j] \in keys => \E p \in DOMAIN s : s[p] = names[j]
    /\ \A p, q \in DOMAIN s : s[p] = s[q] => p = q

LEMMA Appended ==
    ASSUME NEW T, NEW s \in Seq(T), NEW x \in T
    PROVE  /\ Append(s, x) \in Seq(T)
           /\ Len(s) \in Nat /\ DOMAIN s = 1 .. Len(s)
           /\ DOMAIN Append(s, x) = 1 .. Len(s) + 1
           /\ \A p \in DOMAIN s : Append(s, x)[p] = s[p]
           /\ Append(s, x)[Len(s) + 1] = x
  OBVIOUS

LEMMA KeepsOne ==
    ASSUME NEW names, NEW keys, NEW i \in Nat, NEW s, Keeps(names, keys, i, s),
           names[i + 1] \in Name, \A j \in 1 .. i : names[j] # names[i + 1]
    PROVE  Keeps(names, keys, i + 1,
                 IF names[i + 1] \in keys THEN Append(s, names[i + 1]) ELSE s)
  <1> DEFINE x == names[i + 1]
  <1>1. \A j \in 1 .. i + 1 : j \in 1 .. i \/ j = i + 1
    OBVIOUS
  <1>2. \A j \in 1 .. i : j \in 1 .. i + 1
    OBVIOUS
  <1>3. CASE x \notin keys
    BY <1>1, <1>2, <1>3 DEF Keeps
  <1>4. CASE x \in keys
    <2> HIDE DEF x
    <2> DEFINE t == Append(s, x)
    <2>1. s \in Seq(Name) /\ x \in Name
      BY DEF Keeps, x
    <2>2. /\ t \in Seq(Name)
          /\ Len(s) \in Nat /\ DOMAIN s = 1 .. Len(s)
          /\ DOMAIN t = 1 .. Len(s) + 1
          /\ \A p \in DOMAIN s : t[p] = s[p]
          /\ t[Len(s) + 1] = x
      BY <2>1, Appended
    <2>3. /\ \A p \in DOMAIN t : p \in DOMAIN s \/ p = Len(s) + 1
          /\ \A p \in DOMAIN s : p \in DOMAIN t
          /\ Len(s) + 1 \in DOMAIN t
      BY <2>2
    <2>4. i + 1 \in 1 .. i + 1
      OBVIOUS
    <2>5. \A p \in DOMAIN s : s[p] # x
      BY DEF Keeps, x
    <2> HIDE DEF t
    <2>6. \A p \in DOMAIN t : t[p] \in keys /\ \E j \in 1 .. i + 1 : t[p] = names[j]
      <3> SUFFICES ASSUME NEW p \in DOMAIN t
                   PROVE  t[p] \in keys /\ \E j \in 1 .. i + 1 : t[p] = names[j]
        OBVIOUS
      <3>1. CASE p \in DOMAIN s
        <4>1. t[p] = s[p] /\ s[p] \in keys
          BY <2>2, <3>1 DEF Keeps
        <4>2. PICK j \in 1 .. i : s[p] = names[j]
          BY <3>1 DEF Keeps
        <4> QED BY <1>2, <4>1, <4>2
      <3>2. CASE p = Len(s) + 1
        <4>1. t[p] = names[i + 1]
          BY <2>2, <3>2 DEF x
        <4> QED BY <1>4, <2>4, <4>1 DEF x
      <3> QED BY <2>3, <3>1, <3>2
    <2>7. \A j \in 1 .. i + 1 : names[j] \in keys => \E p \in DOMAIN t : t[p] = names[j]
      BY <1>1, <2>2, <2>3, ZenonT(60) DEF Keeps, x
    <2>8. \A p, q \in DOMAIN t : t[p] = t[q] => p = q
      BY <2>2, <2>3, <2>5, ZenonT(60) DEF Keeps
    <2>9. Keeps(names, keys, i + 1, t)
      BY <2>2, <2>6, <2>7, <2>8 DEF Keeps
    <2> QED BY <1>4, <2>9 DEF t, x
  <1> QED BY <1>3, <1>4

\* The loop keeps every name that is a key, and no name twice.
LEMMA AmongFacts ==
    ASSUME NEW names \in Seq(Name), NEW keys,
           \A i, j \in DOMAIN names : names[i] = names[j] => i = j
    PROVE  Keeps(names, keys, Len(names), Among(names, keys))
  <1> DEFINE n == Len(names)
             kept == CHOOSE f : Rounds(names, keys, n, f)
  <1>1. n \in Nat /\ DOMAIN names = 1 .. n /\ \A i \in 1 .. n : names[i] \in Name
    OBVIOUS
  <1>2. Rounds(names, keys, n, kept)
    BY <1>1, RoundsExist
  <1>3. Among(names, keys) = kept[n]
    BY DEF Among, Rounds
  <1> HIDE DEF kept, n
  <1>4. \A i \in 0 .. n :
            kept[i] = IF i = 0 THEN <<>>
                      ELSE IF names[i] \in keys THEN Append(kept[i - 1], names[i])
                      ELSE kept[i - 1]
    BY <1>2 DEF Rounds
  <1> DEFINE T == {i \in 0 .. n : ~Keeps(names, keys, i, kept[i])}
  <1>5. ASSUME T # {} PROVE FALSE
    <2>1. T \in SUBSET Nat
      BY <1>1
    <2>2. PICK m \in T : \A y \in T : m <= y
      <3> HIDE DEF T
      <3> QED BY <1>5, <2>1, LeastIsLeast
    <2>3. m \in 0 .. n /\ ~Keeps(names, keys, m, kept[m])
      OBVIOUS
    <2>4. m # 0
      <3>1. <<>> \in Seq(Name) /\ DOMAIN <<>> = {} /\ 1 .. 0 = {}
        OBVIOUS
      <3>2. Keeps(names, keys, 0, <<>>)
        BY <3>1, Zenon DEF Keeps
      <3> QED BY <1>1, <1>4, <2>3, <3>2
    <2> DEFINE i == m - 1
    <2>5. i \in Nat /\ i \in 0 .. n /\ i \notin T /\ m = i + 1 /\ i + 1 \in 1 .. n
      BY <1>1, <2>2, <2>3, <2>4
    <2>6. Keeps(names, keys, i, kept[i])
      BY <2>5
    <2> HIDE DEF i
    <2>7. \A j \in 1 .. i : names[j] # names[i + 1]
      BY <1>1, <2>5
    <2>8. Keeps(names, keys, i + 1,
                IF names[i + 1] \in keys THEN Append(kept[i], names[i + 1]) ELSE kept[i])
      BY <1>1, <2>5, <2>6, <2>7, KeepsOne
    <2>9. kept[i + 1] = IF names[i + 1] \in keys THEN Append(kept[i], names[i + 1])
                        ELSE kept[i]
      BY <1>4, <2>3, <2>4, <2>5 DEF i
    <2> QED BY <2>3, <2>5, <2>8, <2>9
  <1>6. Keeps(names, keys, n, kept[n])
    BY <1>1, <1>5
  <1> QED BY <1>3, <1>6 DEF n

\* How often a list has a name.
Count(s, k) == Cardinality({j \in DOMAIN s : s[j] = k})

LEMMA CountFacts ==
    ASSUME NEW s, NEW k, \A p, q \in DOMAIN s : s[p] = s[q] => p = q
    PROVE  Count(s, k) = IF \E p \in DOMAIN s : s[p] = k THEN 1 ELSE 0
  <1> DEFINE P == {j \in DOMAIN s : s[j] = k}
  <1>1. CASE \E p \in DOMAIN s : s[p] = k
    <2>1. PICK p \in DOMAIN s : s[p] = k
      BY <1>1
    <2>2. P = {p}
      BY <2>1
    <2> HIDE DEF P
    <2>3. Cardinality(P) = 1
      BY <2>2, FS_Singleton
    <2> QED BY <1>1, <2>3 DEF Count, P
  <1>2. CASE ~ \E p \in DOMAIN s : s[p] = k
    <2>1. P = {}
      BY <1>2
    <2> HIDE DEF P
    <2>2. Cardinality(P) = 0
      BY <2>1, FS_EmptySet
    <2> QED BY <1>2, <2>2 DEF Count, P
  <1> QED BY <1>1, <1>2

\* A sequence over a set is one over a larger set.
LEMMA Wider ==
    ASSUME NEW T, NEW W, NEW s \in Seq(T)
    PROVE  s \in Seq(T \cup W) /\ s \in Seq(W \cup T)
  OBVIOUS

\* No priority label is listed twice.
LEMMA PriorityFacts ==
    /\ priorityLabels \in Seq(Name)
    /\ \A i, j \in DOMAIN priorityLabels : priorityLabels[i] = priorityLabels[j] => i = j
  <1>1. priorityLabels \in Seq(Name)
    <2>1. priorityLabels = [i \in 1 .. 10 |-> priorityLabels[i]]
      BY DEF priorityLabels
    <2>2. priorityLabels \in Seq(ToSet(priorityLabels))
      <3>1. ASSUME NEW s, s = [i \in 1 .. 10 |-> s[i]]
            PROVE  s \in Seq(ToSet(s))
        BY <3>1 DEF ToSet
      <3> QED BY <2>1, <3>1
    <2> QED BY <2>2, Wider DEF Name
  <1>2. \A i, j \in DOMAIN priorityLabels : priorityLabels[i] = priorityLabels[j] => i = j
    BY DEF priorityLabels
  <1> QED BY <1>1, <1>2

\* Either formatter lists a label of an alert once, but for the two that belong
\* in the header.
LEMMA ListedOnce ==
    ASSUME NEW labels, NEW k \in ToSet(LabelOrder), k \in DOMAIN labels
    PROVE  /\ Count(FilterLabels(labels), k) = IF k \in filteredLabels THEN 0 ELSE 1
           /\ Count(writeLabels(labels), k) = IF k \in filteredLabels THEN 0 ELSE 1
  <1> DEFINE K == DOMAIN labels \ filteredLabels
             n == Len(LabelOrder)
             N == Len(priorityLabels)
             u == Among(priorityLabels, K)
             v == Among(LabelOrder, K \ ToSet(priorityLabels))
             w == Among(LabelOrder, K)
  <1>1. /\ LabelOrder \in Seq(Name)
        /\ \A i, j \in DOMAIN LabelOrder : LabelOrder[i] = LabelOrder[j] => i = j
    BY FormattersAssumption, Wider DEF Name
  <1>2. /\ Keeps(LabelOrder, K, n, w)
        /\ Keeps(LabelOrder, K \ ToSet(priorityLabels), n, v)
        /\ Keeps(priorityLabels, K, N, u)
    BY <1>1, PriorityFacts, AmongFacts
  <1>3. PICK m \in 1 .. n : k = LabelOrder[m]
    <2>1. DOMAIN LabelOrder = 1 .. n
      BY <1>1
    <2> QED BY <2>1 DEF ToSet
  <1>4. \A x : x \in ToSet(priorityLabels) <=> \E i \in 1 .. N : x = priorityLabels[i]
    <2>1. DOMAIN priorityLabels = 1 .. N
      BY PriorityFacts
    <2> QED BY <2>1 DEF ToSet
  <1>5. k \in K <=> k \notin filteredLabels
    OBVIOUS
  <1>6. FilterLabels(labels) = w /\ writeLabels(labels) = u \o v
    BY DEF FilterLabels, writeLabels
  <1> HIDE DEF K, n, N, u, v, w
  <1>7. Count(w, k) = IF k \in filteredLabels THEN 0 ELSE 1
    <2>1. (\E p \in DOMAIN w : w[p] = k) <=> k \in K
      BY <1>2, <1>3, Zenon DEF Keeps
    <2>2. \A p, q \in DOMAIN w : w[p] = w[q] => p = q
      BY <1>2 DEF Keeps
    <2> QED BY <1>5, <2>1, <2>2, CountFacts
  <1> DEFINE s == u \o v
  <1>8. /\ u \in Seq(Name) /\ v \in Seq(Name)
        /\ Len(u) \in Nat /\ Len(v) \in Nat
        /\ DOMAIN u = 1 .. Len(u) /\ DOMAIN v = 1 .. Len(v)
    BY <1>2 DEF Keeps
  <1>9. /\ DOMAIN s = 1 .. Len(u) + Len(v)
        /\ \A i \in 1 .. Len(u) : s[i] = u[i]
        /\ \A i \in 1 .. Len(v) : s[Len(u) + i] = v[i]
    <2>1. u \in Seq(Name) /\ v \in Seq(Name)
      BY <1>8
    <2> QED BY <2>1
  <1> HIDE DEF s
  <1>10. \A i \in DOMAIN s : \/ i \in DOMAIN u /\ s[i] = u[i]
                             \/ /\ i - Len(u) \in DOMAIN v /\ s[i] = v[i - Len(u)]
                                /\ i \in Nat
    <2> SUFFICES ASSUME NEW i \in DOMAIN s
                 PROVE  \/ i \in DOMAIN u /\ s[i] = u[i]
                        \/ /\ i - Len(u) \in DOMAIN v /\ s[i] = v[i - Len(u)]
                           /\ i \in Nat
      OBVIOUS
    <2>1. CASE i <= Len(u)
      BY <1>8, <1>9, <2>1
    <2>2. CASE ~(i <= Len(u))
      <3>1. i - Len(u) \in 1 .. Len(v) /\ i = Len(u) + (i - Len(u)) /\ i \in Nat
        BY <1>8, <1>9, <2>2
      <3> QED BY <1>8, <1>9, <3>1
    <2> QED BY <2>1, <2>2
  <1>11. /\ \A i \in DOMAIN u : i \in DOMAIN s /\ s[i] = u[i]
         /\ \A i \in DOMAIN v : Len(u) + i \in DOMAIN s /\ s[Len(u) + i] = v[i]
    BY <1>8, <1>9
  <1>12. /\ \A p, q \in DOMAIN u : u[p] = u[q] => p = q
         /\ \A p, q \in DOMAIN v : v[p] = v[q] => p = q
         /\ \A p \in DOMAIN u : u[p] \in K /\ u[p] \in ToSet(priorityLabels)
         /\ \A p \in DOMAIN v : v[p] \in K /\ v[p] \notin ToSet(priorityLabels)
    BY <1>2, <1>4, Zenon DEF Keeps
  <1>13. \A p, q \in DOMAIN s : s[p] = s[q] => p = q
    <2> SUFFICES ASSUME NEW p \in DOMAIN s, NEW q \in DOMAIN s, s[p] = s[q]
                 PROVE  p = q
      OBVIOUS
    <2>1. CASE p \in DOMAIN u /\ s[p] = u[p]
      <3>1. q \in DOMAIN u /\ s[q] = u[q]
        BY <1>10, <1>12, <2>1
      <3> QED BY <1>12, <2>1, <3>1
    <2>2. CASE p - Len(u) \in DOMAIN v /\ s[p] = v[p - Len(u)] /\ p \in Nat
      <3>1. q - Len(u) \in DOMAIN v /\ s[q] = v[q - Len(u)] /\ q \in Nat
        BY <1>10, <1>12, <2>2
      <3>2. p - Len(u) = q - Len(u)
        BY <1>12, <2>2, <3>1
      <3> QED BY <1>8, <2>2, <3>1, <3>2
    <2> QED BY <1>10, <2>1, <2>2
  <1>14. (\E p \in DOMAIN s : s[p] = k) <=> k \in K
    <2>1. (\E p \in DOMAIN s : s[p] = k) => k \in K
      BY <1>10, <1>12
    <2>2. ASSUME k \in K PROVE \E p \in DOMAIN s : s[p] = k
      <3>1. CASE k \in ToSet(priorityLabels)
        <4>1. PICK i \in 1 .. N : k = priorityLabels[i]
          BY <1>4, <3>1
        <4>2. priorityLabels[i] \in K
          BY <2>2, <4>1
        <4>3. \E p \in DOMAIN u : u[p] = k
          BY <1>2, <4>1, <4>2, Zenon DEF Keeps
        <4> QED BY <1>11, <4>3
      <3>2. CASE k \notin ToSet(priorityLabels)
        <4>1. k \in K \ ToSet(priorityLabels)
          BY <2>2, <3>2
        <4>2. \E p \in DOMAIN v : v[p] = k
          BY <1>2, <1>3, <4>1, Zenon DEF Keeps
        <4> QED BY <1>11, <4>2
      <3> QED BY <3>1, <3>2
    <2> QED BY <2>1, <2>2
  <1>15. Count(s, k) = IF k \in filteredLabels THEN 0 ELSE 1
    BY <1>5, <1>13, <1>14, CountFacts
  <1> QED BY <1>6, <1>7, <1>15 DEF s

\* What the dispatcher's notification is made of: the alerts of the group with
\* some labels and ends.
Detailed(g, d) ==
    [i \in DOMAIN g.alerts |->
        [status |-> g.alerts[i].status, annotations |-> g.alerts[i].annotations,
         generatorURL |-> g.alerts[i].generatorURL,
         labels |-> d[i].labels, endsAt |-> d[i].endsAt]]

\* The notification is one of the group, and the messages are those about it.
MInv ==
    /\ note # <<>> =>
           \E d \in [DOMAIN group.alerts -> Details], t \in Truncated :
               note = <<NewNotification(group, Detailed(group, d), t)>>
    /\ sent # <<>> =>
           /\ note # <<>>
           /\ sent = <<[pachca |-> FormatNotification(note[1]),
                        subject |-> FormatSubject(note[1]),
                        email |-> FormatBody(note[1], "error")]>>

LEMMA MInvHolds == Spec => []MInv
  <1>1. Init => MInv
    BY DEF Init, MInv
  <1>2. MInv /\ [Next]_vars => MInv'
    <2> SUFFICES ASSUME MInv, [Next]_vars PROVE MInv'
      OBVIOUS
    <2>1. CASE Validate
      BY <2>1, Zenon DEF MInv, Validate
    <2>2. CASE Notify
      <3>1. sent = <<>> /\ sent' = <<>>
        BY <2>2 DEF MInv, Notify
      <3>2. \E d \in [DOMAIN group.alerts -> Details], t \in Truncated :
                note' = <<NewNotification(group, Detailed(group, d), t)>>
        BY <2>2, Zenon DEF Notify, Detailed
      <3>3. group' = group
        BY <2>2 DEF Notify
      <3> QED BY <3>1, <3>2, <3>3, Zenon DEF MInv
    <2>3. CASE Format
      BY <2>3, Zenon DEF MInv, Format
    <2>4. CASE UNCHANGED vars
      BY <2>4, Zenon DEF MInv, vars
    <2> QED BY <2>1, <2>2, <2>3, <2>4 DEF Next
  <1> QED BY <1>1, <1>2, PTL DEF Spec

\* What a header says of an alertname or a severity that an alert has is the
\* alert's own if the alerts share it, and nothing otherwise.
LEMMA HeaderTells ==
    ASSUME NEW alerts, NEW i \in DOMAIN alerts, NEW k,
           k \in DOMAIN alerts[i].labels, alerts[i].labels[k] # ""
    PROVE  Get(CommonLabels(alerts), k) = alerts[i].labels[k]
               <=> k \in DOMAIN CommonLabels(alerts)
  BY DEF Get, CommonLabels

\* What both messages say of a notification.
LEMMA BothShow ==
    ASSUME NEW n, NEW msg \in {FormatNotification(n), FormatBody(n, "error")}
    PROVE  /\ DOMAIN msg.alerts = DOMAIN n.alerts
           /\ \A i \in DOMAIN n.alerts :
                  msg.alerts[i].labels \in {writeLabels(n.alerts[i].labels),
                                            FilterLabels(n.alerts[i].labels)}
           /\ \A k \in filteredLabels : msg.header[k] = Get(n.commonLabels, k)
  <1>1. CASE msg = FormatNotification(n)
    BY <1>1 DEF FormatNotification, writeHeader, AlertBlock, filteredLabels
  <1>2. CASE msg = FormatBody(n, "error")
    BY <1>2 DEF FormatBody, FormatBodyDefault, AlertBlock, filteredLabels
  <1> QED BY <1>1, <1>2

\* Every alert is shown, no label of it twice by either channel, in the alert's
\* block or in the header, and every label but an alertname or severity that
\* the alerts do not share.
THEOREM LabelsAreShown == Spec => []LabelsShownOnce
  <1>1. MInv => LabelsShownOnce
    <2> SUFFICES ASSUME MInv, sent # <<>>,
                        NEW msg \in {sent[1].pachca, sent[1].email}
                 PROVE  /\ DOMAIN msg.alerts = DOMAIN group.alerts
                        /\ \A i \in DOMAIN msg.alerts, k \in ToSet(LabelOrder) :
                               k \in DOMAIN note[1].alerts[i].labels =>
                                   /\ Shown(msg, i, k) <= 1
                                   /\ k \notin filteredLabels
                                          \/ k \in DOMAIN note[1].commonLabels
                                          => Shown(msg, i, k) = 1
      BY Zenon DEF LabelsShownOnce
    <2>1. PICK d \in [DOMAIN group.alerts -> Details] : \E t \in Truncated :
              note = <<NewNotification(group, Detailed(group, d), t)>>
      BY Zenon DEF MInv
    <2> DEFINE n == note[1]
               alerts == Detailed(group, d)
    <2>2. n.alerts = alerts /\ n.commonLabels = CommonLabels(alerts)
      <3>1. PICK t \in Truncated : note = <<NewNotification(group, alerts, t)>>
        BY <2>1
      <3>2. n = NewNotification(group, alerts, t)
        BY <3>1
      <3> HIDE DEF n, alerts
      <3> QED BY <3>2 DEF NewNotification
    <2>3. /\ DOMAIN alerts = DOMAIN group.alerts
          /\ \A i \in DOMAIN alerts : alerts[i].labels = d[i].labels
      BY DEF Detailed
    <2>4. msg \in {FormatNotification(n), FormatBody(n, "error")}
      <3>1. sent = <<[pachca |-> FormatNotification(n),
                      subject |-> FormatSubject(n),
                      email |-> FormatBody(n, "error")]>>
        BY Zenon DEF MInv
      <3> HIDE DEF n
      <3> QED BY <3>1
    <2> HIDE DEF n, alerts
    <2>5. /\ DOMAIN msg.alerts = DOMAIN n.alerts
          /\ \A i \in DOMAIN n.alerts :
                 msg.alerts[i].labels \in {writeLabels(n.alerts[i].labels),
                                           FilterLabels(n.alerts[i].labels)}
          /\ \A k \in filteredLabels : msg.header[k] = Get(n.commonLabels, k)
      BY <2>4, BothShow
    <2>6. ASSUME NEW i \in DOMAIN msg.alerts, NEW k \in ToSet(LabelOrder),
                 k \in DOMAIN n.alerts[i].labels
          PROVE  /\ Shown(msg, i, k) <= 1
                 /\ k \notin filteredLabels \/ k \in DOMAIN n.commonLabels
                        => Shown(msg, i, k) = 1
      <3> DEFINE labels == n.alerts[i].labels
                 block == msg.alerts[i].labels
      <3>1. i \in DOMAIN alerts /\ labels = alerts[i].labels
        BY <2>2, <2>5
      <3>2. labels[k] # ""
        <4>1. labels = d[i].labels /\ d[i] \in Details
          BY <2>3, <3>1
        <4> QED BY <2>6, <4>1, MessagesAssumption
      <3>3. Count(block, k) = IF k \in filteredLabels THEN 0 ELSE 1
        <4>1. block \in {writeLabels(labels), FilterLabels(labels)}
          BY <2>2, <2>5, <3>1
        <4>2. k \in DOMAIN labels
          BY <2>6
        <4> HIDE DEF block, labels
        <4>3. /\ Count(FilterLabels(labels), k) = IF k \in filteredLabels THEN 0 ELSE 1
              /\ Count(writeLabels(labels), k) = IF k \in filteredLabels THEN 0 ELSE 1
          BY <4>2, ListedOnce
        <4> QED BY <4>1, <4>3
      <3>4. k \in filteredLabels =>
                (msg.header[k] = labels[k] <=> k \in DOMAIN n.commonLabels)
        <4>1. k \in DOMAIN alerts[i].labels /\ alerts[i].labels[k] # ""
          BY <2>6, <3>1, <3>2
        <4>2. Get(CommonLabels(alerts), k) = alerts[i].labels[k]
                  <=> k \in DOMAIN CommonLabels(alerts)
          BY <3>1, <4>1, HeaderTells, Zenon
        <4> QED BY <2>2, <2>5, <3>1, <4>2
      <3>5. Shown(msg, i, k) = Count(block, k)
                + (IF k \in filteredLabels /\ msg.header[k] = labels[k]
                   THEN 1 ELSE 0)
        BY DEF Shown, Count, n
      <3> HIDE DEF block, labels
      <3> QED BY <3>3, <3>4, <3>5
    <2>7. DOMAIN msg.alerts = DOMAIN group.alerts
      BY <2>2, <2>3, <2>5
    <2> QED BY <2>6, <2>7, Zenon DEF n
  <1> QED BY <1>1, MInvHolds, PTL
=============================================================================
