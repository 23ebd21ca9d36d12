-------------------------- MODULE ValidationProofs --------------------------
(***************************************************************************)
(* What the checks of ValidatePayload decide, for every payload and every  *)
(* limit on the number of alerts.                                          *)
(***************************************************************************)
EXTENDS Validation, WellFoundedInduction, TLAPS

\* Least finds the first failing check.
LEMMA LeastIsLeast ==
    ASSUME NEW T \in SUBSET Nat, T # {}
    PROVE  Least(T) \in T /\ \A j \in T : Least(T) <= j
  <1> DEFINE R == {ss \in Nat \X Nat : ss[1] < ss[2]}
  <1>1. IsWellFoundedOn(R, Nat)
    <2>1. OpToRel(<, Nat) = R
      BY DEF OpToRel
    <2> QED BY <2>1, NatLessThanWellFounded, Zenon
  <1>2. PICK x \in T : \A y \in T : ~(<<y, x>> \in R)
    <2> HIDE DEF R
    <2> QED BY <1>1, WFMin
  <1>3. ASSUME NEW y \in T PROVE x <= y
    <2>1. <<y, x>> \in Nat \X Nat /\ ~(<<y, x>> \in R)
      BY <1>2
    <2>2. ~(y < x)
      BY <2>1
    <2> QED BY <2>2
  <1> QED BY <1>3 DEF Least

\* A list of checks gives no error if none of them fails, and otherwise the
\* error of one that does.
LEMMA FirstErrorCases ==
    ASSUME NEW checks, DOMAIN checks \subseteq Nat
    PROVE  \/ /\ FirstError(checks) = "nil"
              /\ \A i \in DOMAIN checks : checks[i] = "nil"
           \/ /\ FirstError(checks) # "nil"
              /\ \E i \in DOMAIN checks : FirstError(checks) = checks[i]
  <1> DEFINE failing == {i \in DOMAIN checks : checks[i] # "nil"}
  <1>1. CASE failing = {}
    BY <1>1 DEF FirstError
  <1>2. CASE failing # {}
    <2>1. Least(failing) \in failing
      BY <1>2, LeastIsLeast
    <2>2. FirstError(checks) = checks[Least(failing)]
      BY <1>2 DEF FirstError
    <2> QED BY <2>1, <2>2
  <1> QED BY <1>1, <1>2

\* Nothing is missing from an alert, and nothing in it is too long.
CompleteAlert(a) ==
    /\ "" \notin {a.fingerprint, a.alertname}
    /\ a.status \in {"firing", "resolved"}

BoundedAlert(a) ==
    "long" \notin {a.fingerprint, a.alertname, a.generatorURL, a.labels,
                   a.annotations}

\* The seven checks of an alert.
LEMMA AlertVerdict ==
    ASSUME NEW a
    PROVE  /\ validateAlert(a) \in {"nil", Invalid, TooLarge}
           /\ validateAlert(a) = "nil" <=> CompleteAlert(a) /\ BoundedAlert(a)
           /\ validateAlert(a) = Invalid => ~CompleteAlert(a)
           /\ validateAlert(a) = TooLarge => ~BoundedAlert(a)
  <1> DEFINE checks ==
        <<Check(a.fingerprint = "", Invalid),
          Check(a.status \notin {"firing", "resolved"}, Invalid),
          Check(a.alertname = "", Invalid),
          Long(a.fingerprint), Long(a.generatorURL),
          Check("long" \in {a.labels, a.alertname}, TooLarge),
          Long(a.annotations)>>
  <1>1. /\ DOMAIN checks = 1 .. 7
        /\ validateAlert(a) = FirstError(checks)
    BY DEF validateAlert
  <1>2. /\ checks[1] = Check(a.fingerprint = "", Invalid)
        /\ checks[2] = Check(a.status \notin {"firing", "resolved"}, Invalid)
        /\ checks[3] = Check(a.alertname = "", Invalid)
        /\ checks[4] = Check(a.fingerprint = "long", TooLarge)
        /\ checks[5] = Check(a.generatorURL = "long", TooLarge)
        /\ checks[6] = Check("long" \in {a.labels, a.alertname}, TooLarge)
        /\ checks[7] = Check(a.annotations = "long", TooLarge)
    BY DEF Long
  <1> HIDE DEF checks
  <1>3. ASSUME NEW i \in 1 .. 7
        PROVE  /\ checks[i] \in {"nil", Invalid, TooLarge}
               /\ checks[i] = Invalid => ~CompleteAlert(a)
               /\ checks[i] = TooLarge => ~BoundedAlert(a)
    <2>1. i \in {1, 2, 3, 4, 5, 6, 7}
      OBVIOUS
    <2> QED BY <1>2, <2>1
            DEF Check, CompleteAlert, BoundedAlert, Invalid, TooLarge
  <1>4. ASSUME \A i \in 1 .. 7 : checks[i] = "nil"
        PROVE  CompleteAlert(a) /\ BoundedAlert(a)
    <2>1. /\ checks[1] = "nil" /\ checks[2] = "nil" /\ checks[3] = "nil"
          /\ checks[4] = "nil" /\ checks[5] = "nil" /\ checks[6] = "nil"
          /\ checks[7] = "nil"
      BY <1>4
    <2> QED BY <1>2, <2>1
            DEF Check, CompleteAlert, BoundedAlert, Invalid, TooLarge
  <1>5. \/ validateAlert(a) = "nil" /\ \A i \in 1 .. 7 : checks[i] = "nil"
        \/ \E i \in 1 .. 7 : validateAlert(a) = checks[i] /\ checks[i] # "nil"
    BY <1>1, FirstErrorCases
  <1> QED BY <1>3, <1>4, <1>5 DEF Invalid, TooLarge

\* The same for what a group has besides its alerts' own fields.
CompleteHead(g) ==
    /\ "" \notin {g.groupKey, g.receiver}
    /\ g.status \in {"firing", "resolved"}
    /\ g.version = "4"
    /\ g.alerts # <<>>

BoundedHead(g) ==
    /\ "long" \notin {g.groupKey, g.receiver, g.externalURL}
    /\ Len(g.alerts) <= MaxAlerts

\* The nine checks before the loop over the alerts.
LEMMA HeadVerdict ==
    ASSUME NEW g \in AlertGroup
    PROVE  /\ ValidateGroup(g) \in {"nil", Invalid, TooLarge}
           /\ ValidateGroup(g) = "nil" <=> CompleteHead(g) /\ BoundedHead(g)
           /\ ValidateGroup(g) = Invalid => ~CompleteHead(g)
           /\ ValidateGroup(g) = TooLarge => ~BoundedHead(g)
  <1> DEFINE checks ==
        <<Check(g.groupKey = "", Invalid), Check(g.receiver = "", Invalid),
          Check(g.status \notin {"firing", "resolved"}, Invalid),
          Long(g.groupKey), Long(g.receiver), Long(g.externalURL),
          Check(g.version # "4", Invalid), Check(g.alerts = <<>>, Invalid),
          Check(Len(g.alerts) > MaxAlerts, TooLarge)>>
  <1>1. /\ DOMAIN checks = 1 .. 9
        /\ ValidateGroup(g) = FirstError(checks)
    BY DEF ValidateGroup
  <1>2. /\ checks[1] = Check(g.groupKey = "", Invalid)
        /\ checks[2] = Check(g.receiver = "", Invalid)
        /\ checks[3] = Check(g.status \notin {"firing", "resolved"}, Invalid)
        /\ checks[4] = Check(g.groupKey = "long", TooLarge)
        /\ checks[5] = Check(g.receiver = "long", TooLarge)
        /\ checks[6] = Check(g.externalURL = "long", TooLarge)
        /\ checks[7] = Check(g.version # "4", Invalid)
        /\ checks[8] = Check(g.alerts = <<>>, Invalid)
        /\ checks[9] = Check(Len(g.alerts) > MaxAlerts, TooLarge)
    BY DEF Long
  <1> HIDE DEF checks
  <1>3. checks[9] = IF Len(g.alerts) <= MaxAlerts THEN "nil" ELSE TooLarge
    <2>1. g.alerts \in Seq(Alert)
      BY DEF AlertGroup
    <2>2. Len(g.alerts) \in Nat
      BY <2>1
    <2>3. MaxAlerts \in Nat
      BY ValidationAssumption
    <2>4. Len(g.alerts) > MaxAlerts <=> ~(Len(g.alerts) <= MaxAlerts)
      BY <2>2, <2>3
    <2> QED BY <1>2, <2>4, Zenon DEF Check
  <1>4. ASSUME NEW i \in 1 .. 9
        PROVE  /\ checks[i] \in {"nil", Invalid, TooLarge}
               /\ checks[i] = Invalid => ~CompleteHead(g)
               /\ checks[i] = TooLarge => ~BoundedHead(g)
    <2>1. CASE i \in {1, 2, 3, 4, 5, 6, 7}
      BY <1>2, <2>1 DEF Check, CompleteHead, BoundedHead, Invalid, TooLarge
    <2>2. CASE i = 8
      BY <1>2, <2>2 DEF Check, CompleteHead, Invalid, TooLarge
    <2>3. CASE i = 9
      BY <1>3, <2>3 DEF BoundedHead, Invalid, TooLarge
    <2> QED BY <2>1, <2>2, <2>3
  <1>5. ASSUME \A i \in 1 .. 9 : checks[i] = "nil"
        PROVE  CompleteHead(g) /\ BoundedHead(g)
    <2>1. /\ checks[1] = "nil" /\ checks[2] = "nil" /\ checks[3] = "nil"
          /\ checks[4] = "nil" /\ checks[5] = "nil" /\ checks[6] = "nil"
          /\ checks[7] = "nil" /\ checks[8] = "nil" /\ checks[9] = "nil"
      BY <1>5
    <2>2. Len(g.alerts) <= MaxAlerts /\ g.alerts # <<>>
      BY <1>2, <1>3, <2>1 DEF Check, Invalid, TooLarge
    <2>3. /\ "" \notin {g.groupKey, g.receiver}
          /\ g.status \in {"firing", "resolved"}
          /\ g.version = "4"
          /\ "long" \notin {g.groupKey, g.receiver, g.externalURL}
      BY <1>2, <2>1 DEF Check, Invalid, TooLarge
    <2> QED BY <2>2, <2>3 DEF CompleteHead, BoundedHead
  <1>6. \/ ValidateGroup(g) = "nil" /\ \A i \in 1 .. 9 : checks[i] = "nil"
        \/ \E i \in 1 .. 9 : ValidateGroup(g) = checks[i] /\ checks[i] # "nil"
    BY <1>1, FirstErrorCases
  <1> QED BY <1>4, <1>5, <1>6 DEF Invalid, TooLarge

\* The reference, split in the same way.
LEMMA CompleteSplit ==
    ASSUME NEW g
    PROVE  Complete(g) <=>
               CompleteHead(g) /\ \A i \in DOMAIN g.alerts : CompleteAlert(g.alerts[i])
  BY DEF Complete, CompleteHead, CompleteAlert

LEMMA BoundedSplit ==
    ASSUME NEW g
    PROVE  Bounded(g) <=>
               BoundedHead(g) /\ \A i \in DOMAIN g.alerts : BoundedAlert(g.alerts[i])
  BY DEF Bounded, BoundedHead, BoundedAlert

\* ValidatePayload (validation.go:22-88) accepts exactly the payloads in which
\* nothing is missing and nothing is too large, however many alerts they have
\* and wherever in them the defect is.  ErrInvalidPayload means that something
\* is missing, ErrPayloadTooLarge that something is too large.
THEOREM ValidatePayloadIsExact ==
    ASSUME NEW g \in AlertGroup
    PROVE  /\ ValidatePayload(g) \in {"nil", Invalid, TooLarge}
           /\ ValidatePayload(g) = "nil" <=> WellFormed(g)
           /\ ValidatePayload(g) = Invalid => ~Complete(g)
           /\ ValidatePayload(g) = TooLarge => ~Bounded(g)
  <1> DEFINE verdicts == [i \in 1 .. Len(g.alerts) |-> validateAlert(g.alerts[i])]
  <1>1. Len(g.alerts) \in Nat /\ DOMAIN g.alerts = 1 .. Len(g.alerts)
    <2>1. g.alerts \in Seq(Alert)
      BY DEF AlertGroup
    <2> QED BY <2>1
  <1>2. CASE ValidateGroup(g) # "nil"
    <2>1. ValidatePayload(g) = ValidateGroup(g)
      BY <1>2 DEF ValidatePayload
    <2> QED BY <1>2, <2>1, HeadVerdict, CompleteSplit, BoundedSplit DEF WellFormed
  <1>3. CASE ValidateGroup(g) = "nil"
    <2>1. ValidatePayload(g) = FirstError(verdicts)
      BY <1>3 DEF ValidatePayload
    <2>2. CompleteHead(g) /\ BoundedHead(g)
      BY <1>3, HeadVerdict
    <2>3. /\ DOMAIN verdicts = DOMAIN g.alerts
          /\ DOMAIN verdicts \subseteq Nat
          /\ \A i \in DOMAIN g.alerts : verdicts[i] = validateAlert(g.alerts[i])
      BY <1>1
    <2> HIDE DEF verdicts
    <2>4. \/ /\ ValidatePayload(g) = "nil"
             /\ \A i \in DOMAIN g.alerts : validateAlert(g.alerts[i]) = "nil"
          \/ /\ ValidatePayload(g) # "nil"
             /\ \E i \in DOMAIN g.alerts :
                    ValidatePayload(g) = validateAlert(g.alerts[i])
      BY <2>1, <2>3, FirstErrorCases
    <2>5. CASE ValidatePayload(g) = "nil"
      BY <2>2, <2>4, <2>5, AlertVerdict, CompleteSplit, BoundedSplit
         DEF WellFormed, Invalid, TooLarge
    <2>6. ASSUME NEW i \in DOMAIN g.alerts,
                 ValidatePayload(g) # "nil",
                 ValidatePayload(g) = validateAlert(g.alerts[i])
          PROVE  /\ ValidatePayload(g) \in {Invalid, TooLarge}
                 /\ ~WellFormed(g)
                 /\ ValidatePayload(g) = Invalid => ~Complete(g)
                 /\ ValidatePayload(g) = TooLarge => ~Bounded(g)
      BY <2>6, AlertVerdict, CompleteSplit, BoundedSplit DEF WellFormed
    <2> QED BY <2>4, <2>5, <2>6
  <1> QED BY <1>2, <1>3
=============================================================================
