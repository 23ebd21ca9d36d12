---------------------------- MODULE IntakeProofs ----------------------------
(***************************************************************************)
(* Intake for any set of requests, any payloads and any number of alerts.  *)
(***************************************************************************)
EXTENDS Intake, ValidationProofs, SequenceTheorems, FiniteSetTheorems

\* A group that could be stored.
Acceptable(r) == in[r].wire = "ok" /\ WellFormed(in[r].group)

Committed(r) == \E i \in DOMAIN log : log[i] = r

\* What a status set by the handler says about its request.
Means(r, code) ==
    \/ code = 200 /\ Committed(r)
    \/ code = 500 /\ Acceptable(r) /\ ~Committed(r)
    \/ /\ code \in {400, 413, 415} /\ ~Acceptable(r) /\ ~Committed(r)
       /\ in[r].wire = "broken" => code = 400

\* The state of the response writer: nothing is on the wire before the header
\* is, the header goes out with the first part of the body, and that part says
\* whether the status is the handler's or Recovery's.
WriterInv(r) ==
    LET w == writer[r]
    IN  /\ w.headerSent <=> w.body # <<>>
        /\ w.headerSent => w.wroteHeader /\ w.wire = w.status
        /\ ~w.headerSent => w.wire = 0
        /\ w.wroteHeader /\ (w.body # <<>> => w.body[1] = "handler") =>
               Means(r, w.status)
        /\ w.body # <<>> /\ w.body[1] = "recovery" =>
               panicked[r] /\ w.status = 500
        /\ panicked[r] => w.body # <<>>

\* What the place of a handler says about its request.
PlaceInv(r) ==
    /\ pc[r] \in {"none", "begin", "upsert", "delete", "insert", "saved"} =>
           writer[r] = NewWriter /\ ~panicked[r]
    /\ pc[r] \in {"begin", "upsert", "delete", "insert", "saved"} => Acceptable(r)
    /\ pc[r] \in {"none", "begin", "upsert", "delete", "insert"} => ~Committed(r)
    /\ pc[r] = "saved" => Committed(r)
    /\ pc[r] = "body" => writer[r].wroteHeader /\ ~writer[r].headerSent
                         /\ ~panicked[r]
    /\ pc[r] \in {"returned", "done"} => writer[r].headerSent
    /\ pc[r] = "done" =>
           logged[r] = <<writer[r].status, Len(writer[r].body)>>

\* The first n of r's alerts are in its transaction.
Inserted(r, n) == {r} \X (1 .. n)

\* What the open transaction sees, by the progress of the one who has it: all
\* other groups as they are committed, its own one as far as it got.
TxInv(r) ==
    /\ pc[r] \in {"upsert", "delete", "insert"} =>
           \A g \in Groups : g # KeyOf(r) => tx[g] = db[g]
    /\ pc[r] \in {"delete", "insert"} => tx[KeyOf(r)].by = r
    /\ pc[r] = "insert" =>
           \E n \in 0 .. Len(in[r].group.alerts) :
               tx[KeyOf(r)].rows = Inserted(r, n)

\* Who was over when another request arrived is over.
BeforeInv == \A r, s \in Request : s \in before[r] => Over(s)

IntakeInv ==
    /\ TypeOK
    /\ \A r \in Request : WriterInv(r) /\ PlaceInv(r) /\ TxInv(r)
    /\ BeforeInv
    /\ NewerIsKept
    /\ TableIsLastCommit

-----------------------------------------------------------------------------
(* The operators of the model                                              *)

\* The first status counts, and nothing is sent yet.
LEMMA HeaderFacts ==
    ASSUME NEW w \in Writer, NEW c \in Nat
    PROVE  LET h == WriteHeader(w, c)
           IN  /\ h \in Writer
               /\ h.wroteHeader
               /\ ~w.wroteHeader => h.status = c
               /\ h.wire = w.wire /\ h.body = w.body
               /\ h.headerSent <=> w.headerSent
  BY DEF Writer, WriteHeader

\* FlushHeader sends the status the handler set, 200 if it set none, once.
LEMMA FlushFacts ==
    ASSUME NEW w \in Writer
    PROVE  LET f == FlushHeader(w)
               s == IF w.headerSent \/ w.wroteHeader THEN w.status ELSE 200
           IN  /\ f \in Writer
               /\ w.headerSent => f = w
               /\ ~w.headerSent => f.wroteHeader /\ f.wire = s
               /\ f.headerSent /\ f.status = s /\ f.body = w.body
  <1> DEFINE s == IF w.headerSent \/ w.wroteHeader THEN w.status ELSE 200
  <1>1. CASE w.headerSent
    BY <1>1 DEF FlushHeader
  <1>2. CASE ~w.headerSent
    <2> DEFINE f == FlushHeader(w)
    <2>1. f = [w EXCEPT !.status = s, !.wroteHeader = TRUE, !.wire = s,
                        !.headerSent = TRUE]
      BY <1>2 DEF FlushHeader
    <2>2. s \in Nat
      BY DEF Writer
    <2> HIDE DEF f, s
    <2>3. f \in Writer
      BY <2>1, <2>2 DEF Writer
    <2>4. f.wire = s /\ f.status = s /\ f.body = w.body
      BY <2>1 DEF Writer
    <2>5. f.wroteHeader /\ f.headerSent
      BY <2>1 DEF Writer
    <2> QED BY <1>2, <2>3, <2>4, <2>5 DEF f, s
  <1> QED BY <1>1, <1>2

\* Write sends the status, if it has not been sent, and a part of the body.
LEMMA WriteFacts ==
    ASSUME NEW w \in Writer, NEW part \in {"handler", "recovery"}
    PROVE  LET f == Write(w, part)
               s == IF w.headerSent \/ w.wroteHeader THEN w.status ELSE 200
           IN  /\ f \in Writer
               /\ f.wroteHeader <=> FlushHeader(w).wroteHeader
               /\ f.wire = FlushHeader(w).wire
               /\ f.headerSent /\ f.status = s /\ f.body = Append(w.body, part)
  <1> DEFINE f == FlushHeader(w)
  <1>1. f \in Writer /\ f.headerSent /\ f.body = w.body
        /\ f.status = IF w.headerSent \/ w.wroteHeader THEN w.status ELSE 200
    BY FlushFacts
  <1>2. Write(w, part) = [f EXCEPT !.body = Append(@, part)]
    BY DEF Write
  <1> HIDE DEF f
  <1>3. Append(f.body, part) \in Seq({"handler", "recovery"})
    BY <1>1 DEF Writer
  <1>4. Write(w, part) \in Writer
    BY <1>1, <1>2, <1>3 DEF Writer
  <1>5. /\ Write(w, part).wire = f.wire /\ Write(w, part).status = f.status
        /\ Write(w, part).body = Append(f.body, part)
    BY <1>1, <1>2 DEF Writer
  <1>6. Write(w, part).wroteHeader <=> f.wroteHeader
    BY <1>1, <1>2 DEF Writer
  <1>7. Write(w, part).headerSent
    BY <1>1, <1>2 DEF Writer
  <1> QED BY <1>1, <1>4, <1>5, <1>6, <1>7 DEF f

\* Recovery answers 500, unless the handler's status has been sent.
LEMMA RecoverFacts ==
    ASSUME NEW w \in Writer, w.headerSent => w.wire = w.status /\ w.wroteHeader
    PROVE  LET f == Recover(w)
               s == IF w.headerSent THEN w.status ELSE 500
           IN  /\ f \in Writer
               /\ f.wroteHeader /\ f.headerSent
               /\ f.status = s /\ f.wire = s
               /\ f.body = Append(w.body, "recovery")
  <1> DEFINE v == WriteHeader(ResetStatus(w, 500), 500)
  <1>1. /\ v \in Writer
        /\ v.headerSent <=> w.headerSent
        /\ v.body = w.body /\ v.wroteHeader
        /\ v.status = IF w.headerSent THEN w.status ELSE 500
        /\ v.wire = w.wire
    <2>1. CASE w.headerSent
      BY <2>1 DEF WriteHeader, ResetStatus
    <2>2. CASE ~w.headerSent
      <3>1. v = [w EXCEPT !.status = 500, !.wroteHeader = TRUE]
        BY <2>2 DEF Writer, WriteHeader, ResetStatus
      <3> HIDE DEF v
      <3>2. v \in Writer
        <4>1. ASSUME NEW c \in Nat
              PROVE  [w EXCEPT !.status = c, !.wroteHeader = TRUE] \in Writer
          BY DEF Writer
        <4>2. 500 \in Nat
          OBVIOUS
        <4> QED BY <3>1, <4>1, <4>2, ZenonT(60)
      <3>3. v.body = w.body /\ v.status = 500 /\ v.wire = w.wire
        BY <3>1 DEF Writer
      <3>4. v.wroteHeader /\ ~v.headerSent
        BY <2>2, <3>1 DEF Writer
      <3> QED BY <2>2, <3>2, <3>3, <3>4
    <2> QED BY <2>1, <2>2
  <1>2. Recover(w) = Write(v, "recovery")
    BY DEF Recover
  <1> HIDE DEF v
  <1>3. /\ FlushHeader(v).wroteHeader
        /\ FlushHeader(v).wire = IF w.headerSent THEN w.status ELSE 500
    BY <1>1, FlushFacts
  <1> QED BY <1>1, <1>2, <1>3, WriteFacts

\* Every request carries a group, if only one that does not matter.
LEMMA InputFacts ==
    ASSUME NEW x \in Input
    PROVE  /\ x.group \in AlertGroup
           /\ x.group.alerts \in Seq(Alert)
           /\ x.wire \in {"ok", "broken", "contentType", "tooLarge", "malformed"}
  <1>1. (CHOOSE p \in Payload : TRUE) \in Payload
    BY IntakeAssumption
  <1>2. x.group \in Payload
        /\ x.wire \in {"ok", "broken", "contentType", "tooLarge", "malformed"}
    BY <1>1 DEF Input
  <1>3. x.group \in AlertGroup
    BY <1>2, IntakeAssumption
  <1> QED BY <1>2, <1>3 DEF AlertGroup

\* HandleWebhook's answer to what it does not pass on to Save.
LEMMA RefusalFacts ==
    ASSUME NEW x \in Input
    PROVE  /\ RefusalCode(x) \in {0, 400, 413, 415}
           /\ RefusalCode(x) = 0 <=> x.wire = "ok" /\ WellFormed(x.group)
           /\ x.wire = "broken" => RefusalCode(x) = 400
  <1>1. /\ ValidatePayload(x.group) \in {"nil", Invalid, TooLarge}
        /\ ValidatePayload(x.group) = "nil" <=> WellFormed(x.group)
    BY InputFacts, ValidatePayloadIsExact
  <1>2. x.wire \in {"ok", "broken", "contentType", "tooLarge", "malformed"}
    BY InputFacts
  <1> QED BY <1>1, <1>2 DEF RefusalCode, Invalid, TooLarge

\* A group that is stored has a key of ordinary length.
LEMMA KeyFacts ==
    ASSUME NEW x \in Input, WellFormed(x.group)
    PROVE  x.group.groupKey \in Groups
  <1>1. x.group \in AlertGroup
    BY InputFacts
  <1> QED BY <1>1 DEF AlertGroup, WellFormed, Complete, Bounded

\* The next alert to insert is the one after those that are there.
LEMMA CountInserted ==
    ASSUME NEW r \in Request, NEW n \in Nat
    PROVE  Cardinality({x \in Inserted(r, n) : x[1] = r}) = n
  <1>1. {x \in Inserted(r, n) : x[1] = r} = Inserted(r, n)
    BY DEF Inserted
  <1>2. IsFiniteSet({r}) /\ Cardinality({r}) = 1
    BY FS_Singleton
  <1>3. IsFiniteSet(1 .. n) /\ Cardinality(1 .. n) = n
    BY FS_Interval
  <1>4. Cardinality(Inserted(r, n)) = 1 * n
    BY <1>2, <1>3, FS_Product DEF Inserted
  <1> QED BY <1>1, <1>4

\* What r's transaction has inserted so far, and what comes next.
LEMMA InsertFacts ==
    ASSUME IntakeInv, NEW r \in Request, pc[r] = "insert"
    PROVE  /\ Len(in[r].group.alerts) \in Nat
           /\ AlertsOf(r) = 1 .. Len(in[r].group.alerts)
           /\ \E n \in 0 .. Len(in[r].group.alerts) :
                  /\ tx[KeyOf(r)].rows = Inserted(r, n)
                  /\ NextAlert(r) = n + 1
  <1>1. in[r] \in Input
    BY DEF IntakeInv, TypeOK
  <1>2. in[r].group.alerts \in Seq(Alert)
    BY <1>1, InputFacts
  <1>3. Len(in[r].group.alerts) \in Nat
        /\ AlertsOf(r) = 1 .. Len(in[r].group.alerts)
    BY <1>2 DEF AlertsOf
  <1>4. PICK n \in 0 .. Len(in[r].group.alerts) :
            tx[KeyOf(r)].rows = Inserted(r, n)
    BY DEF IntakeInv, TxInv
  <1>5. n \in Nat
    BY <1>3
  <1>6. NextAlert(r) = 1 + n
    BY <1>4, <1>5, CountInserted DEF NextAlert
  <1> QED BY <1>3, <1>4, <1>5, <1>6

\* The group of a request that has got as far as Save is one of Groups.
LEMMA SavingFacts ==
    ASSUME IntakeInv, NEW r \in Request,
           pc[r] \in {"begin", "upsert", "delete", "insert", "saved"}
    PROVE  KeyOf(r) \in Groups /\ Acceptable(r)
  <1>1. in[r] \in Input /\ Acceptable(r)
    BY DEF IntakeInv, TypeOK, PlaceInv
  <1> QED BY <1>1, KeyFacts DEF KeyOf, Acceptable

-----------------------------------------------------------------------------
(* Types, and who has the connection                                       *)

\* Setting a status keeps the writer's type.
LEMMA RespondType ==
    ASSUME TypeOK, NEW r \in Request, NEW c \in Nat, Respond(r, c)
    PROVE  /\ pc' = [pc EXCEPT ![r] = "body"]
           /\ writer' \in [Request -> Writer]
  <1>1. WriteHeader(writer[r], c) \in Writer
    BY HeaderFacts DEF TypeOK
  <1> QED BY <1>1 DEF TypeOK, Respond

\* The tables, as TypeOK has them.
StoredRow == [by : {"none"} \cup Request, rows : SUBSET (Request \X Nat)]
Tables == [Groups -> StoredRow]

\* A statement that writes a row of some group keeps the table's type.
LEMMA TablesType ==
    ASSUME NEW t \in Tables, NEW k \in Groups
    PROVE  /\ t[k] \in StoredRow
           /\ \A b \in Request : [t EXCEPT ![k].by = b] \in Tables
           /\ \A R \in SUBSET (Request \X Nat) :
                  [t EXCEPT ![k].rows = R] \in Tables
  <1>1. t[k] \in StoredRow
    BY DEF Tables
  <1>2. ASSUME NEW b \in Request
        PROVE  [t EXCEPT ![k].by = b] \in Tables
    <2>1. [t[k] EXCEPT !.by = b] \in StoredRow
      BY <1>1 DEF StoredRow
    <2> QED BY <2>1 DEF Tables
  <1>3. ASSUME NEW R \in SUBSET (Request \X Nat)
        PROVE  [t EXCEPT ![k].rows = R] \in Tables
    <2>1. [t[k] EXCEPT !.rows = R] \in StoredRow
      BY <1>1 DEF StoredRow
    <2> QED BY <2>1 DEF Tables
  <1> QED BY <1>1, <1>2, <1>3

\* Every step keeps the types, and the connection with the request that has a
\* transaction open.
LEMMA TypeStep == IntakeInv /\ Next => TypeOK'
  <1> SUFFICES ASSUME IntakeInv, Next PROVE TypeOK'
    OBVIOUS
  <1> USE DEF IntakeInv, rvars, avars
  <1>0. tx \in Tables
    BY DEF TypeOK, Tables, StoredRow
  <1>1. ASSUME NEW r \in Request, HandleWebhook(r) PROVE TypeOK'
    <2>1. PICK x \in Input :
              /\ in' = [in EXCEPT ![r] = x]
              /\ \/ RefusalCode(x) # 0 /\ Respond(r, RefusalCode(x))
                 \/ /\ RefusalCode(x) = 0
                    /\ pc' = [pc EXCEPT ![r] = "begin"]
                    /\ UNCHANGED writer
      BY <1>1 DEF HandleWebhook
    <2>2. RefusalCode(x) \in Nat
      BY RefusalFacts
    <2>3. /\ writer' \in [Request -> Writer]
          /\ pc' = [pc EXCEPT ![r] = "body"] \/ pc' = [pc EXCEPT ![r] = "begin"]
      BY <2>1, <2>2, RespondType DEF TypeOK
    <2>4. in' \in [Request -> Input]
      BY <2>1 DEF TypeOK
    <2>5. before' \in [Request -> SUBSET Request]
      BY <1>1 DEF HandleWebhook, TypeOK
    <2>6. UNCHANGED <<cancelled, logged, conn, tx, db, log, panicked>> /\ pc[r] = "none"
      BY <1>1 DEF HandleWebhook
    <2>7. \A s \in Request : conn' = s <=> pc'[s] \in {"upsert", "delete", "insert"}
      BY <2>3, <2>6 DEF TypeOK
    <2>8. pc' \in [Request -> {"none", "begin", "upsert", "delete", "insert",
                               "saved", "body", "returned", "done", "lost"}]
      BY <2>3 DEF TypeOK
    <2> QED BY <2>3, <2>4, <2>5, <2>6, <2>7, <2>8 DEF TypeOK
  <1>2. ASSUME NEW r \in Request, BeginTx(r) PROVE TypeOK'
    BY <1>2, IntakeAssumption DEF BeginTx, TypeOK

  <1>3. ASSUME NEW r \in Request, Upsert(r) PROVE TypeOK'
    <2>1. KeyOf(r) \in Groups
      BY <1>3, SavingFacts DEF Upsert
    <2>2. tx' \in Tables
      BY <1>3, <1>0, <2>1, TablesType DEF Upsert
    <2> QED BY <1>3, <2>2 DEF Upsert, TypeOK, Tables, StoredRow
  <1>4. ASSUME NEW r \in Request, DeleteOld(r) PROVE TypeOK'
    <2>1. KeyOf(r) \in Groups
      BY <1>4, SavingFacts DEF DeleteOld
    <2>2. tx' \in Tables
      BY <1>4, <1>0, <2>1, TablesType DEF DeleteOld
    <2> QED BY <1>4, <2>2 DEF DeleteOld, TypeOK, Tables, StoredRow
  <1>5. ASSUME NEW r \in Request, InsertAlert(r) PROVE TypeOK'
    <2>1. pc[r] = "insert"
      BY <1>5 DEF InsertAlert
    <2>2. NextAlert(r) \in Nat /\ KeyOf(r) \in Groups
      BY <2>1, InsertFacts, SavingFacts
    <2>3. tx[KeyOf(r)].rows \cup {<<r, NextAlert(r)>>} \in SUBSET (Request \X Nat)
      BY <1>0, <2>2, TablesType DEF StoredRow
    <2>4. tx' \in Tables
      BY <1>5, <1>0, <2>2, <2>3, TablesType DEF InsertAlert
    <2> QED BY <1>5, <2>4 DEF InsertAlert, TypeOK, Tables, StoredRow
  <1>6. ASSUME NEW r \in Request, Commit(r) PROVE TypeOK'
    BY <1>6, IntakeAssumption DEF Commit, TypeOK
  <1>7. ASSUME NEW r \in Request, SaveFails(r) PROVE TypeOK'
    <2>1. 500 \in Nat
      OBVIOUS
    <2>2. /\ pc' = [pc EXCEPT ![r] = "body"]
          /\ writer' \in [Request -> Writer]
      BY <1>7, <2>1, RespondType DEF SaveFails
    <2> QED BY <1>7, <2>2, IntakeAssumption DEF SaveFails, Rollback, TypeOK
  <1>8. ASSUME NEW r \in Request, AnswerOK(r) PROVE TypeOK'
    <2>1. 200 \in Nat
      OBVIOUS
    <2>2. /\ pc' = [pc EXCEPT ![r] = "body"]
          /\ writer' \in [Request -> Writer]
      BY <1>8, <2>1, RespondType DEF AnswerOK
    <2> QED BY <1>8, <2>2 DEF AnswerOK, TypeOK
  <1>9. ASSUME NEW r \in Request, WriteBody(r) PROVE TypeOK'
    <2>1. Write(writer[r], "handler") \in Writer
      BY WriteFacts DEF TypeOK
    <2> QED BY <1>9, <2>1 DEF WriteBody, TypeOK
  <1>10. ASSUME NEW r \in Request, Panic(r) PROVE TypeOK'
    <2>1. Recover(writer[r]) \in Writer
      BY RecoverFacts DEF TypeOK, WriterInv
    <2> QED BY <1>10, <2>1, IntakeAssumption DEF Panic, Rollback, TypeOK
  <1>11. ASSUME NEW r \in Request, Logging(r) PROVE TypeOK'
    <2> DEFINE w == FlushHeader(writer[r])
    <2>1. w \in Writer /\ w.status \in Nat /\ Len(w.body) \in Nat
      BY FlushFacts DEF TypeOK, Writer
    <2>2. /\ writer' = [writer EXCEPT ![r] = w]
          /\ logged' = [logged EXCEPT ![r] = <<w.status, Len(w.body)>>]
      BY <1>11 DEF Logging
    <2> HIDE DEF w
    <2> QED BY <1>11, <2>1, <2>2 DEF Logging, TypeOK
  <1>12. ASSUME NEW r \in Request, Disconnect(r) PROVE TypeOK'
    BY <1>12 DEF Disconnect, TypeOK
  <1>13. CASE PollBegin
    BY <1>13, IntakeAssumption DEF PollBegin, TypeOK
  <1>14. CASE PollEnd
    BY <1>14, IntakeAssumption DEF PollEnd, TypeOK
  <1>15. CASE Crash
    BY <1>15, IntakeAssumption DEF Crash, TypeOK
  <1> QED
    BY <1>1, <1>2, <1>3, <1>4, <1>5, <1>6, <1>7, <1>8, <1>9, <1>10, <1>11,
       <1>12, <1>13, <1>14, <1>15 DEF Next, SaveStep

-----------------------------------------------------------------------------
(* Who is touched by a step                                                *)

\* The steps of one request's handler and of its client.
RequestStep(r) ==
    \/ HandleWebhook(r) \/ SaveStep(r) \/ SaveFails(r)
    \/ AnswerOK(r) \/ WriteBody(r) \/ Panic(r) \/ Logging(r)
    \/ Disconnect(r)

\* The log grows by one request, at its end.
LEMMA LogFacts ==
    ASSUME TypeOK, NEW r \in Request, log' = Append(log, r)
    PROVE  /\ Len(log) \in Nat /\ DOMAIN log = 1 .. Len(log)
           /\ DOMAIN log' = 1 .. Len(log) + 1
           /\ log'[Len(log) + 1] = r
           /\ \A i \in DOMAIN log : log'[i] = log[i]
           /\ Committed(r)'
           /\ \A s \in Request : s # r => (Committed(s)' <=> Committed(s))
  <1>1. log \in Seq(Request)
    BY DEF TypeOK
  <1>2. /\ Len(log) \in Nat /\ DOMAIN log = 1 .. Len(log)
        /\ DOMAIN log' = 1 .. Len(log) + 1
        /\ log'[Len(log) + 1] = r
        /\ \A i \in DOMAIN log : log'[i] = log[i]
    BY <1>1
  <1>3. Committed(r)'
    BY <1>2 DEF Committed
  <1>4. ASSUME NEW s \in Request, s # r
        PROVE  Committed(s)' <=> Committed(s)
    <2>1. \A i \in DOMAIN log' : i \in DOMAIN log \/ i = Len(log) + 1
      BY <1>2
    <2> QED BY <1>2, <1>4, <2>1 DEF Committed
  <1> QED BY <1>2, <1>3, <1>4

\* A step of one request leaves the others as they are.
LEMMA OthersKeep ==
    ASSUME IntakeInv, NEW r \in Request, NEW s \in Request, s # r, RequestStep(r)
    PROVE  /\ in'[s] = in[s] /\ pc'[s] = pc[s] /\ cancelled'[s] = cancelled[s]
           /\ writer'[s] = writer[s] /\ logged'[s] = logged[s]
           /\ panicked'[s] = panicked[s] /\ before'[s] = before[s]
           /\ Committed(s)' <=> Committed(s)
  <1> USE DEF rvars, avars
  <1>0. TypeOK
    BY DEF IntakeInv
  <1>1. CASE HandleWebhook(r)
    BY <1>0, <1>1 DEF HandleWebhook, Respond, TypeOK, Committed
  <1>2. CASE BeginTx(r) \/ Upsert(r) \/ DeleteOld(r) \/ InsertAlert(r)
    BY <1>0, <1>2 DEF BeginTx, Upsert, DeleteOld, InsertAlert, TypeOK, Committed
  <1>3. CASE Commit(r)
    <2>1. Committed(s)' <=> Committed(s)
      BY <1>0, <1>3, LogFacts DEF Commit
    <2> QED BY <1>0, <1>3, <2>1 DEF Commit, TypeOK
  <1>4. CASE SaveFails(r) \/ AnswerOK(r)
    BY <1>0, <1>4 DEF SaveFails, AnswerOK, Respond, TypeOK, Committed
  <1>5. CASE WriteBody(r) \/ Panic(r)
    BY <1>0, <1>5 DEF WriteBody, Panic, TypeOK, Committed
  <1>6. CASE Logging(r)
    BY <1>0, <1>6 DEF Logging, TypeOK, Committed
  <1>7. CASE Disconnect(r)
    BY <1>0, <1>7 DEF Disconnect, TypeOK, Committed
  <1> QED BY <1>1, <1>2, <1>3, <1>4, <1>5, <1>6, <1>7 DEF RequestStep, SaveStep

-----------------------------------------------------------------------------
(* The answer                                                              *)

AnswerInv(r) == WriterInv(r) /\ PlaceInv(r)

\* What the answer of a request is worth depends on the request only; a handler
\* that died with the process says nothing more.
LEMMA AnswerFrame ==
    ASSUME NEW r \in Request, AnswerInv(r),
           in'[r] = in[r], pc'[r] \in {pc[r], "lost"}, writer'[r] = writer[r],
           logged'[r] = logged[r], panicked'[r] = panicked[r],
           Committed(r)' <=> Committed(r)
    PROVE  AnswerInv(r)'
  <1>1. \A code : Means(r, code)' <=> Means(r, code)
    BY DEF Means, Acceptable
  <1>2. WriterInv(r)'
    BY <1>1 DEF AnswerInv, WriterInv
  <1>3. PlaceInv(r)'
    BY DEF AnswerInv, PlaceInv, Acceptable
  <1> QED BY <1>2, <1>3 DEF AnswerInv

\* A handler that has not answered yet sets a status that tells the truth.
LEMMA RespondAnswer ==
    ASSUME TypeOK, NEW r \in Request, NEW c \in Nat, Respond(r, c),
           writer[r] = NewWriter, ~panicked[r], panicked'[r] = panicked[r],
           Means(r, c)'
    PROVE  AnswerInv(r)'
  <1>1. /\ pc'[r] = "body"
        /\ writer'[r] = WriteHeader(NewWriter, c)
    BY DEF Respond, TypeOK
  <1>2. /\ writer'[r].status = c /\ writer'[r].wroteHeader
        /\ ~writer'[r].headerSent /\ writer'[r].wire = 0
        /\ writer'[r].body = <<>>
    BY <1>1 DEF NewWriter, WriteHeader
  <1>3. WriterInv(r)'
    BY <1>2 DEF WriterInv
  <1>4. PlaceInv(r)'
    BY <1>1, <1>2 DEF PlaceInv
  <1> QED BY <1>3, <1>4 DEF AnswerInv

\* A request's own steps keep the meaning of its answer.
LEMMA AnswerOwn ==
    ASSUME IntakeInv, NEW r \in Request, RequestStep(r)
    PROVE  AnswerInv(r)'
  <1> USE DEF rvars, avars
  <1>0. /\ TypeOK /\ AnswerInv(r) /\ WriterInv(r) /\ PlaceInv(r)
        /\ writer[r] \in Writer
    BY DEF IntakeInv, AnswerInv, TypeOK
  <1>1. CASE HandleWebhook(r)
    <2>1. PICK x \in Input :
              /\ in' = [in EXCEPT ![r] = x]
              /\ \/ RefusalCode(x) # 0 /\ Respond(r, RefusalCode(x))
                 \/ /\ RefusalCode(x) = 0
                    /\ pc' = [pc EXCEPT ![r] = "begin"]
                    /\ UNCHANGED writer
      BY <1>1 DEF HandleWebhook
    <2>2. /\ pc[r] = "none" /\ writer[r] = NewWriter /\ ~panicked[r]
          /\ ~Committed(r)' /\ panicked'[r] = panicked[r]
      BY <1>0, <1>1 DEF HandleWebhook, PlaceInv, Committed
    <2>3. in'[r] = x
      BY <1>0, <2>1 DEF TypeOK
    <2>4. Acceptable(r)' <=> RefusalCode(x) = 0
      BY <2>3, RefusalFacts DEF Acceptable
    <2>5. CASE RefusalCode(x) # 0
      <3>1. RefusalCode(x) \in Nat /\ RefusalCode(x) \in {400, 413, 415}
        BY <2>5, RefusalFacts
      <3>2. in'[r].wire = "broken" => RefusalCode(x) = 400
        BY <2>3, RefusalFacts
      <3>3. Means(r, RefusalCode(x))'
        BY <2>2, <2>4, <2>5, <3>1, <3>2 DEF Means
      <3> QED BY <1>0, <2>1, <2>2, <2>5, <3>1, <3>3, RespondAnswer
    <2>6. CASE RefusalCode(x) = 0
      <3>1. pc'[r] = "begin" /\ writer'[r] = writer[r]
        BY <1>0, <2>1, <2>6 DEF TypeOK
      <3>2. PlaceInv(r)'
        BY <2>2, <2>4, <2>6, <3>1 DEF PlaceInv
      <3>3. WriterInv(r)'
        BY <2>2, <3>1 DEF WriterInv, NewWriter
      <3> QED BY <3>2, <3>3 DEF AnswerInv
    <2> QED BY <2>5, <2>6
  <1>2. CASE BeginTx(r) \/ Upsert(r) \/ DeleteOld(r) \/ InsertAlert(r) \/ Commit(r)
    <2>1. /\ pc[r] \in {"begin", "upsert", "delete", "insert"}
          /\ writer'[r] = writer[r] /\ panicked'[r] = panicked[r]
          /\ in'[r] = in[r] /\ logged'[r] = logged[r]
      BY <1>2 DEF BeginTx, Upsert, DeleteOld, InsertAlert, Commit
    <2>2. writer'[r] = NewWriter /\ ~panicked'[r] /\ Acceptable(r)'
      BY <1>0, <2>1 DEF PlaceInv, Acceptable
    <2>3. WriterInv(r)'
      BY <2>2 DEF WriterInv, NewWriter
    <2>4. CASE Commit(r)
      <3>1. pc'[r] = "saved" /\ Committed(r)'
        BY <1>0, <2>4, LogFacts DEF Commit, TypeOK
      <3> QED BY <2>2, <2>3, <3>1 DEF AnswerInv, PlaceInv
    <2>5. CASE ~Commit(r)
      <3>1. pc'[r] \in {"upsert", "delete", "insert"} /\ ~Committed(r)'
        BY <1>0, <1>2, <2>5
           DEF BeginTx, Upsert, DeleteOld, InsertAlert, TypeOK, PlaceInv, Committed
      <3> QED BY <2>2, <2>3, <3>1 DEF AnswerInv, PlaceInv
    <2> QED BY <2>4, <2>5
  <1>3. CASE SaveFails(r)
    <2>1. /\ writer[r] = NewWriter /\ ~panicked[r] /\ panicked'[r] = panicked[r]
          /\ Respond(r, 500) /\ Acceptable(r)' /\ ~Committed(r)'
      BY <1>0, <1>3 DEF SaveFails, PlaceInv, Acceptable, Committed
    <2>2. Means(r, 500)'
      BY <2>1 DEF Means
    <2>3. 500 \in Nat
      OBVIOUS
    <2> QED BY <1>0, <2>1, <2>2, <2>3, RespondAnswer
  <1>4. CASE AnswerOK(r)
    <2>1. /\ writer[r] = NewWriter /\ ~panicked[r] /\ panicked'[r] = panicked[r]
          /\ Respond(r, 200) /\ Committed(r)'
      BY <1>0, <1>4 DEF AnswerOK, PlaceInv, Committed
    <2>2. Means(r, 200)'
      BY <2>1 DEF Means
    <2>3. 200 \in Nat
      OBVIOUS
    <2> QED BY <1>0, <2>1, <2>2, <2>3, RespondAnswer
  <1>5. CASE WriteBody(r)
    <2> DEFINE w == writer[r]
    <2>1. /\ pc'[r] = "returned" /\ writer'[r] = Write(w, "handler")
          /\ ~panicked'[r]
          /\ w.wroteHeader /\ ~w.headerSent /\ w.body = <<>>
          /\ Means(r, w.status)
      BY <1>0, <1>5 DEF WriteBody, TypeOK, PlaceInv, WriterInv
    <2>2. \A code : Means(r, code)' <=> Means(r, code)
      BY <1>5 DEF WriteBody, Means, Acceptable, Committed
    <2>3. /\ writer'[r].headerSent /\ writer'[r].wroteHeader
          /\ writer'[r].status = w.status /\ writer'[r].wire = w.status
          /\ writer'[r].body = Append(<<>>, "handler")
      BY <1>0, <2>1, WriteFacts, FlushFacts
    <2>4. writer'[r].body # <<>> /\ writer'[r].body[1] = "handler"
      BY <2>3
    <2>5. WriterInv(r)'
      BY <2>1, <2>2, <2>3, <2>4 DEF WriterInv
    <2>6. PlaceInv(r)'
      BY <2>1, <2>3 DEF PlaceInv
    <2> QED BY <2>5, <2>6 DEF AnswerInv
  <1>6. CASE Panic(r)
    <2> DEFINE w == writer[r]
    <2>1. /\ pc'[r] = "returned" /\ writer'[r] = Recover(w) /\ panicked'[r]
          /\ w.headerSent => w.wire = w.status /\ w.wroteHeader
          /\ w.headerSent <=> w.body # <<>>
          /\ ~panicked[r]
      BY <1>0, <1>6 DEF Panic, TypeOK, WriterInv
    <2>2. /\ writer'[r].headerSent /\ writer'[r].wroteHeader
          /\ writer'[r].status = IF w.headerSent THEN w.status ELSE 500
          /\ writer'[r].wire = writer'[r].status
          /\ writer'[r].body = Append(w.body, "recovery")
      BY <1>0, <2>1, RecoverFacts
    <2>3. w.body \in Seq({"handler", "recovery"})
      BY <1>0 DEF Writer
    <2>4. /\ writer'[r].body # <<>>
          /\ w.body # <<>> => writer'[r].body[1] = w.body[1]
          /\ w.body = <<>> => writer'[r].body[1] = "recovery"
      BY <2>2, <2>3
    <2>5. w.headerSent => w.body[1] = "handler" /\ Means(r, w.status)
      <3>1. w.body # <<>> => w.body[1] \in {"handler", "recovery"}
        BY <2>3
      <3> QED BY <1>0, <2>1, <3>1 DEF WriterInv
    <2>6. \A code : Means(r, code)' <=> Means(r, code)
      BY <1>6 DEF Panic, Means, Acceptable, Committed
    <2>7. WriterInv(r)'
      BY <2>1, <2>2, <2>4, <2>5, <2>6 DEF WriterInv
    <2>8. PlaceInv(r)'
      BY <2>1, <2>2 DEF PlaceInv
    <2> QED BY <2>7, <2>8 DEF AnswerInv
  <1>7. CASE Logging(r)
    <2>1. writer[r].headerSent
      BY <1>0, <1>7 DEF Logging, PlaceInv
    <2>2. FlushHeader(writer[r]) = writer[r]
      BY <1>0, <2>1, FlushFacts
    <2>3. /\ pc'[r] = "done" /\ writer'[r] = writer[r]
          /\ logged'[r] = <<writer[r].status, Len(writer[r].body)>>
          /\ panicked'[r] = panicked[r]
      BY <1>0, <1>7, <2>2 DEF Logging, TypeOK
    <2>4. \A code : Means(r, code)' <=> Means(r, code)
      BY <1>7 DEF Logging, Means, Acceptable, Committed
    <2>5. WriterInv(r)'
      BY <1>0, <2>3, <2>4 DEF WriterInv
    <2>6. PlaceInv(r)'
      BY <2>1, <2>3 DEF PlaceInv
    <2> QED BY <2>5, <2>6 DEF AnswerInv
  <1>8. CASE Disconnect(r)
    <2>1. /\ in'[r] = in[r] /\ pc'[r] = pc[r] /\ writer'[r] = writer[r]
          /\ logged'[r] = logged[r] /\ panicked'[r] = panicked[r]
          /\ Committed(r)' <=> Committed(r)
      BY <1>8 DEF Disconnect, Committed
    <2> QED BY <1>0, <2>1, AnswerFrame
  <1> QED BY <1>1, <1>2, <1>3, <1>4, <1>5, <1>6, <1>7, <1>8
          DEF RequestStep, SaveStep

\* What Poll and a crash leave alone.
LEMMA SystemKeeps ==
    ASSUME TypeOK, PollBegin \/ PollEnd \/ Crash, NEW s \in Request
    PROVE  /\ UNCHANGED <<in, cancelled, writer, logged, panicked, before, db, log>>
           /\ pc'[s] \in {pc[s], "lost"}
           /\ pc[s] = "done" => pc'[s] = "done"
           /\ pc'[s] = "lost" \/ (pc'[s] = pc[s] /\ tx' = tx)
              \/ pc'[s] \in {"none", "done"}
  BY DEF PollBegin, PollEnd, Crash, TypeOK, rvars, avars

\* Every answer keeps its meaning, whoever moves.
LEMMA AnswerStep ==
    ASSUME IntakeInv, Next, NEW s \in Request
    PROVE  AnswerInv(s)'
  <1>0. TypeOK /\ AnswerInv(s)
    BY DEF IntakeInv, AnswerInv
  <1>1. ASSUME NEW r \in Request, RequestStep(r) PROVE AnswerInv(s)'
    <2>1. CASE s = r
      BY <1>1, <2>1, AnswerOwn
    <2>2. CASE s # r
      BY <1>0, <1>1, <2>2, OthersKeep, AnswerFrame
    <2> QED BY <2>1, <2>2
  <1>2. CASE PollBegin \/ PollEnd \/ Crash
    <2>1. /\ in'[s] = in[s] /\ pc'[s] \in {pc[s], "lost"} /\ writer'[s] = writer[s]
          /\ logged'[s] = logged[s] /\ panicked'[s] = panicked[s]
          /\ log' = log
      BY <1>0, <1>2, SystemKeeps
    <2>2. Committed(s)' <=> Committed(s)
      BY <2>1 DEF Committed
    <2> QED BY <1>0, <2>1, <2>2, AnswerFrame
  <1> QED BY <1>1, <1>2 DEF Next, RequestStep

-----------------------------------------------------------------------------
(* The transaction                                                         *)

\* The transaction of s is safe from other requests, for they have no
\* connection.
LEMMA TxIsPrivate ==
    ASSUME TypeOK, NEW r \in Request, NEW s \in Request, s # r, RequestStep(r),
           pc[s] \in {"upsert", "delete", "insert"}
    PROVE  tx' = tx /\ db' = db
  <1>1. conn = s /\ conn # r /\ conn # "none"
        /\ pc[r] \notin {"upsert", "delete", "insert"}
    BY IntakeAssumption DEF TypeOK
  <1> QED BY <1>1 DEF RequestStep, SaveStep, HandleWebhook, BeginTx, Upsert,
             DeleteOld, InsertAlert, Commit, SaveFails, Rollback, AnswerOK,
             WriteBody, Panic, Logging, Disconnect

\* The statements of Save build up the group's rows in order.
LEMMA TxOwn ==
    ASSUME IntakeInv, NEW r \in Request, RequestStep(r)
    PROVE  TxInv(r)'
  <1> USE DEF rvars, avars
  <1> DEFINE k == KeyOf(r)
  <1>0. TypeOK /\ TxInv(r) /\ tx \in Tables
    BY DEF IntakeInv, TypeOK, Tables, StoredRow
  <1>1. CASE BeginTx(r)
    <2>1. pc'[r] = "upsert" /\ tx' = db' 
      BY <1>0, <1>1 DEF BeginTx, TypeOK
    <2> QED BY <2>1 DEF TxInv
  <1>2. ASSUME SaveStep(r), ~BeginTx(r) PROVE k \in Groups /\ tx[k] \in StoredRow
    <2>1. k \in Groups
      BY <1>2, SavingFacts DEF SaveStep, Upsert, DeleteOld, InsertAlert, Commit
    <2> QED BY <1>0, <2>1, TablesType
  <1>3. CASE Upsert(r)
    <2>1. /\ pc[r] = "upsert" /\ pc'[r] = "delete" /\ in' = in /\ db' = db
          /\ tx' = [tx EXCEPT ![k].by = r]
      BY <1>0, <1>3 DEF Upsert, TypeOK
    <2>2. k \in Groups /\ tx[k] \in StoredRow
      BY <1>2, <1>3, <2>1 DEF SaveStep, BeginTx
    <2>3. tx'[k].by = r /\ \A g \in Groups : g # k => tx'[g] = tx[g]
      BY <1>0, <2>1, <2>2 DEF Tables, StoredRow
    <2>4. KeyOf(r)' = k
      BY <2>1 DEF KeyOf
    <2> HIDE DEF k
    <2> QED BY <1>0, <2>1, <2>3, <2>4 DEF TxInv, k
  <1>4. CASE DeleteOld(r)
    <2>1. /\ pc[r] = "delete" /\ pc'[r] = "insert" /\ in' = in /\ db' = db
          /\ tx' = [tx EXCEPT ![k].rows = {}]
      BY <1>0, <1>4 DEF DeleteOld, TypeOK
    <2>2. k \in Groups /\ tx[k] \in StoredRow
      BY <1>2, <1>4, <2>1 DEF SaveStep, BeginTx
    <2>3. /\ tx'[k].by = tx[k].by /\ tx'[k].rows = {}
          /\ \A g \in Groups : g # k => tx'[g] = tx[g]
      BY <1>0, <2>1, <2>2 DEF Tables, StoredRow
    <2>4. KeyOf(r)' = k
      BY <2>1 DEF KeyOf
    <2>5. Inserted(r, 0) = {}
      BY DEF Inserted
    <2>6. in[r].group.alerts \in Seq(Alert)
      BY <1>0, InputFacts DEF TypeOK
    <2>7. 0 \in 0 .. Len(in[r].group.alerts)
      BY <2>6
    <2> HIDE DEF k
    <2> QED BY <1>0, <2>1, <2>3, <2>4, <2>5, <2>7 DEF TxInv, k
  <1>5. CASE InsertAlert(r)
    <2>1. /\ pc[r] = "insert" /\ pc'[r] = "insert" /\ in' = in /\ db' = db
          /\ tx' = [tx EXCEPT ![k].rows = @ \cup {<<r, NextAlert(r)>>}]
          /\ NextAlert(r) \in AlertsOf(r)
      BY <1>0, <1>5 DEF InsertAlert, TypeOK
    <2>2. k \in Groups /\ tx[k] \in StoredRow
      BY <1>2, <1>5, <2>1 DEF SaveStep, BeginTx
    <2>3. /\ tx'[k].by = tx[k].by
          /\ tx'[k].rows = tx[k].rows \cup {<<r, NextAlert(r)>>}
          /\ \A g \in Groups : g # k => tx'[g] = tx[g]
      BY <1>0, <2>1, <2>2 DEF Tables, StoredRow
    <2>4. KeyOf(r)' = k
      BY <2>1 DEF KeyOf
    <2>5. PICK n \in 0 .. Len(in[r].group.alerts) :
              tx[k].rows = Inserted(r, n) /\ NextAlert(r) = n + 1
      BY <2>1, InsertFacts
    <2>6. /\ Len(in[r].group.alerts) \in Nat
          /\ AlertsOf(r) = 1 .. Len(in[r].group.alerts)
      BY <2>1, InsertFacts
    <2>7. n + 1 \in 0 .. Len(in[r].group.alerts) /\ n \in Nat
      BY <2>1, <2>5, <2>6
    <2>8. Inserted(r, n) \cup {<<r, n + 1>>} = Inserted(r, n + 1)
      <3>1. (1 .. n) \cup {n + 1} = 1 .. n + 1
        BY <2>7
      <3> QED BY <3>1 DEF Inserted
    <2> HIDE DEF k
    <2> QED BY <1>0, <2>1, <2>3, <2>4, <2>5, <2>7, <2>8 DEF TxInv, k
  <1>6. CASE Disconnect(r)
    <2>1. in' = in /\ pc' = pc /\ tx' = tx /\ db' = db
      BY <1>6 DEF Disconnect
    <2> QED BY <1>0, <2>1 DEF TxInv, KeyOf
  <1>7. CASE \/ HandleWebhook(r) \/ Commit(r) \/ SaveFails(r) \/ AnswerOK(r)
             \/ WriteBody(r) \/ Panic(r) \/ Logging(r)
    <2>1. pc'[r] \notin {"upsert", "delete", "insert"}
      BY <1>0, <1>7 DEF HandleWebhook, Commit, SaveFails, AnswerOK, WriteBody,
         Panic, Logging, Respond, TypeOK
    <2> QED BY <2>1 DEF TxInv
  <1> QED BY <1>1, <1>3, <1>4, <1>5, <1>6, <1>7 DEF RequestStep, SaveStep

\* The open transaction sees what its request has done, whoever moves.
LEMMA TxStep ==
    ASSUME IntakeInv, Next, NEW s \in Request
    PROVE  TxInv(s)'
  <1>0. TypeOK /\ TxInv(s)
    BY DEF IntakeInv
  <1>1. ASSUME NEW r \in Request, RequestStep(r), r # s PROVE TxInv(s)'
    <2>1. in'[s] = in[s] /\ pc'[s] = pc[s]
      BY <1>1, OthersKeep
    <2>2. CASE pc[s] \in {"upsert", "delete", "insert"}
      <3>1. tx' = tx /\ db' = db
        BY <1>0, <1>1, <2>2, TxIsPrivate
      <3> QED BY <1>0, <2>1, <3>1 DEF TxInv, KeyOf
    <2>3. CASE pc[s] \notin {"upsert", "delete", "insert"}
      BY <2>1, <2>3 DEF TxInv
    <2> QED BY <2>2, <2>3
  <1>2. CASE PollBegin \/ PollEnd \/ Crash
    <2>1. /\ in' = in /\ db' = db
          /\ (pc'[s] = pc[s] /\ tx' = tx) \/ pc'[s] \in {"lost", "none", "done"}
      BY <1>0, <1>2, SystemKeeps
    <2> QED BY <1>0, <2>1 DEF TxInv, KeyOf
  <1> QED BY <1>1, <1>2, TxOwn DEF Next, RequestStep

-----------------------------------------------------------------------------
(* The order of deliveries                                                 *)

\* What is over stays over, and only an arrival looks at who is.
LEMMA OverStep ==
    ASSUME IntakeInv, Next
    PROVE  /\ \A s \in Request : Over(s) => Over(s)'
           /\ \A r \in Request :
                  before'[r] = before[r] \/ (/\ pc[r] = "none"
                                             /\ before'[r] = {s \in Request : Over(s)})
  <1> USE DEF rvars, avars
  <1>0. TypeOK
    BY DEF IntakeInv
  <1>1. ASSUME NEW r \in Request, RequestStep(r), NEW s \in Request, Over(s)
        PROVE  Over(s)'
    <2>1. CASE s # r
      BY <1>1, <2>1, OthersKeep DEF Over
    <2>2. CASE s = r /\ cancelled[r]
      <3>1. cancelled'[r]
        BY <1>0, <1>1, <2>2 DEF RequestStep, SaveStep, HandleWebhook, BeginTx,
           Upsert, DeleteOld, InsertAlert, Commit, SaveFails, AnswerOK,
           WriteBody, Panic, Logging, Disconnect, TypeOK
      <3> QED BY <2>2, <3>1 DEF Over
    <2>3. CASE s = r /\ pc[r] \in {"done", "lost"}
      BY <1>1, <2>3 DEF RequestStep, SaveStep, HandleWebhook, BeginTx, Upsert,
         DeleteOld, InsertAlert, Commit, SaveFails, AnswerOK, WriteBody, Panic,
         Logging, Disconnect
    <2> QED BY <1>1, <2>1, <2>2, <2>3 DEF Over
  <1>2. ASSUME NEW r \in Request, RequestStep(r), NEW s \in Request
        PROVE  before'[s] = before[s]
               \/ (pc[s] = "none" /\ before'[s] = {q \in Request : Over(q)})
    <2>1. CASE s # r
      BY <1>2, <2>1, OthersKeep
    <2>2. CASE s = r /\ HandleWebhook(r)
      BY <1>0, <2>2 DEF HandleWebhook, TypeOK
    <2>3. CASE s = r /\ ~HandleWebhook(r)
      BY <1>2, <2>3 DEF RequestStep, SaveStep, BeginTx, Upsert, DeleteOld,
         InsertAlert, Commit, SaveFails, AnswerOK, WriteBody, Panic, Logging,
         Disconnect
    <2> QED BY <2>1, <2>2, <2>3
  <1>3. ASSUME PollBegin \/ PollEnd \/ Crash, NEW s \in Request
        PROVE  (Over(s) => Over(s)') /\ before'[s] = before[s]
    BY <1>0, <1>3, SystemKeeps DEF Over
  <1> QED BY <1>1, <1>2, <1>3 DEF Next, RequestStep

LEMMA BeforeStep == IntakeInv /\ Next => BeforeInv'
  <1> SUFFICES ASSUME IntakeInv, Next, NEW r \in Request, NEW s \in Request,
                      s \in before'[r]
               PROVE  Over(s)'
    BY DEF BeforeInv
  <1>1. Over(s)
    BY OverStep DEF IntakeInv, BeforeInv
  <1> QED BY <1>1, OverStep

\* Only Commit writes what is committed, and only an arrival brings a payload.
LEMMA CommitOnly ==
    ASSUME Next
    PROVE  \/ \E r \in Request : Commit(r)
           \/ \E r \in Request : HandleWebhook(r)
           \/ in' = in /\ log' = log /\ db' = db
  BY DEF Next, SaveStep, BeginTx, Upsert, DeleteOld, InsertAlert, SaveFails,
     AnswerOK, WriteBody, Panic, Logging, Disconnect, PollBegin, PollEnd, Crash,
     rvars, avars

\* A commit goes to the end of the log, and its request is not over.
LEMMA NewerStep == IntakeInv /\ Next => NewerIsKept'
  <1> SUFFICES ASSUME IntakeInv, Next PROVE NewerIsKept'
    OBVIOUS
  <1>0. TypeOK /\ BeforeInv /\ NewerIsKept /\ log \in Seq(Request)
    BY DEF IntakeInv, TypeOK
  <1>1. ASSUME NEW r \in Request, Commit(r) PROVE NewerIsKept'
    <2>1. log' = Append(log, r) /\ before' = before /\ ~Over(r)
      BY <1>1 DEF Commit, avars, Over, CtxAlive
    <2>2. /\ Len(log) \in Nat /\ DOMAIN log = 1 .. Len(log)
          /\ DOMAIN log' = 1 .. Len(log) + 1
          /\ log'[Len(log) + 1] = r
          /\ \A i \in DOMAIN log : log'[i] = log[i]
      BY <1>0, <2>1, LogFacts
    <2>3. SUFFICES ASSUME NEW i \in DOMAIN log', NEW j \in DOMAIN log', i < j
                   PROVE  log'[j] \notin before[log'[i]]
      BY <2>1 DEF NewerIsKept
    <2>4. i \in DOMAIN log /\ log'[i] = log[i] /\ log[i] \in Request
      BY <1>0, <2>2, <2>3
    <2>5. CASE j \in DOMAIN log
      BY <1>0, <2>2, <2>3, <2>4, <2>5 DEF NewerIsKept
    <2>6. CASE j \notin DOMAIN log
      <3>1. log'[j] = r
        BY <2>2, <2>3, <2>6
      <3> QED BY <1>0, <2>1, <2>4, <3>1 DEF BeforeInv
    <2> QED BY <2>5, <2>6
  <1>2. CASE log' = log
    <2> SUFFICES ASSUME NEW i \in DOMAIN log, NEW j \in DOMAIN log, i < j
                 PROVE  log[j] \notin before'[log[i]]
      BY <1>2 DEF NewerIsKept
    <2>1. log[i] \in Request /\ Committed(log[i])
      BY <1>0 DEF Committed
    <2>2. pc[log[i]] # "none"
      BY <2>1 DEF IntakeInv, PlaceInv
    <2>3. before'[log[i]] = before[log[i]]
      BY <2>1, <2>2, OverStep
    <2> QED BY <1>0, <2>3 DEF NewerIsKept
  <1> QED BY <1>1, <1>2, CommitOnly DEF HandleWebhook

-----------------------------------------------------------------------------
(* What is committed                                                       *)

\* What Commit makes durable: the whole of its group, and no other group.
LEMMA CommitFacts ==
    ASSUME IntakeInv, NEW r \in Request, Commit(r)
    PROVE  /\ KeyOf(r) \in Groups
           /\ db'[KeyOf(r)] = Whole(r)
           /\ \A g \in Groups : g # KeyOf(r) => db'[g] = db[g]
  <1> DEFINE k == KeyOf(r)
  <1>1. /\ pc[r] = "insert" /\ db' = tx /\ NextAlert(r) \notin AlertsOf(r)
        /\ TxInv(r) /\ tx \in Tables
    BY DEF Commit, IntakeInv, TypeOK, Tables, StoredRow
  <1>2. k \in Groups
    BY <1>1, SavingFacts
  <1>3. PICK n \in 0 .. Len(in[r].group.alerts) :
            tx[k].rows = Inserted(r, n) /\ NextAlert(r) = n + 1
    BY <1>1, InsertFacts
  <1>4. /\ Len(in[r].group.alerts) \in Nat
        /\ AlertsOf(r) = 1 .. Len(in[r].group.alerts)
    BY <1>1, InsertFacts
  <1>5. n = Len(in[r].group.alerts)
    BY <1>1, <1>3, <1>4
  <1>6. tx[k].rows = {r} \X AlertsOf(r)
    BY <1>3, <1>4, <1>5 DEF Inserted
  <1>7. tx[k] \in StoredRow /\ tx[k].by = r
    BY <1>1, <1>2, TablesType DEF TxInv
  <1>8. tx[k] = Whole(r)
    BY <1>6, <1>7 DEF StoredRow, Whole
  <1> QED BY <1>1, <1>2, <1>8 DEF TxInv

LEMMA TableStep == IntakeInv /\ Next => TableIsLastCommit'
  <1> SUFFICES ASSUME IntakeInv, Next PROVE TableIsLastCommit'
    OBVIOUS
  <1>0. TypeOK /\ TableIsLastCommit /\ log \in Seq(Request)
    BY DEF IntakeInv, TypeOK
  <1>1. ASSUME NEW r \in Request, Commit(r) PROVE TableIsLastCommit'
    <2> DEFINE k == KeyOf(r)
               n == Len(log) + 1
    <2>1. log' = Append(log, r) /\ in' = in
      BY <1>1 DEF Commit, rvars
    <2>2. /\ Len(log) \in Nat /\ DOMAIN log = 1 .. Len(log)
          /\ DOMAIN log' = 1 .. n /\ log'[n] = r
          /\ \A i \in DOMAIN log : log'[i] = log[i]
      BY <1>0, <2>1, LogFacts
    <2>3. \A g : WritesTo(g)' = IF g = k THEN WritesTo(g) \cup {n} ELSE WritesTo(g)
      BY <2>1, <2>2 DEF WritesTo, KeyOf
    <2>4. \A s : Whole(s)' = Whole(s)
      BY <2>1 DEF Whole, AlertsOf
    <2>5. /\ db'[k] = Whole(r)
          /\ \A g \in Groups : g # k => db'[g] = db[g]
      BY <1>1, CommitFacts
    <2>6. \A g : WritesTo(g) \subseteq 1 .. Len(log)
      BY <2>2 DEF WritesTo
    <2> SUFFICES ASSUME NEW g \in Groups
                 PROVE  IF WritesTo(g)' = {} THEN db'[g] = EmptyRow
                        ELSE \E i \in WritesTo(g)' :
                                 /\ \A j \in WritesTo(g)' : j <= i
                                 /\ db'[g] = Whole(log'[i])
      BY <2>4 DEF TableIsLastCommit
    <2> HIDE DEF k
    <2>7. CASE g = k
      <3>1. n \in WritesTo(g)' /\ \A j \in WritesTo(g)' : j <= n
        BY <2>2, <2>3, <2>6, <2>7
      <3> QED BY <2>2, <2>5, <2>7, <3>1
    <2>8. CASE g # k
      <3>1. WritesTo(g)' = WritesTo(g) /\ db'[g] = db[g]
        BY <2>3, <2>5, <2>8
      <3>2. \A i \in WritesTo(g) : log'[i] = log[i]
        BY <2>2, <2>6
      <3> QED BY <1>0, <3>1, <3>2 DEF TableIsLastCommit
    <2> QED BY <2>7, <2>8
  <1>2. CASE \/ \E r \in Request : HandleWebhook(r)
             \/ in' = in /\ log' = log /\ db' = db
    <2>1. log' = log /\ db' = db
      BY <1>2 DEF HandleWebhook
    <2>2. ASSUME NEW i \in DOMAIN log PROVE in'[log[i]] = in[log[i]]
      <3>1. log[i] \in Request /\ Committed(log[i])
        BY <1>0 DEF Committed
      <3>2. pc[log[i]] # "none"
        BY <3>1 DEF IntakeInv, PlaceInv
      <3> QED BY <1>0, <1>2, <3>1, <3>2 DEF HandleWebhook, TypeOK
    <2>3. \A i \in DOMAIN log :
              KeyOf(log[i])' = KeyOf(log[i]) /\ Whole(log[i])' = Whole(log[i])
      BY <2>1, <2>2 DEF KeyOf, Whole, AlertsOf
    <2>4. \A g : WritesTo(g)' = WritesTo(g)
      BY <2>1, <2>3 DEF WritesTo
    <2>5. \A g : WritesTo(g) \subseteq DOMAIN log
      BY DEF WritesTo
    <2> QED BY <1>0, <2>1, <2>3, <2>4, <2>5 DEF TableIsLastCommit
  <1> QED BY <1>1, <1>2, CommitOnly

-----------------------------------------------------------------------------
(* The invariant and what it is for                                        *)

LEMMA InitIntakeInv == Init => IntakeInv
  <1> SUFFICES ASSUME Init PROVE IntakeInv
    OBVIOUS
  <1>0. NewWriter \in Writer
    <2>1. ASSUME NEW c \in Nat, NEW n \in Nat
          PROVE  [status |-> c, wroteHeader |-> FALSE, headerSent |-> FALSE,
                  wire |-> n, body |-> <<>>] \in Writer
      BY DEF Writer
    <2>2. 200 \in Nat /\ 0 \in Nat
      OBVIOUS
    <2> QED BY <2>1, <2>2, Zenon DEF NewWriter
  <1>1. TypeOK
    <2>1. [wire |-> "malformed", group |-> CHOOSE p \in Payload : TRUE] \in Input
      BY DEF Input
    <2>2. /\ in \in [Request -> Input]
          /\ writer \in [Request -> Writer]
          /\ logged \in [Request -> Nat \X Nat]
      BY <1>0, <2>1 DEF Init
    <2>3. EmptyRow \in StoredRow
      BY DEF EmptyRow, StoredRow
    <2>4. db \in Tables /\ tx \in Tables
      BY <2>3 DEF Init, Tables
    <2>5. log \in Seq(Request)
      BY DEF Init
    <2> QED BY <2>2, <2>4, <2>5, IntakeAssumption DEF Init, TypeOK, Tables, StoredRow
  <1>2. log = <<>> /\ DOMAIN log = {}
    BY DEF Init
  <1>3. ASSUME NEW r \in Request PROVE WriterInv(r) /\ PlaceInv(r) /\ TxInv(r)
    <2>1. /\ writer[r] = NewWriter /\ ~panicked[r] /\ pc[r] = "none"
          /\ ~Committed(r)
      BY <1>2 DEF Init, Committed
    <2>2. WriterInv(r)
      BY <2>1 DEF WriterInv, NewWriter
    <2> QED BY <2>1, <2>2 DEF PlaceInv, TxInv
  <1>4. BeforeInv /\ NewerIsKept
    BY <1>2 DEF Init, BeforeInv, NewerIsKept
  <1>5. TableIsLastCommit
    BY <1>2 DEF Init, TableIsLastCommit, WritesTo
  <1> QED BY <1>1, <1>3, <1>4, <1>5 DEF IntakeInv

LEMMA NextIntakeInv == IntakeInv /\ [Next]_vars => IntakeInv'
  <1>1. ASSUME IntakeInv, Next PROVE IntakeInv'
    BY <1>1, TypeStep, AnswerStep, TxStep, BeforeStep, NewerStep, TableStep
       DEF IntakeInv, AnswerInv
  <1>2. ASSUME IntakeInv, UNCHANGED vars PROVE IntakeInv'
    <2>1. /\ in' = in /\ cancelled' = cancelled /\ pc' = pc /\ writer' = writer
          /\ logged' = logged /\ conn' = conn /\ tx' = tx /\ db' = db
          /\ log' = log /\ panicked' = panicked /\ before' = before
      BY <1>2 DEF vars, rvars, avars
    <2>2. TypeOK'
      BY <1>2, <2>1 DEF IntakeInv, TypeOK
    <2>3. ASSUME NEW r \in Request PROVE WriterInv(r)' /\ PlaceInv(r)' /\ TxInv(r)'
      <3>1. Committed(r)' <=> Committed(r)
        BY <2>1 DEF Committed
      <3>2. AnswerInv(r)'
        BY <1>2, <2>1, <3>1, AnswerFrame DEF IntakeInv, AnswerInv
      <3>3. TxInv(r)'
        BY <1>2, <2>1 DEF IntakeInv, TxInv, KeyOf
      <3> QED BY <3>2, <3>3 DEF AnswerInv
    <2>4. BeforeInv' /\ NewerIsKept'
      BY <1>2, <2>1 DEF IntakeInv, BeforeInv, NewerIsKept, Over
    <2>5. TableIsLastCommit'
      BY <1>2, <2>1 DEF IntakeInv, TableIsLastCommit, WritesTo, Whole, KeyOf, AlertsOf
    <2> QED BY <2>2, <2>3, <2>4, <2>5 DEF IntakeInv
  <1> QED BY <1>1, <1>2

\* The inductive invariant of the intake: types and the holder of the only
\* connection, the state of each answer, the progress of the open transaction,
\* and what is committed and in which order.
THEOREM IntakeInvariant == Spec => []IntakeInv
  BY InitIntakeInv, NextIntakeInv, PTL DEF Spec

\* The connection of the pool is with the request that has a transaction open,
\* and with no one else: no path through Save keeps it.
THEOREM IntakeTypes == Spec => []TypeOK
  <1>1. IntakeInv => TypeOK
    BY DEF IntakeInv
  <1> QED BY <1>1, IntakeInvariant, PTL

\* The tables hold the last committed delivery of every group, whole, however
\* the statements of Save interleave, fail or die with the process.
THEOREM CommittedTables == Spec => []TableIsLastCommit
  <1>1. IntakeInv => TableIsLastCommit
    BY DEF IntakeInv
  <1> QED BY <1>1, IntakeInvariant, PTL

\* No delivery replaces one that arrived when it was over already.
THEOREM DeliveryOrder == Spec => []NewerIsKept
  <1>1. IntakeInv => NewerIsKept
    BY DEF IntakeInv
  <1> QED BY <1>1, IntakeInvariant, PTL

\* The status the client gets and the one Recovery and the handler agreed on.
LEMMA AnswerFacts ==
    ASSUME IntakeInv, NEW r \in Request, Code(r) # 0
    PROVE  /\ writer[r].headerSent /\ Code(r) = writer[r].status
           /\ \/ writer[r].body[1] = "handler" /\ Means(r, Code(r))
              \/ writer[r].body[1] = "recovery" /\ panicked[r] /\ Code(r) = 500
  <1>1. WriterInv(r) /\ writer[r] \in Writer
    BY DEF IntakeInv, TypeOK
  <1>2. writer[r].headerSent /\ Code(r) = writer[r].status /\ writer[r].body # <<>>
    BY <1>1 DEF WriterInv, Code
  <1>3. writer[r].body \in Seq({"handler", "recovery"})
    BY <1>1 DEF Writer
  <1>4. writer[r].body[1] \in {"handler", "recovery"}
    BY <1>2, <1>3
  <1> QED BY <1>1, <1>2, <1>4 DEF WriterInv

\* A client is told 200 exactly when its alerts are committed, and 500 when
\* they are but the handler panicked before it could say so.
THEOREM AnswersAreTrue == Spec => []AnswerTellsOutcome
  <1>1. IntakeInv => AnswerTellsOutcome
    <2> SUFFICES ASSUME IntakeInv, NEW r \in Request, Code(r) # 0
                 PROVE  /\ Code(r) = 200 => Committed(r)
                        /\ Committed(r) =>
                             Code(r) = IF panicked[r] /\ writer[r].body[1] = "recovery"
                                       THEN 500 ELSE 200
      BY DEF AnswerTellsOutcome, Committed
    <2> QED BY AnswerFacts DEF Means
  <1> QED BY <1>1, IntakeInvariant, PTL

\* Alertmanager is made to retry only what may succeed, and is kept from
\* retrying what may succeed only when the body was not read to its end, which
\* is answered 400 as a payload the relay can never store is.
THEOREM RetriesAreUseful == Spec => []RetryOnlyWhenUseful
  <1>1. IntakeInv => RetryOnlyWhenUseful
    <2> SUFFICES ASSUME IntakeInv, NEW r \in Request
                 PROVE  /\ Code(r) = 500 => Acceptable(r) \/ panicked[r]
                        /\ Acceptable(r) => Code(r) \notin {400, 413, 415}
                        /\ in[r].wire = "broken" => Code(r) \notin {413, 415}
                        /\ panicked[r] /\ Code(r) # 500 =>
                               writer[r].body[1] = "handler"
      BY DEF RetryOnlyWhenUseful, Acceptable
    <2>1. CASE Code(r) # 0
      BY <2>1, AnswerFacts DEF Means
    <2>2. CASE Code(r) = 0
      <3>1. WriterInv(r) /\ writer[r] \in Writer
        BY DEF IntakeInv, TypeOK
      <3>2. panicked[r] => writer[r].body[1] = "handler"
        <4>1. writer[r].body \in Seq({"handler", "recovery"})
          BY <3>1 DEF Writer
        <4>2. writer[r].body # <<>> =>
                  writer[r].body[1] \in {"handler", "recovery"}
          BY <4>1
        <4> QED BY <2>2, <3>1, <4>2 DEF WriterInv, Means, Code
      <3> QED BY <2>2, <3>2
    <2> QED BY <2>1, <2>2
  <1> QED BY <1>1, IntakeInvariant, PTL

\* The access log has the status and the length the client got.
THEOREM LogIsTrue == Spec => []LoggedIsSent
  <1>1. IntakeInv => LoggedIsSent
    BY DEF IntakeInv, LoggedIsSent, PlaceInv, WriterInv, Code
  <1> QED BY <1>1, IntakeInvariant, PTL
=============================================================================
