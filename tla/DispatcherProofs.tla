-------------------------- MODULE DispatcherProofs --------------------------
(***************************************************************************)
(* The invariant of DispatcherInvariant is inductive, for any number of    *)
(* groups and channels, any batch and queue size and any number of         *)
(* upserts; and what follows from it.                                      *)
(***************************************************************************)
EXTENDS DispatcherInvariant, FiniteSetTheorems, SequenceTheorems, TLAPS

\* There are finitely many channels, and any set of them can be counted.
LEMMA ChannelsFinite ==
    /\ IsFiniteSet(Channel)
    /\ Cardinality(Channel) = NumChannels
    /\ \A S \in SUBSET Channel : IsFiniteSet(S) /\ Cardinality(S) \in Nat
  <1>1. IsFiniteSet(Channel) /\ Cardinality(Channel) = NumChannels
    BY FS_Interval, DispatcherAssumption DEF Channel
  <1>2. ASSUME NEW S \in SUBSET Channel
        PROVE  IsFiniteSet(S) /\ Cardinality(S) \in Nat
    BY <1>1, FS_Subset, FS_CardinalityType
  <1> QED BY <1>1, <1>2

\* The result channel has a slot for every result a batch can produce.
LEMMA CapacityExceedsChannels == ResultCap \in Nat /\ NumChannels < ResultCap
  <1> DEFINE P == NumChannels * BatchSize
  <1>1. P \in Nat /\ P >= NumChannels
    <2>1. \A n, b \in Nat : b # 0 => n * b \in Nat /\ n * b >= n
      OBVIOUS
    <2> QED BY <2>1, DispatcherAssumption
  <1> QED BY <1>1, DispatcherAssumption DEF ResultCap

\* One result per channel: the result channel never holds more than
\* NumChannels of them.
LEMMA FewResults ==
    ASSUME TypeOK, OneResult
    PROVE  Len(resultCh) <= NumChannels /\ Len(resultCh) \in Nat
  <1> DEFINE n == Len(resultCh)
             f == [i \in 1 .. n |-> resultCh[i].ch]
  <1>1. n \in Nat /\ \A i \in 1 .. n : resultCh[i] \in SendResult
    BY DEF TypeOK, PipeType
  <1>2. f \in [1 .. n -> Channel]
    BY <1>1 DEF SendResult
  <1>3. \A i, j \in 1 .. n : f[i] = f[j] => i = j
    BY DEF OneResult
  <1>4. f \in Injection(1 .. n, Channel)
    BY <1>2, <1>3 DEF Injection, IsInjective
  <1>5. Cardinality(1 .. n) <= Cardinality(Channel)
    BY <1>4, FS_Injection, ChannelsFinite
  <1>6. ASSUME NEW k \in Nat PROVE Cardinality(1 .. k) = k
    BY FS_Interval
  <1> QED BY <1>1, <1>5, <1>6, ChannelsFinite, DispatcherAssumption

\* A set of outstanding channels is a set of channels.
LEMMA OutstandingChannels == Outstanding \subseteq Channel
  BY DEF Outstanding

-----------------------------------------------------------------------------

\* Nothing is outstanding: no queue, worker or result holds anything.
LEMMA NothingOutstanding ==
    ASSUME TypeOK, Outstanding = {}
    PROVE  /\ \A c \in Channel : queue[c] = <<>> /\ ~Working(c)
           /\ resultCh = <<>>
           /\ Results = {}
  <1>1. \A c \in Channel : queue[c] = <<>> /\ ~Working(c) /\ c \notin Results
    BY DEF Outstanding
  <1>2. ASSUME NEW i \in 1 .. Len(resultCh) PROVE FALSE
    <2>1. resultCh[i] \in SendResult
      BY DEF TypeOK, PipeType
    <2>2. resultCh[i].ch \in Channel
      BY <2>1 DEF SendResult
    <2> QED BY <1>1, <2>2 DEF Results
  <1>3. Len(resultCh) = 0
    <2>1. Len(resultCh) \in Nat
      BY DEF TypeOK, PipeType
    <2> QED BY <1>2, <2>1
  <1>4. resultCh = <<>>
    BY <1>3, EmptySeq DEF TypeOK, PipeType
  <1> QED BY <1>1, <1>2, <1>4 DEF Results

\* Nothing runs and nothing is stored: the invariant holds at the start.
LEMMA InitIInv == Init => IInv
  <1> SUFFICES ASSUME Init PROVE IInv
    OBVIOUS
  <1> USE DEF Init
  <1>1. Results = {} /\ Outstanding = {}
    BY DEF Results, Outstanding, Working
  <1>2. Cardinality({}) = 0
    BY FS_EmptySet
  <1>3. TypeOK
    <2>1. StoreType
      BY DEF StoreType, EmptyTable, Row, NotificationStatus
    <2>2. LoopType
      <3>1. batch \in Seq(Notification) /\ Len(batch) <= BatchSize
        BY DispatcherAssumption
      <3>2. ci \in 1 .. NumChannels + 1
        BY DispatcherAssumption
      <3>3. collected \in 0 .. Cardinality(enqueued)
        BY <1>2
      <3> QED BY <3>1, <3>2, <3>3 DEF LoopType
    <2>3. PipeType
      <3>1. queue \in [Channel -> Seq(Notification)]
        BY EmptySeq
      <3>2. \A c \in Channel : Len(queue[c]) <= QueueSize
        BY DispatcherAssumption
      <3>3. resultCh \in Seq(SendResult) /\ Len(resultCh) <= ResultCap
        BY CapacityExceedsChannels, DispatcherAssumption
      <3>4. /\ wpc \in [Channel -> {"wait", "send", "report", "stopped"}]
            /\ wjob \in [Channel -> Notification \cup {NoJob}]
            /\ wok \in [Channel -> BOOLEAN]
        OBVIOUS
      <3> QED BY <3>1, <3>2, <3>3, <3>4 DEF PipeType
    <2> QED BY <2>1, <2>2, <2>3 DEF TypeOK
  <1>4. OnePlace /\ OneResult
    BY <1>1 DEF OnePlace, OneResult, Working
  <1>5. Account
    BY <1>1, <1>2 DEF Account
  <1>6. Phase
    BY <1>1 DEF Phase
  <1>7. Successes
    BY DEF Successes
  <1>8. Versions
    BY DEF Versions, EmptyTable
  <1>9. SentReachedSomebody
    BY DEF SentReachedSomebody, EmptyTable
  <1> QED BY <1>3, <1>4, <1>5, <1>6, <1>7, <1>8, <1>9 DEF IInv

-----------------------------------------------------------------------------
(* Steps that do not move a notification                                   *)

\* The places are the same when no queue, result or worker's hold changes.
LEMMA SamePlaces ==
    ASSUME UNCHANGED <<queue, resultCh>>,
           \A c \in Channel : Working(c)' <=> Working(c)
    PROVE  Results' = Results /\ Outstanding' = Outstanding
  <1>1. Results' = Results
    BY DEF Results
  <1> QED BY <1>1 DEF Outstanding

\* Who holds what depends on the queues, the workers and the results only.
LEMMA SameNotifications ==
    ASSUME OnePlace, OneResult, UNCHANGED <<queue, resultCh, batch, wjob>>,
           \A c \in Channel : Working(c)' <=> Working(c)
    PROVE  OnePlace' /\ OneResult'
  <1>1. Results' = Results
    BY SamePlaces
  <1>2. OnePlace'
    BY <1>1 DEF OnePlace
  <1>3. OneResult'
    BY DEF OneResult
  <1> QED BY <1>2, <1>3

\* The account is kept when what is due, enqueued and collected is.
LEMMA SameAccount ==
    ASSUME Account, Outstanding' = Outstanding, UNCHANGED <<enqueued,
                                                            collected>>
    PROVE  Account'
  BY DEF Account

\* A signal only allows Enqueue to fail from now on.
LEMMA SignalInv == IInv /\ Signal => IInv'
  <1> SUFFICES ASSUME IInv, Signal PROVE IInv'
    OBVIOUS
  <1> USE DEF IInv
  <1>1. UNCHANGED <<tbl, now, handed, delivered, running, dpc, batch, ci,
                    enqueued, collected, allOK, queue, closed, wpc, wjob, wok,
                    resultCh>>
    BY DEF Signal, dvars, wvars
  <1>2. \A c \in Channel : Working(c)' <=> Working(c)
    BY <1>1 DEF Working
  <1>3. Results' = Results /\ Outstanding' = Outstanding
    BY <1>1, <1>2, SamePlaces
  <1>4. TypeOK'
    <2>1. StoreType' BY <1>1 DEF TypeOK, StoreType
    <2>2. LoopType' BY <1>1 DEF TypeOK, LoopType, Signal
    <2>3. PipeType' BY <1>1 DEF TypeOK, PipeType
    <2> QED BY <2>1, <2>2, <2>3 DEF TypeOK
  <1>5. OnePlace' /\ OneResult'
    BY <1>1, <1>2, SameNotifications
  <1>6. Account'
    BY <1>1, <1>3, SameAccount
  <1>7. Phase'
    BY <1>1, <1>3 DEF Phase, Signal
  <1>8. Successes'
    BY <1>1, <1>3 DEF Successes, Has
  <1>9. Versions' /\ SentReachedSomebody'
    BY <1>1 DEF Versions, SentReachedSomebody
  <1> QED BY <1>4, <1>5, <1>6, <1>7, <1>8, <1>9

\* A new process begins with empty queues and idle workers.
LEMMA StartInv == IInv /\ Start => IInv'
  <1> SUFFICES ASSUME IInv, Start PROVE IInv'
    OBVIOUS
  <1> USE DEF IInv
  <1>1. UNCHANGED <<tbl, now, handed, delivered, ctxDone, batch, ci, enqueued,
                    collected, allOK, queue, closed, wjob, wok, resultCh>>
    BY DEF Start
  <1>2. \A c \in Channel : ~Working(c) /\ ~Working(c)' /\ wpc'[c] = "wait"
    <2>1. Outstanding = {}
      BY DEF Phase, Start
    <2> QED BY <2>1, NothingOutstanding DEF Start, Working
  <1>3. Results' = Results /\ Outstanding' = Outstanding
    BY <1>1, <1>2, SamePlaces
  <1>4. TypeOK'
    <2>1. StoreType' BY <1>1 DEF TypeOK, StoreType
    <2>2. LoopType' BY <1>1 DEF TypeOK, LoopType, Start
    <2>3. PipeType' BY <1>1 DEF TypeOK, PipeType, Start
    <2> QED BY <2>1, <2>2, <2>3 DEF TypeOK
  <1>5. OnePlace' /\ OneResult'
    BY <1>1, <1>2, SameNotifications
  <1>6. Account'
    BY <1>1, <1>3, SameAccount
  <1>7. Phase'
    BY <1>1, <1>3 DEF Phase, Start
  <1>8. Successes'
    BY <1>1, <1>2, <1>3 DEF Successes, Has
  <1>9. Versions' /\ SentReachedSomebody'
    BY <1>1 DEF Versions, SentReachedSomebody
  <1> QED BY <1>4, <1>5, <1>6, <1>7, <1>8, <1>9

\* The queues are closed between polls, when nothing is outstanding.
LEMMA ShutdownInv == IInv /\ Shutdown => IInv'
  <1> SUFFICES ASSUME IInv, Shutdown PROVE IInv'
    OBVIOUS
  <1> USE DEF IInv
  <1>1. UNCHANGED <<tbl, now, handed, delivered, ctxDone, running, batch, ci,
                    enqueued, collected, allOK, queue, wpc, wjob, wok,
                    resultCh>>
    BY DEF Shutdown, wvars
  <1>2. \A c \in Channel : Working(c)' <=> Working(c)
    BY <1>1 DEF Working
  <1>3. Results' = Results /\ Outstanding' = Outstanding
    BY <1>1, <1>2, SamePlaces
  <1>4. TypeOK'
    <2>1. StoreType' BY <1>1 DEF TypeOK, StoreType
    <2>2. LoopType' BY <1>1 DEF TypeOK, LoopType, Shutdown
    <2>3. PipeType' BY <1>1 DEF TypeOK, PipeType, Shutdown
    <2> QED BY <2>1, <2>2, <2>3 DEF TypeOK
  <1>5. OnePlace' /\ OneResult'
    BY <1>1, <1>2, SameNotifications
  <1>6. Account'
    BY <1>1, <1>3, SameAccount
  <1>7. Phase'
    BY <1>1, <1>3 DEF Phase, Shutdown
  <1>8. Successes'
    BY <1>1, <1>3 DEF Successes, Has
  <1>9. Versions' /\ SentReachedSomebody'
    BY <1>1 DEF Versions, SentReachedSomebody
  <1> QED BY <1>4, <1>5, <1>6, <1>7, <1>8, <1>9

\* What an upsert does to the rows.
LEMMA SaveRows ==
    ASSUME NEW t \in [Groups -> Row], NEW g \in Groups, NEW stamp \in Nat
    PROVE  /\ Save(t, g, stamp) \in [Groups -> Row]
           /\ Save(t, g, stamp)[g].ver = t[g].ver + 1
           /\ Save(t, g, stamp)[g].status = "pending"
           /\ \A h \in Groups \ {g} : Save(t, g, stamp)[h] = t[h]
  <1>1. t[g] \in Row
    OBVIOUS
  <1>2. [ver |-> t[g].ver + 1, status |-> "pending", at |-> stamp] \in Row
    BY <1>1 DEF Row, NotificationStatus
  <1> QED BY <1>2 DEF Save

\* An upsert of any group, of one that is being sent too, makes its row newer
\* and pending: every version in the pipeline stays a lower bound.
LEMMA ReceiveInv == ASSUME NEW g \in Groups PROVE IInv /\ Receive(g) => IInv'
  <1> SUFFICES ASSUME IInv, Receive(g) PROVE IInv'
    OBVIOUS
  <1> USE DEF IInv
  <1>1. UNCHANGED <<handed, delivered, ctxDone, running, dpc, batch, ci,
                    enqueued, collected, allOK, queue, closed, wpc, wjob, wok,
                    resultCh>>
    BY DEF Receive, dvars, wvars
  <1>2. \A c \in Channel : Working(c)' <=> Working(c)
    BY <1>1 DEF Working
  <1>3. Results' = Results /\ Outstanding' = Outstanding
    BY <1>1, <1>2, SamePlaces
  <1>4. PICK stamp \in {now, now + 1} : now' = stamp /\ tbl' = Save(tbl, g, stamp)
    BY DEF Receive
  <1>5. stamp \in Nat /\ tbl \in [Groups -> Row]
    BY <1>4 DEF TypeOK, StoreType
  <1>6. /\ tbl' \in [Groups -> Row]
        /\ tbl'[g].ver = tbl[g].ver + 1
        /\ tbl'[g].status = "pending"
        /\ \A h \in Groups \ {g} : tbl'[h] = tbl[h]
    BY <1>4, <1>5, SaveRows
  <1>7. \A h \in Groups : tbl[h].ver \in Nat /\ tbl'[h].ver \in Nat
    BY <1>5, <1>6 DEF Row
  <1>8. \A h \in Groups : tbl[h].ver <= tbl'[h].ver
    BY <1>6, <1>7
  <1>9. TypeOK'
    <2>1. StoreType' BY <1>1, <1>4, <1>5, <1>6 DEF TypeOK, StoreType
    <2>2. LoopType' BY <1>1 DEF TypeOK, LoopType
    <2>3. PipeType' BY <1>1 DEF TypeOK, PipeType
    <2> QED BY <2>1, <2>2, <2>3 DEF TypeOK
  <1>10. OnePlace' /\ OneResult'
    BY <1>1, <1>2, SameNotifications
  <1>11. Account'
    BY <1>1, <1>3, SameAccount
  <1>12. Phase'
    BY <1>1, <1>3 DEF Phase
  <1>13. Successes'
    BY <1>1, <1>3 DEF Successes, Has
  <1>14. \A d \in handed : d.key \in Groups /\ d.ver \in Nat
    BY DEF TypeOK, StoreType, Delivery
  <1>15. \A i \in 1 .. Len(batch) : batch[i].key \in Groups /\ batch[i].ver \in Nat
    <2>1. \A i \in 1 .. Len(batch) : batch[i] \in Notification
      BY DEF TypeOK, LoopType
    <2> QED BY <2>1 DEF Notification
  <1>16. Versions'
    <2>1. ASSUME NEW h \in Groups, tbl'[h].status = "pending"
          PROVE  tbl'[h].ver >= 1
      BY <2>1, <1>6, <1>7 DEF Versions
    <2>2. ASSUME NEW d \in handed PROVE d.ver >= 1 /\ d.ver <= tbl'[d.key].ver
      BY <1>7, <1>8, <1>14 DEF Versions
    <2>3. ASSUME NEW i \in 1 .. Len(batch)
          PROVE  /\ tbl'[batch[i].key].status = "pending"
                 /\ batch[i].ver >= 1
                 /\ batch[i].ver <= tbl'[batch[i].key].ver
      BY <1>6, <1>7, <1>8, <1>15, SMTT(30) DEF Versions
    <2> QED BY <1>1, <2>1, <2>2, <2>3 DEF Versions
  <1>17. SentReachedSomebody'
    BY <1>1, <1>6 DEF SentReachedSomebody
  <1> QED BY <1>9, <1>10, <1>11, <1>12, <1>13, <1>16, <1>17

\* When the workers have stopped there is no result left to discard.
LEMMA RunReturnsInv == IInv /\ RunReturns => IInv'
  <1> SUFFICES ASSUME IInv, RunReturns PROVE IInv'
    OBVIOUS
  <1> USE DEF IInv
  <1>1. UNCHANGED <<tbl, now, handed, delivered, ctxDone, batch, ci, enqueued,
                    collected, allOK, queue, closed, wpc, wjob, wok>>
    BY DEF RunReturns, wvars
  <1>2. Outstanding = {}
    BY DEF Phase, RunReturns
  <1>3. \A c \in Channel : queue[c] = <<>> /\ ~Working(c)
    BY <1>2, NothingOutstanding
  <1>4. resultCh' = <<>> /\ resultCh = <<>>
    BY <1>2, NothingOutstanding DEF RunReturns
  <1>5. \A c \in Channel : Working(c)' <=> Working(c)
    BY <1>1 DEF Working
  <1>6. Results' = Results /\ Outstanding' = Outstanding
    BY <1>1, <1>4, <1>5, SamePlaces
  <1>7. TypeOK'
    <2>1. StoreType' BY <1>1 DEF TypeOK, StoreType
    <2>2. LoopType' BY <1>1 DEF TypeOK, LoopType, RunReturns
    <2>3. PipeType' BY <1>1, <1>4 DEF TypeOK, PipeType
    <2> QED BY <2>1, <2>2, <2>3 DEF TypeOK
  <1>8. OnePlace' /\ OneResult'
    BY <1>1, <1>4, <1>5, SameNotifications
  <1>9. Account'
    BY <1>1, <1>6, SameAccount
  <1>10. Phase'
    BY <1>1, <1>6 DEF Phase, RunReturns
  <1>11. Successes'
    BY <1>1, <1>4, <1>6 DEF Successes, Has
  <1>12. Versions' /\ SentReachedSomebody'
    BY <1>1 DEF Versions, SentReachedSomebody
  <1> QED BY <1>7, <1>8, <1>9, <1>10, <1>11, <1>12

\* A crash clears what is volatile; what was delivered stays bounded by the
\* table.
LEMMA ProcessEndsInv == IInv /\ ProcessEnds => IInv'
  <1> SUFFICES ASSUME IInv, ProcessEnds PROVE IInv'
    OBVIOUS
  <1> USE DEF IInv
  <1>1. UNCHANGED <<tbl, now, handed, delivered>>
    BY DEF ProcessEnds
  <1>2. \A c \in Channel : queue'[c] = <<>> /\ ~Working(c)' /\ wpc'[c] = "stopped"
    BY DEF ProcessEnds, Working
  <1>3. resultCh' = <<>>
    BY DEF ProcessEnds
  <1>4. Results' = {}
    BY <1>3 DEF Results
  <1>5. Outstanding' = {}
    BY <1>2, <1>4 DEF Outstanding
  <1>6. OnePlace' /\ OneResult'
    BY <1>2, <1>3 DEF OnePlace, OneResult
  <1>7. Cardinality({}) = 0
    BY FS_EmptySet
  <1>8. TypeOK'
    <2>1. StoreType' BY <1>1 DEF TypeOK, StoreType
    <2>2. LoopType'
      <3>1. batch' \in Seq(Notification) /\ Len(batch') <= BatchSize
        BY DispatcherAssumption DEF ProcessEnds
      <3>2. ci' \in 1 .. NumChannels + 1
        BY DispatcherAssumption DEF ProcessEnds
      <3>3. collected' \in 0 .. Cardinality(enqueued')
        BY <1>7 DEF ProcessEnds
      <3> QED BY <3>1, <3>2, <3>3 DEF LoopType, ProcessEnds
    <2>3. PipeType'
      <3>1. queue' \in [Channel -> Seq(Notification)]
        BY EmptySeq DEF ProcessEnds
      <3>2. \A c \in Channel : Len(queue'[c]) <= QueueSize
        BY <1>2, DispatcherAssumption
      <3>3. resultCh' \in Seq(SendResult) /\ Len(resultCh') <= ResultCap
        BY <1>3, CapacityExceedsChannels, DispatcherAssumption
      <3>4. /\ wpc' \in [Channel -> {"wait", "send", "report", "stopped"}]
            /\ wjob' \in [Channel -> Notification \cup {NoJob}]
            /\ wok' \in [Channel -> BOOLEAN]
            /\ closed' \in BOOLEAN
        BY DEF ProcessEnds
      <3> QED BY <3>1, <3>2, <3>3, <3>4 DEF PipeType
    <2> QED BY <2>1, <2>2, <2>3 DEF TypeOK
  <1>9. Account'
    BY <1>5, <1>7 DEF Account, ProcessEnds
  <1>10. Phase'
    BY <1>5 DEF Phase, ProcessEnds
  <1>11. Successes'
    BY <1>2, <1>3 DEF Successes, ProcessEnds
  <1>12. Versions'
    BY <1>1 DEF Versions, ProcessEnds
  <1>13. SentReachedSomebody'
    BY <1>1 DEF SentReachedSomebody
  <1> QED BY <1>6, <1>8, <1>9, <1>10, <1>11, <1>12, <1>13

-----------------------------------------------------------------------------
(* Steps that change the current group                                     *)

\* What a query returns: at most limit different keys of pending rows.
LEMMA GetPendingRows ==
    ASSUME NEW t, NEW limit \in Nat, NEW keys \in GetPending(t, limit)
    PROVE  /\ keys \in Seq(Groups)
           /\ Len(keys) <= limit
           /\ \A i \in 1 .. Len(keys) :
                  keys[i] \in Groups /\ t[keys[i]].status = "pending"
           /\ \A i, j \in 1 .. Len(keys) : keys[i] = keys[j] => i = j
  <1> DEFINE pending == PendingKeys(t)
             k == Cardinality(pending)
             n == IF k < limit THEN k ELSE limit
  <1>1. pending \subseteq Groups
    BY DEF PendingKeys
  <1>2. k \in Nat
    BY <1>1, GroupsAssumption, FS_Subset, FS_CardinalityType
  <1> HIDE DEF k
  <1>3. n \in Nat /\ n <= limit
    BY <1>2
  <1>4. /\ keys \in [1 .. n -> pending]
        /\ \A i, j \in DOMAIN keys : i < j => keys[i] # keys[j]
    BY DEF GetPending, k
  <1> HIDE DEF n
  <1>5. keys \in Seq(Groups) /\ Len(keys) = n
    BY <1>1, <1>3, <1>4
  <1>6. \A i \in 1 .. n : keys[i] \in Groups /\ t[keys[i]].status = "pending"
    BY <1>4 DEF PendingKeys
  <1>7. \A i, j \in 1 .. n : keys[i] = keys[j] => i = j
    BY <1>3, <1>4
  <1> QED BY <1>3, <1>5, <1>6, <1>7

\* A poll fills the batch with distinct pending groups, at the versions the
\* table has, which no recipient has seen a newer version of.
LEMMA PollInv == IInv /\ Poll => IInv'
  <1> SUFFICES ASSUME IInv, Poll PROVE IInv'
    OBVIOUS
  <1> USE DEF IInv
  <1>1. UNCHANGED <<tbl, now, handed, delivered, ctxDone, running, ci,
                    enqueued, collected, allOK, queue, closed, wpc, wjob, wok,
                    resultCh>>
    BY DEF Poll, wvars
  <1>2. dpc = "idle" /\ dpc' = "enqueue" /\ NumChannels > 0
    BY DEF Poll
  <1>3. /\ Outstanding = {} /\ batch = <<>> /\ enqueued = {} /\ collected = 0
        /\ allOK /\ ci = 1 /\ ~closed
    BY <1>2 DEF Phase
  <1>4. /\ \A c \in Channel : queue[c] = <<>> /\ ~Working(c)
        /\ resultCh = <<>>
    BY <1>3, NothingOutstanding
  <1>5. \A c \in Channel : Working(c)' <=> Working(c)
    BY <1>1 DEF Working
  <1>6. Results' = Results /\ Outstanding' = Outstanding
    BY <1>1, <1>5, SamePlaces
  <1>7. PICK keys \in GetPending(tbl, BatchSize) :
            /\ keys # <<>>
            /\ batch' = [i \in DOMAIN keys |-> NewNotification(keys[i])]
    BY DEF Poll
  <1>8. /\ keys \in Seq(Groups)
        /\ Len(keys) <= BatchSize
        /\ \A i \in 1 .. Len(keys) :
               keys[i] \in Groups /\ tbl[keys[i]].status = "pending"
        /\ \A i, j \in 1 .. Len(keys) : keys[i] = keys[j] => i = j
    BY DispatcherAssumption, GetPendingRows
  <1>9. DOMAIN keys = 1 .. Len(keys) /\ Len(keys) \in Nat \ {0}
    BY <1>7, <1>8, EmptySeq, LenProperties
  <1>10. \A i \in 1 .. Len(keys) :
             /\ batch'[i].key = keys[i]
             /\ batch'[i].ver = tbl[keys[i]].ver
             /\ batch'[i] \in Notification
    <2>1. \A g \in Groups : tbl[g].ver \in Nat
      BY DEF TypeOK, StoreType, Row
    <2> QED BY <1>7, <1>8, <1>9, <2>1 DEF NewNotification, Notification
  <1>11. batch' \in Seq(Notification) /\ Len(batch') = Len(keys) /\ batch' # <<>>
    <2>1. batch' \in [1 .. Len(keys) -> Notification]
      BY <1>7, <1>9, <1>10
    <2> QED BY <1>9, <2>1
  <1>12. TypeOK'
    <2>1. StoreType' BY <1>1 DEF TypeOK, StoreType
    <2>2. LoopType' BY <1>1, <1>2, <1>8, <1>11 DEF TypeOK, LoopType
    <2>3. PipeType' BY <1>1 DEF TypeOK, PipeType
    <2> QED BY <2>1, <2>2, <2>3 DEF TypeOK
  <1>13. OnePlace' /\ OneResult'
    BY <1>1, <1>4, <1>5 DEF OnePlace, OneResult
  <1>14. Account'
    BY <1>1, <1>6, SameAccount
  <1>15. Phase'
    <2>1. 1 \in Channel /\ 1 .. 1 - 1 = {}
      BY <1>2, DispatcherAssumption DEF Channel
    <2> QED BY <1>1, <1>2, <1>3, <1>6, <1>11, <2>1 DEF Phase
  <1>16. Successes'
    BY <1>1, <1>3, <1>4 DEF Successes, Working
  <1>17. Versions'
    <2>1. \A d \in handed : d.ver >= 1 /\ d.ver <= tbl[d.key].ver
      BY DEF Versions
    <2>2. \A g \in Groups : tbl[g].ver \in Nat
      BY DEF TypeOK, StoreType, Row
    <2>3. ASSUME NEW i \in 1 .. Len(keys)
          PROVE  /\ tbl[batch'[i].key].status = "pending"
                 /\ batch'[i].ver >= 1
                 /\ batch'[i].ver <= tbl[batch'[i].key].ver
                 /\ \A d \in handed :
                        d.key = batch'[i].key => d.ver <= batch'[i].ver
      <3>1. batch'[i].key = keys[i] /\ batch'[i].ver = tbl[keys[i]].ver
        BY <1>10
      <3>2. keys[i] \in Groups /\ tbl[keys[i]].status = "pending"
        BY <1>8
      <3>3. tbl[keys[i]].ver >= 1
        BY <3>2 DEF Versions
      <3> QED BY <2>1, <2>2, <3>1, <3>2, <3>3
    <2>4. ASSUME NEW i \in 1 .. Len(keys), NEW j \in 1 .. Len(keys),
                 batch'[i].key = batch'[j].key
          PROVE  i = j
      <3>1. batch'[i].key = keys[i] /\ batch'[j].key = keys[j]
        BY <1>10
      <3> QED BY <1>8, <2>4, <3>1
    <2> QED BY <1>1, <1>11, <2>3, <2>4 DEF Versions
  <1>18. SentReachedSomebody'
    BY <1>1 DEF SentReachedSomebody
  <1> QED BY <1>12, <1>13, <1>14, <1>15, <1>16, <1>17, <1>18

\* fanOutAndCollect returns with nothing outstanding: the rest of the batch
\* is as good as it was, if only the row of the group just left has changed
\* and that not back to pending.
LEMMA NextGroupInv ==
    ASSUME IInv, NextGroup, batch # <<>>, Channel # {},
           UNCHANGED <<now, handed, delivered, ctxDone, running, queue, closed,
                       wpc, wjob, wok>>,
           \A c \in Channel : queue[c] = <<>> /\ ~Working(c),
           resultCh' = <<>>,
           tbl' \in [Groups -> Row],
           \A g \in Groups : tbl'[g].ver = tbl[g].ver,
           \A g \in Groups : g # Head(batch).key => tbl'[g] = tbl[g],
           \A g \in Groups :
               tbl'[g].status = "pending" => tbl[g].status = "pending",
           SentReachedSomebody'
    PROVE  IInv'
  <1> USE DEF IInv
  <1>1. \A c \in Channel : queue'[c] = <<>> /\ ~Working(c)'
    BY DEF Working
  <1>2. Results' = {}
    BY DEF Results
  <1>3. Outstanding' = {}
    BY <1>1, <1>2 DEF Outstanding
  <1>4. OnePlace' /\ OneResult'
    BY <1>1 DEF OnePlace, OneResult
  <1>5. Cardinality({}) = 0
    BY FS_EmptySet
  <1>6. /\ batch \in Seq(Notification) /\ Len(batch) \in Nat \ {0}
        /\ Len(batch) <= BatchSize
    BY EmptySeq DEF TypeOK, LoopType
  <1>7. /\ batch' \in Seq(Notification)
        /\ Len(batch') = Len(batch) - 1
        /\ \A i \in 1 .. Len(batch') : batch'[i] = batch[i + 1]
        /\ Head(batch) = batch[1]
    BY <1>6 DEF NextGroup
  <1>8. TypeOK'
    <2>1. StoreType' BY DEF TypeOK, StoreType
    <2>2. LoopType'
      <3>1. Len(batch') <= BatchSize
        BY <1>6, <1>7, DispatcherAssumption
      <3>2. ci' \in 1 .. NumChannels + 1
        BY DispatcherAssumption DEF NextGroup
      <3>3. collected' \in 0 .. Cardinality(enqueued')
        BY <1>5 DEF NextGroup
      <3> QED BY <1>7, <3>1, <3>2, <3>3 DEF TypeOK, LoopType, NextGroup
    <2>3. PipeType'
      <3>1. resultCh' \in Seq(SendResult) /\ Len(resultCh') <= ResultCap
        BY CapacityExceedsChannels, DispatcherAssumption
      <3> QED BY <3>1 DEF TypeOK, PipeType
    <2> QED BY <2>1, <2>2, <2>3 DEF TypeOK
  <1>9. Account'
    BY <1>3, <1>5 DEF Account, NextGroup
  <1>10. Phase'
    <2>1. 1 \in Channel /\ 1 .. 1 - 1 = {}
      BY DispatcherAssumption DEF Channel
    <2>2. dpc' = IF batch' = <<>> THEN "idle" ELSE "enqueue"
      BY DEF NextGroup
    <2>3. ~closed'
      BY DEF Phase
    <2>4. ci' = 1 /\ enqueued' = {} /\ collected' = 0 /\ allOK'
      BY DEF NextGroup
    <2> QED BY <1>3, <2>1, <2>2, <2>3, <2>4 DEF Phase
  <1>11. Successes'
    BY <1>1 DEF Successes, NextGroup, Working
  <1>12. Versions'
    <2>1. \A d \in handed : d.key \in Groups
      BY DEF TypeOK, StoreType, Delivery
    <2>2. \A i \in 1 .. Len(batch) : batch[i].key \in Groups
      <3>1. \A i \in 1 .. Len(batch) : batch[i] \in Notification
        BY <1>6
      <3> QED BY <3>1 DEF Notification
    <2>3. ASSUME NEW i \in 1 .. Len(batch')
          PROVE  /\ i + 1 \in 1 .. Len(batch) /\ i + 1 # 1 /\ 1 \in 1 .. Len(batch)
                 /\ batch'[i] = batch[i + 1]
      BY <1>6, <1>7
    <2>4. ASSUME NEW i \in 1 .. Len(batch')
          PROVE  tbl'[batch'[i].key] = tbl[batch'[i].key]
      <3>1. batch[i + 1].key # batch[1].key
        BY <2>3 DEF Versions
      <3> QED BY <1>7, <2>2, <2>3, <3>1
    <2>5. ASSUME NEW i \in 1 .. Len(batch')
          PROVE  /\ tbl'[batch'[i].key].status = "pending"
                 /\ batch'[i].ver >= 1
                 /\ batch'[i].ver <= tbl'[batch'[i].key].ver
                 /\ \A d \in handed :
                        d.key = batch'[i].key => d.ver <= batch'[i].ver
      BY <2>3, <2>4 DEF Versions
    <2>6. ASSUME NEW i \in 1 .. Len(batch'), NEW j \in 1 .. Len(batch'),
                 batch'[i].key = batch'[j].key
          PROVE  i = j
      <3>1. i + 1 = j + 1
        BY <2>3, <2>6 DEF Versions
      <3> QED BY <1>6, <1>7, <3>1
    <2>7. \A d \in handed : d.ver >= 1 /\ d.ver <= tbl'[d.key].ver
      BY <2>1 DEF Versions
    <2>8. \A g \in Groups : tbl'[g].status = "pending" => tbl'[g].ver >= 1
      BY DEF Versions
    <2> QED BY <2>5, <2>6, <2>7, <2>8 DEF Versions
  <1> QED BY <1>4, <1>8, <1>9, <1>10, <1>11, <1>12

\* A group that no queue accepted leaves nothing behind.
LEMMA SkipGroupInv == IInv /\ SkipGroup => IInv'
  <1> SUFFICES ASSUME IInv, SkipGroup PROVE IInv'
    OBVIOUS
  <1> USE DEF IInv
  <1>1. UNCHANGED <<tbl, now, handed, delivered, ctxDone, running, queue,
                    closed, wpc, wjob, wok, resultCh>>
    BY DEF SkipGroup, wvars
  <1>2. NextGroup /\ dpc = "enqueue" /\ enqueued = {}
    BY DEF SkipGroup
  <1>3. Outstanding = {}
    BY <1>2 DEF Account
  <1>4. /\ \A c \in Channel : queue[c] = <<>> /\ ~Working(c)
        /\ resultCh = <<>>
    BY <1>3, NothingOutstanding
  <1>5. batch # <<>> /\ Channel # {}
    BY <1>2 DEF Phase
  <1>6. tbl' \in [Groups -> Row] /\ SentReachedSomebody'
    BY <1>1 DEF TypeOK, StoreType, SentReachedSomebody
  <1> QED BY <1>1, <1>2, <1>4, <1>5, <1>6, NextGroupInv

\* In phase mark the result of every channel is in.
LEMMA MarkPhase ==
    ASSUME IInv, dpc = "mark"
    PROVE  /\ batch # <<>> /\ Channel # {} /\ enqueued # {}
           /\ \A c \in Channel : queue[c] = <<>> /\ ~Working(c)
           /\ resultCh = <<>>
           /\ \A c \in enqueued : Has(c)
  <1> USE DEF IInv
  <1>1. Outstanding = {} /\ batch # <<>> /\ enqueued # {} /\ allOK
    BY DEF Phase
  <1>2. Channel # {}
    BY <1>1 DEF TypeOK, LoopType
  <1>3. \A c \in enqueued : Has(c)
    BY <1>1 DEF Successes
  <1> QED BY <1>1, <1>2, <1>3, NothingOutstanding

\* A failed MarkSent moves on to the next group.
LEMMA MarkGroupErrInv == IInv /\ MarkGroupErr => IInv'
  <1> SUFFICES ASSUME IInv, MarkGroupErr PROVE IInv'
    OBVIOUS
  <1>1. UNCHANGED <<tbl, now, handed, delivered, ctxDone, running, queue,
                    closed, wpc, wjob, wok, resultCh>>
    BY DEF MarkGroupErr, wvars
  <1>2. NextGroup /\ dpc = "mark"
    BY DEF MarkGroupErr
  <1>3. tbl' \in [Groups -> Row] /\ SentReachedSomebody'
    BY <1>1 DEF IInv, TypeOK, StoreType, SentReachedSomebody
  <1> QED BY <1>1, <1>2, <1>3, MarkPhase, NextGroupInv

\* MarkSent is called when every accepted notification was delivered, and
\* leaves the other groups of the batch pending.
LEMMA MarkGroupInv == IInv /\ MarkGroup => IInv'
  <1> SUFFICES ASSUME IInv, MarkGroup PROVE IInv'
    OBVIOUS
  <1> DEFINE k == Head(batch).key
             v == Head(batch).ver
  <1>1. UNCHANGED <<now, handed, delivered, ctxDone, running, queue, closed,
                    wpc, wjob, wok, resultCh>>
    BY DEF MarkGroup, wvars
  <1>2. NextGroup /\ dpc = "mark" /\ tbl' = MarkSent(tbl, k)
    BY DEF MarkGroup
  <1>3. /\ batch # <<>> /\ Channel # {} /\ enqueued # {}
        /\ \A c \in Channel : queue[c] = <<>> /\ ~Working(c)
        /\ resultCh = <<>>
        /\ \A c \in enqueued : Has(c)
    BY <1>2, MarkPhase
  <1>4. tbl \in [Groups -> Row]
    BY DEF IInv, TypeOK, StoreType
  <1>5. Head(batch) = batch[1] /\ 1 \in 1 .. Len(batch) /\ Head(batch) \in Notification
    BY <1>3, EmptySeq DEF IInv, TypeOK, LoopType
  <1>6. k \in Groups /\ v \in Nat
    BY <1>5 DEF Notification
  <1>7. tbl[k] \in Row /\ [tbl[k] EXCEPT !.status = "sent"] \in Row
    BY <1>4, <1>6 DEF Row, NotificationStatus
  <1>8. /\ tbl' \in [Groups -> Row]
        /\ tbl'[k] = [tbl[k] EXCEPT !.status = "sent"]
        /\ \A g \in Groups : g # k => tbl'[g] = tbl[g]
    BY <1>2, <1>4, <1>6, <1>7 DEF MarkSent
  <1>9. tbl'[k].ver = tbl[k].ver /\ tbl'[k].status = "sent"
    BY <1>7, <1>8 DEF Row
  <1>10. /\ \A g \in Groups : tbl'[g].ver = tbl[g].ver
         /\ \A g \in Groups :
                tbl'[g].status = "pending" => tbl[g].status = "pending"
    BY <1>8, <1>9
  <1>11. SentReachedSomebody'
    <2>1. PICK c \in enqueued : Has(c)
      BY <1>3
    <2>2. [key |-> k, ver |-> v, ch |-> c] \in delivered
      BY <2>1 DEF Has, Request
    <2>3. v <= tbl[k].ver
      BY <1>5 DEF IInv, Versions
    <2>4. \E d \in delivered : d.key = k /\ d.ver <= tbl'[k].ver
      BY <1>9, <2>2, <2>3
    <2> QED BY <1>1, <1>8, <1>10, <2>4 DEF IInv, SentReachedSomebody
  <1> HIDE DEF v
  <1> QED BY <1>1, <1>2, <1>3, <1>8, <1>10, <1>11, NextGroupInv

-----------------------------------------------------------------------------
(* Steps that move the current notification                                *)

\* The channel whose turn it is holds nothing: its queue is empty.
LEMMA EnqueueRoom ==
    ASSUME IInv, dpc = "enqueue"
    PROVE  /\ batch # <<>> /\ ~closed
           /\ ci \in Channel /\ ci \notin enqueued /\ ci \notin Outstanding
           /\ queue[ci] = <<>> /\ ~Working(ci) /\ ci \notin Results
           /\ Len(queue[ci]) < QueueSize
  <1> USE DEF IInv
  <1>1. batch # <<>> /\ ~closed /\ ci \in Channel /\ enqueued \subseteq 1 .. ci - 1
    BY DEF Phase
  <1>2. ci \notin enqueued
    BY <1>1, DispatcherAssumption DEF Channel
  <1>3. ci \notin Outstanding
    BY <1>2 DEF Account
  <1>4. queue[ci] = <<>> /\ ~Working(ci) /\ ci \notin Results
    BY <1>1, <1>3 DEF Outstanding
  <1> QED BY <1>1, <1>2, <1>3, <1>4, DispatcherAssumption

\* The enqueue loop moves on to the next channel or to the collect loop.
LEMMA NextChannel ==
    ASSUME NEW c \in Channel
    PROVE  /\ c < NumChannels => c + 1 \in Channel /\ (c + 1) - 1 = c
           /\ ~(c < NumChannels) => 1 .. c = Channel
           /\ 1 .. c = (1 .. c - 1) \cup {c}
  BY DispatcherAssumption DEF Channel

\* A queue that refuses the notification is not waited for.
LEMMA EnqueueErrInv == IInv /\ EnqueueErr => IInv'
  <1> SUFFICES ASSUME IInv, EnqueueErr PROVE IInv'
    OBVIOUS
  <1> USE DEF IInv
  <1>1. UNCHANGED <<tbl, now, handed, delivered, ctxDone, running, batch,
                    enqueued, collected, allOK, queue, closed, wpc, wjob, wok,
                    resultCh>>
    BY DEF EnqueueErr, wvars
  <1>2. /\ dpc = "enqueue"
        /\ ci < NumChannels \/ enqueued # {}
        /\ dpc' = IF ci < NumChannels THEN "enqueue" ELSE "collect"
        /\ ci' = IF ci < NumChannels THEN ci + 1 ELSE 1
    BY DEF EnqueueErr
  <1>3. ctxDone
    <2>1. Len(queue[ci]) # QueueSize /\ ~closed
      BY <1>2, EnqueueRoom, DispatcherAssumption
    <2> QED BY <2>1 DEF EnqueueErr, EnqueueMayFail
  <1>4. /\ ci \in Channel /\ batch # <<>> /\ ~closed /\ collected = 0 /\ allOK
        /\ enqueued \subseteq 1 .. ci - 1
    BY <1>2 DEF Phase
  <1>5. enqueued \subseteq 1 .. ci
    BY <1>4, NextChannel, SMTT(30)
  <1>6. \A c \in Channel : Working(c)' <=> Working(c)
    BY <1>1 DEF Working
  <1>7. Results' = Results /\ Outstanding' = Outstanding
    BY <1>1, <1>6, SamePlaces
  <1>8. ci' \in Channel /\ ci' \in 1 .. NumChannels + 1
    BY <1>2, <1>4, NextChannel, DispatcherAssumption DEF Channel
  <1>9. TypeOK'
    <2>1. StoreType' BY <1>1 DEF TypeOK, StoreType
    <2>2. LoopType' BY <1>1, <1>2, <1>8 DEF TypeOK, LoopType
    <2>3. PipeType' BY <1>1 DEF TypeOK, PipeType
    <2> QED BY <2>1, <2>2, <2>3 DEF TypeOK
  <1>10. OnePlace' /\ OneResult'
    BY <1>1, <1>6, SameNotifications
  <1>11. Account'
    BY <1>1, <1>7, SameAccount
  <1>12. Phase'
    <2>1. CASE ci < NumChannels
      <3>1. ci' - 1 = ci
        BY <1>2, <1>4, <2>1, NextChannel
      <3>2. enqueued' \subseteq 1 .. ci' - 1
        BY <1>1, <1>5, <3>1
      <3>3. dpc' = "enqueue"
        BY <1>2, <2>1
      <3> HIDE DEF IInv
      <3> QED BY <1>1, <1>3, <1>4, <1>8, <3>2, <3>3 DEF Phase
    <2>2. CASE ~(ci < NumChannels)
      BY <1>1, <1>2, <1>3, <1>4, <2>2 DEF Phase
    <2> QED BY <2>1, <2>2
  <1>13. Successes'
    BY <1>1, <1>7 DEF Successes, Has
  <1>14. Versions' /\ SentReachedSomebody'
    BY <1>1 DEF Versions, SentReachedSomebody
  <1> QED BY <1>9, <1>10, <1>11, <1>12, <1>13, <1>14

\* A queue that accepts it was empty, and its result is now due.
LEMMA EnqueueOKInv == IInv /\ EnqueueOK => IInv'
  <1> SUFFICES ASSUME IInv, EnqueueOK PROVE IInv'
    OBVIOUS
  <1> USE DEF IInv
  <1>1. UNCHANGED <<tbl, now, handed, delivered, ctxDone, running, batch,
                    collected, allOK, closed, wpc, wjob, wok, resultCh>>
    BY DEF EnqueueOK, wvars
  <1>2. /\ dpc = "enqueue"
        /\ queue' = [queue EXCEPT ![ci] = Append(@, Head(batch))]
        /\ enqueued' = enqueued \cup {ci}
        /\ dpc' = IF ci < NumChannels THEN "enqueue" ELSE "collect"
        /\ ci' = IF ci < NumChannels THEN ci + 1 ELSE 1
    BY DEF EnqueueOK
  <1>3. /\ batch # <<>> /\ ~closed
        /\ ci \in Channel /\ ci \notin enqueued /\ ci \notin Outstanding
        /\ queue[ci] = <<>> /\ ~Working(ci) /\ ci \notin Results
    BY <1>2, EnqueueRoom
  <1>4. /\ collected = 0 /\ allOK /\ enqueued \subseteq 1 .. ci - 1
        /\ ~ctxDone => enqueued = 1 .. ci - 1
    BY <1>2 DEF Phase
  <1>5. Head(batch) \in Notification
    BY <1>3 DEF TypeOK, LoopType
  <1>6. queue \in [Channel -> Seq(Notification)]
    BY DEF TypeOK, PipeType
  <1>7. Append(<<>>, Head(batch)) = <<Head(batch)>>
    OBVIOUS
  <1>8. /\ queue' \in [Channel -> Seq(Notification)]
        /\ queue'[ci] = <<Head(batch)>>
        /\ \A c \in Channel : c # ci => queue'[c] = queue[c]
    BY <1>2, <1>3, <1>5, <1>6, <1>7
  <1>9. Results' = Results
    BY <1>1 DEF Results
  <1>10. \A c \in Channel : Working(c)' <=> Working(c)
    BY <1>1 DEF Working
  <1>11. <<Head(batch)>> # <<>>
    OBVIOUS
  <1>12. Outstanding' = Outstanding \cup {ci}
    BY <1>3, <1>8, <1>9, <1>10, <1>11 DEF Outstanding
  <1>13. /\ IsFiniteSet(Outstanding) /\ Cardinality(Outstanding) \in Nat
         /\ IsFiniteSet(enqueued) /\ Cardinality(enqueued) \in Nat
    <2>1. enqueued \subseteq Channel
      BY DEF TypeOK, LoopType
    <2> QED BY <2>1, ChannelsFinite, OutstandingChannels
  <1>14. /\ Cardinality(Outstanding') = Cardinality(Outstanding) + 1
         /\ Cardinality(enqueued') = Cardinality(enqueued) + 1
    BY <1>2, <1>3, <1>12, <1>13, FS_AddElement
  <1>15. ci' \in Channel /\ ci' \in 1 .. NumChannels + 1
    BY <1>2, <1>3, NextChannel, DispatcherAssumption DEF Channel
  <1>16. TypeOK'
    <2>1. StoreType' BY <1>1 DEF TypeOK, StoreType
    <2>2. LoopType'
      <3>1. enqueued' \subseteq Channel
        BY <1>2, <1>3 DEF TypeOK, LoopType
      <3>2. collected' \in 0 .. Cardinality(enqueued')
        BY <1>1, <1>4, <1>13, <1>14
      <3> QED BY <1>1, <1>2, <1>15, <3>1, <3>2 DEF TypeOK, LoopType
    <2>3. PipeType'
      <3>1. Len(<<Head(batch)>>) <= QueueSize
        BY DispatcherAssumption
      <3>2. \A c \in Channel : Len(queue'[c]) <= QueueSize
        BY <1>8, <3>1 DEF TypeOK, PipeType
      <3> QED BY <1>1, <1>8, <3>2 DEF TypeOK, PipeType
    <2> QED BY <2>1, <2>2, <2>3 DEF TypeOK
  <1>17. OnePlace'
    <2>1. ASSUME NEW c \in Channel, c # ci
          PROVE  /\ queue'[c] # <<>> => queue'[c] = <<Head(batch')>>
                        /\ ~Working(c)' /\ c \notin Results'
                 /\ Working(c)' => wjob'[c] = Head(batch') /\ c \notin Results'
      BY <1>1, <1>8, <1>9, <1>10, <2>1 DEF OnePlace
    <2>2. ASSUME NEW c \in Channel, c = ci
          PROVE  /\ queue'[c] = <<Head(batch')>> /\ ~Working(c)'
                 /\ c \notin Results'
      BY <1>1, <1>3, <1>8, <1>9, <1>10, <2>2
    <2> QED BY <2>1, <2>2 DEF OnePlace
  <1>18. OneResult'
    BY <1>1 DEF OneResult
  <1>19. Account'
    <2>1. Outstanding' \subseteq enqueued'
      BY <1>2, <1>12 DEF Account
    <2>2. collected + Cardinality(Outstanding) = Cardinality(enqueued)
      BY DEF Account
    <2>3. collected' + Cardinality(Outstanding') = Cardinality(enqueued')
      BY <1>1, <1>4, <1>13, <1>14, <2>2
    <2> QED BY <2>1, <2>3 DEF Account
  <1>20. Phase'
    <2>1. ~ctxDone => enqueued' = 1 .. ci
      BY <1>2, <1>3, <1>4, NextChannel
    <2>2. enqueued' \subseteq 1 .. ci
      BY <1>2, <1>3, <1>4, NextChannel, ZenonT(60)
    <2>3. CASE ci < NumChannels
      <3>1. ci' - 1 = ci /\ dpc' = "enqueue"
        BY <1>2, <1>3, <2>3, NextChannel
      <3> HIDE DEF IInv
      <3> QED BY <1>1, <1>3, <1>4, <1>15, <2>1, <2>2, <3>1 DEF Phase
    <2>4. CASE ~(ci < NumChannels)
      <3>1. dpc' = "collect" /\ ci' = 1
        BY <1>2, <2>4
      <3>2. ~ctxDone' => enqueued' = Channel
        BY <1>1, <1>3, <2>1, <2>4, NextChannel
      <3>3. enqueued' # {}
        BY <1>2
      <3> HIDE DEF IInv
      <3> QED BY <1>1, <1>3, <3>1, <3>2, <3>3 DEF Phase
    <2> QED BY <2>3, <2>4
  <1>21. Successes'
    <2>1. enqueued' \ Outstanding' \subseteq enqueued \ Outstanding
      BY <1>2, <1>12
    <2> QED BY <1>1, <2>1 DEF Successes, Has
  <1>22. Versions' /\ SentReachedSomebody'
    BY <1>1 DEF Versions, SentReachedSomebody
  <1> QED BY <1>16, <1>17, <1>18, <1>19, <1>20, <1>21, <1>22

\* While a channel's result is due, there is a current group.
LEMMA CurrentGroup ==
    ASSUME IInv, NEW c \in Outstanding
    PROVE  /\ dpc \in {"enqueue", "collect"}
           /\ batch # <<>> /\ 1 \in 1 .. Len(batch) /\ Head(batch) = batch[1]
           /\ Head(batch) \in Notification
  <1>1. dpc \in {"enqueue", "collect"} /\ batch # <<>>
    BY DEF IInv, Phase
  <1>2. batch \in Seq(Notification)
    BY DEF IInv, TypeOK, LoopType
  <1>3. Len(batch) \in Nat \ {0}
    BY <1>1, <1>2, EmptySeq
  <1> QED BY <1>1, <1>2, <1>3

\* The notification moves from the queue to its worker, which hands it to the
\* endpoint: it is the current version, the newest the endpoint was given.
LEMMA DequeueInv == ASSUME NEW c \in Channel PROVE IInv /\ Dequeue(c) => IInv'
  <1> SUFFICES ASSUME IInv, Dequeue(c) PROVE IInv'
    OBVIOUS
  <1> USE DEF IInv
  <1> DEFINE new == Request(Head(batch), c)
  <1>1. UNCHANGED <<tbl, now, delivered, ctxDone, running, dpc, batch, ci,
                    enqueued, collected, allOK, closed, wok, resultCh>>
    BY DEF Dequeue, dvars
  <1>2. /\ wpc[c] = "wait" /\ queue[c] # <<>>
        /\ wjob' = [wjob EXCEPT ![c] = Head(queue[c])]
        /\ queue' = [queue EXCEPT ![c] = Tail(@)]
        /\ wpc' = [wpc EXCEPT ![c] = "send"]
        /\ handed' = handed \cup {Request(Head(queue[c]), c)}
    BY DEF Dequeue
  <1>3. c \in Outstanding /\ c \notin Results /\ queue[c] = <<Head(batch)>>
    BY <1>2 DEF Outstanding, OnePlace
  <1>4. /\ 1 \in 1 .. Len(batch) /\ Head(batch) = batch[1]
        /\ Head(batch) \in Notification
    BY <1>3, CurrentGroup
  <1>5. Head(<<Head(batch)>>) = Head(batch) /\ Tail(<<Head(batch)>>) = <<>>
    OBVIOUS
  <1>6. /\ queue \in [Channel -> Seq(Notification)]
        /\ wpc \in [Channel -> {"wait", "send", "report", "stopped"}]
        /\ wjob \in [Channel -> Notification \cup {NoJob}]
    BY DEF TypeOK, PipeType
  <1>7. /\ queue'[c] = <<>> /\ wpc'[c] = "send" /\ wjob'[c] = Head(batch)
        /\ \A b \in Channel : b # c => /\ queue'[b] = queue[b]
                                       /\ wpc'[b] = wpc[b]
                                       /\ wjob'[b] = wjob[b]
    BY <1>2, <1>3, <1>5, <1>6
  <1>8. Results' = Results
    BY <1>1 DEF Results
  <1>9. \A b \in Channel :
            (queue'[b] # <<>> \/ Working(b)') <=> (queue[b] # <<>> \/ Working(b))
    BY <1>2, <1>7 DEF Working
  <1>10. Outstanding' = Outstanding
    BY <1>8, <1>9 DEF Outstanding
  <1>11. TypeOK'
    <2>1. StoreType'
      <3>1. new \in Delivery
        BY <1>4 DEF Delivery, Notification, Request
      <3>2. handed' = handed \cup {new}
        BY <1>2, <1>3, <1>5
      <3> QED BY <1>1, <3>1, <3>2 DEF TypeOK, StoreType
    <2>2. LoopType' BY <1>1 DEF TypeOK, LoopType
    <2>3. PipeType'
      <3>1. /\ wpc' \in [Channel -> {"wait", "send", "report", "stopped"}]
            /\ wjob' \in [Channel -> Notification \cup {NoJob}]
        BY <1>2, <1>3, <1>4, <1>5, <1>6
      <3>2. queue' \in [Channel -> Seq(Notification)]
        BY <1>2, <1>3, <1>5, <1>6
      <3>3. \A b \in Channel : Len(queue'[b]) <= QueueSize
        <4>1. Len(<<>>) <= QueueSize
          BY DispatcherAssumption
        <4> QED BY <1>7, <4>1 DEF TypeOK, PipeType
      <3> QED BY <1>1, <3>1, <3>2, <3>3 DEF TypeOK, PipeType
    <2> QED BY <2>1, <2>2, <2>3 DEF TypeOK
  <1>12. OnePlace'
    <2>1. ASSUME NEW b \in Channel, b # c
          PROVE  /\ queue'[b] # <<>> => queue'[b] = <<Head(batch')>>
                        /\ ~Working(b)' /\ b \notin Results'
                 /\ Working(b)' => wjob'[b] = Head(batch') /\ b \notin Results'
      BY <1>1, <1>7, <1>8, <2>1 DEF OnePlace, Working
    <2>2. /\ queue'[c] = <<>>
          /\ wjob'[c] = Head(batch') /\ c \notin Results'
      BY <1>1, <1>3, <1>7, <1>8
    <2> QED BY <2>1, <2>2 DEF OnePlace
  <1>13. OneResult'
    BY <1>1 DEF OneResult
  <1>14. Account'
    BY <1>1, <1>10, SameAccount
  <1>15. Phase'
    BY <1>1, <1>10 DEF Phase
  <1>16. Successes'
    <2>1. \A b \in Channel : wpc'[b] = "report" => wpc[b] = "report"
      BY <1>7
    <2> QED BY <1>1, <1>10, <2>1 DEF Successes, Has
  <1>17. Versions'
    <2>1. new.key = batch[1].key /\ new.ver = batch[1].ver /\ new.ver \in Nat
      BY <1>4 DEF Request, Notification
    <2>2. batch[1].ver >= 1 /\ batch[1].ver <= tbl[batch[1].key].ver
      BY <1>4 DEF Versions
    <2>3. handed' = handed \cup {new}
      BY <1>2, <1>3, <1>5
    <2>4. ASSUME NEW d \in handed' PROVE d.ver >= 1 /\ d.ver <= tbl[d.key].ver
      BY <2>1, <2>2, <2>3 DEF Versions
    <2>5. ASSUME NEW i \in 1 .. Len(batch), NEW d \in handed',
                 d.key = batch[i].key
          PROVE  d.ver <= batch[i].ver
      <3>1. CASE d \in handed
        BY <2>5, <3>1 DEF Versions
      <3>2. CASE d = new
        <4>1. i = 1
          BY <1>4, <2>1, <2>5, <3>2 DEF Versions
        <4> QED BY <2>1, <3>2, <4>1
      <3> QED BY <2>3, <3>1, <3>2
    <2> QED BY <1>1, <2>4, <2>5 DEF Versions
  <1>18. SentReachedSomebody'
    BY <1>1 DEF SentReachedSomebody
  <1> QED BY <1>11, <1>12, <1>13, <1>14, <1>15, <1>16, <1>17, <1>18

\* A worker stops only when its queue is closed and empty.
LEMMA WorkerStopsInv ==
    ASSUME NEW c \in Channel PROVE IInv /\ WorkerStops(c) => IInv'
  <1> SUFFICES ASSUME IInv, WorkerStops(c) PROVE IInv'
    OBVIOUS
  <1> USE DEF IInv
  <1>1. UNCHANGED <<tbl, now, handed, delivered, ctxDone, running, dpc, batch,
                    ci, enqueued, collected, allOK, queue, closed, wjob, wok,
                    resultCh>>
    BY DEF WorkerStops, dvars
  <1>2. wpc[c] = "wait" /\ wpc' = [wpc EXCEPT ![c] = "stopped"]
    BY DEF WorkerStops
  <1>3. /\ wpc'[c] = "stopped"
        /\ \A b \in Channel : b # c => wpc'[b] = wpc[b]
        /\ wpc' \in [Channel -> {"wait", "send", "report", "stopped"}]
    BY <1>2 DEF TypeOK, PipeType
  <1>4. \A b \in Channel : Working(b)' <=> Working(b)
    BY <1>2, <1>3 DEF Working
  <1>5. Results' = Results /\ Outstanding' = Outstanding
    BY <1>1, <1>4, SamePlaces
  <1>6. TypeOK'
    <2>1. StoreType' BY <1>1 DEF TypeOK, StoreType
    <2>2. LoopType' BY <1>1 DEF TypeOK, LoopType
    <2>3. PipeType' BY <1>1, <1>3 DEF TypeOK, PipeType
    <2> QED BY <2>1, <2>2, <2>3 DEF TypeOK
  <1>7. OnePlace' /\ OneResult'
    BY <1>1, <1>4, SameNotifications
  <1>8. Account'
    BY <1>1, <1>5, SameAccount
  <1>9. Phase'
    BY <1>1, <1>5 DEF Phase
  <1>10. Successes'
    <2>1. \A b \in Channel : wpc'[b] = "report" => wpc[b] = "report"
      BY <1>3
    <2> QED BY <1>1, <1>5, <2>1 DEF Successes, Has
  <1>11. Versions' /\ SentReachedSomebody'
    BY <1>1 DEF Versions, SentReachedSomebody
  <1> QED BY <1>6, <1>7, <1>8, <1>9, <1>10, <1>11

\* A nil error means a delivery of the current version.
LEMMA SendReturnsInv ==
    ASSUME NEW c \in Channel, NEW ok \in BOOLEAN
    PROVE  IInv /\ SendReturns(c, ok) => IInv'
  <1> SUFFICES ASSUME IInv, SendReturns(c, ok) PROVE IInv'
    OBVIOUS
  <1> DEFINE new == Request(Head(batch), c)
  <1> USE DEF IInv
  <1>1. UNCHANGED <<tbl, now, handed, ctxDone, running, dpc, batch, ci, enqueued,
                    collected, allOK, queue, closed, wjob, resultCh>>
    BY DEF SendReturns, dvars
  <1>2. /\ wpc[c] = "send"
        /\ wpc' = [wpc EXCEPT ![c] = "report"]
        /\ wok' = [wok EXCEPT ![c] = ok]
    BY DEF SendReturns
  <1>3. /\ wpc'[c] = "report" /\ wok'[c] = ok
        /\ \A b \in Channel : b # c => wpc'[b] = wpc[b] /\ wok'[b] = wok[b]
        /\ wpc' \in [Channel -> {"wait", "send", "report", "stopped"}]
        /\ wok' \in [Channel -> BOOLEAN]
    BY <1>2 DEF TypeOK, PipeType
  <1>4. Working(c) /\ c \in Outstanding /\ wjob[c] = Head(batch)
    BY <1>2 DEF Working, Outstanding, OnePlace
  <1>5. /\ 1 \in 1 .. Len(batch) /\ Head(batch) = batch[1]
        /\ Head(batch) \in Notification
    BY <1>4, CurrentGroup
  <1>6. Head(batch).key \in Groups /\ Head(batch).ver \in Nat
    BY <1>5 DEF Notification
  <1>7. delivered' = IF ok THEN delivered \cup {new} ELSE delivered
    BY <1>4 DEF SendReturns
  <1>8. delivered \subseteq delivered' /\ delivered' \subseteq delivered \cup {new}
    BY <1>7
  <1>9. ok => new \in delivered'
    BY <1>7
  <1>10. \A b \in Channel : Working(b)' <=> Working(b)
    BY <1>2, <1>3 DEF Working
  <1>11. Results' = Results /\ Outstanding' = Outstanding
    BY <1>1, <1>10, SamePlaces
  <1>12. TypeOK'
    <2>1. StoreType'
      <3>1. new \in Delivery
        BY <1>6 DEF Delivery, Request
      <3>2. delivered' \subseteq Delivery
        BY <1>8, <3>1 DEF TypeOK, StoreType
      <3> QED BY <1>1, <3>2 DEF TypeOK, StoreType
    <2>2. LoopType' BY <1>1 DEF TypeOK, LoopType
    <2>3. PipeType' BY <1>1, <1>3 DEF TypeOK, PipeType
    <2> QED BY <2>1, <2>2, <2>3 DEF TypeOK
  <1>13. OnePlace' /\ OneResult'
    BY <1>1, <1>10, SameNotifications
  <1>14. Account'
    BY <1>1, <1>11, SameAccount
  <1>15. Phase'
    BY <1>1, <1>11 DEF Phase
  <1>16. \A b : Has(b) => Has(b)'
    BY <1>1, <1>8 DEF Has
  <1>17. Successes'
    <2>1. ASSUME NEW b \in Channel, wpc'[b] = "report", wok'[b] PROVE Has(b)'
      <3>1. CASE b = c
        BY <1>1, <1>3, <1>9, <2>1, <3>1 DEF Has
      <3>2. CASE b # c
        BY <1>3, <1>16, <2>1, <3>2 DEF Successes
      <3> QED BY <3>1, <3>2
    <2>2. \A i \in 1 .. Len(resultCh) : resultCh[i].ok => Has(resultCh[i].ch)
      BY DEF Successes
    <2>3. ASSUME NEW i \in 1 .. Len(resultCh'), resultCh'[i].ok
          PROVE  Has(resultCh[i].ch)'
      BY <1>1, <1>16, <2>2, <2>3 DEF Has
    <2>4. ASSUME allOK', NEW b \in enqueued' \ Outstanding' PROVE Has(b)'
      BY <1>1, <1>11, <1>16, <2>4 DEF Successes
    <2> QED BY <1>1, <2>1, <2>3, <2>4 DEF Successes
  <1>18. Versions'
    BY <1>1 DEF Versions
  <1>19. SentReachedSomebody'
    BY <1>1, <1>8 DEF SentReachedSomebody
  <1> QED BY <1>12, <1>13, <1>14, <1>15, <1>17, <1>18, <1>19

\* An endpoint that does late what it was asked to takes nothing back.
LEMMA ExecuteInv == ASSUME NEW d \in handed PROVE IInv /\ Execute(d) => IInv'
  <1> SUFFICES ASSUME IInv, Execute(d) PROVE IInv'
    OBVIOUS
  <1> USE DEF IInv
  <1>1. UNCHANGED <<tbl, now, handed, ctxDone, running, dpc, batch, ci, enqueued,
                    collected, allOK, queue, closed, wpc, wjob, wok, resultCh>>
    BY DEF Execute, dvars, wvars
  <1>2. delivered' = delivered \cup {d}
    BY DEF Execute
  <1>3. \A c \in Channel : Working(c)' <=> Working(c)
    BY <1>1 DEF Working
  <1>4. Results' = Results /\ Outstanding' = Outstanding
    BY <1>1, <1>3, SamePlaces
  <1>5. TypeOK'
    <2>1. StoreType' BY <1>1, <1>2 DEF TypeOK, StoreType
    <2>2. LoopType' BY <1>1 DEF TypeOK, LoopType
    <2>3. PipeType' BY <1>1 DEF TypeOK, PipeType
    <2> QED BY <2>1, <2>2, <2>3 DEF TypeOK
  <1>6. OnePlace' /\ OneResult'
    BY <1>1, <1>3, SameNotifications
  <1>7. Account'
    BY <1>1, <1>4, SameAccount
  <1>8. Phase'
    BY <1>1, <1>4 DEF Phase
  <1>9. \A b : Has(b) => Has(b)'
    BY <1>1, <1>2 DEF Has
  <1>10. Successes'
    <2>1. \A b \in Channel : wpc'[b] = "report" /\ wok'[b] => Has(b)'
      BY <1>1, <1>9 DEF Successes
    <2>2. \A i \in 1 .. Len(resultCh) : resultCh[i].ok => Has(resultCh[i].ch)
      BY DEF Successes
    <2>3. ASSUME NEW i \in 1 .. Len(resultCh'), resultCh'[i].ok
          PROVE  Has(resultCh[i].ch)'
      BY <1>1, <1>9, <2>2, <2>3 DEF Has
    <2>4. allOK' => \A b \in enqueued' \ Outstanding' : Has(b)'
      BY <1>1, <1>4, <1>9 DEF Successes
    <2> QED BY <1>1, <2>1, <2>3, <2>4 DEF Successes
  <1>11. Versions'
    BY <1>1 DEF Versions
  <1>12. SentReachedSomebody'
    BY <1>1, <1>2 DEF SentReachedSomebody
  <1> QED BY <1>5, <1>6, <1>7, <1>8, <1>10, <1>11, <1>12

\* The result takes the notification's place; the result channel has room.
LEMMA ReportInv == ASSUME NEW c \in Channel PROVE IInv /\ Report(c) => IInv'
  <1> SUFFICES ASSUME IInv, Report(c) PROVE IInv'
    OBVIOUS
  <1> DEFINE n == Len(resultCh)
             res == [key |-> wjob[c].key, ch |-> c, ok |-> wok[c]]
  <1> USE DEF IInv
  <1>1. UNCHANGED <<tbl, now, handed, delivered, ctxDone, running, dpc, batch,
                    ci, enqueued, collected, allOK, queue, closed>>
    BY DEF Report, dvars
  <1>2. /\ wpc[c] = "report" /\ n < ResultCap
        /\ resultCh' = Append(resultCh, res)
        /\ wpc' = [wpc EXCEPT ![c] = "wait"]
        /\ wjob' = [wjob EXCEPT ![c] = NoJob]
        /\ wok' = [wok EXCEPT ![c] = FALSE]
    BY DEF Report
  <1>3. /\ wpc'[c] = "wait"
        /\ \A b \in Channel : b # c => /\ wpc'[b] = wpc[b]
                                       /\ wjob'[b] = wjob[b]
                                       /\ wok'[b] = wok[b]
        /\ wpc' \in [Channel -> {"wait", "send", "report", "stopped"}]
        /\ wjob' \in [Channel -> Notification \cup {NoJob}]
        /\ wok' \in [Channel -> BOOLEAN]
    BY <1>2 DEF TypeOK, PipeType
  <1>4. /\ Working(c) /\ c \in Outstanding /\ wjob[c] = Head(batch)
        /\ c \notin Results /\ queue[c] = <<>>
    BY <1>2 DEF Working, Outstanding, OnePlace
  <1>5. Head(batch) \in Notification
    BY <1>4, CurrentGroup
  <1>6. res \in SendResult
    <2>1. wok[c] \in BOOLEAN
      BY DEF TypeOK, PipeType
    <2> QED BY <1>4, <1>5, <2>1 DEF SendResult, Notification
  <1>7. resultCh \in Seq(SendResult) /\ n \in Nat
    BY DEF TypeOK, PipeType
  <1> HIDE DEF res
  <1>8. /\ resultCh' \in Seq(SendResult)
        /\ Len(resultCh') = n + 1
        /\ resultCh'[n + 1] = res
        /\ \A i \in 1 .. n : resultCh'[i] = resultCh[i]
    BY <1>2, <1>6, <1>7
  <1>9. res.ch = c /\ res.key = Head(batch).key /\ res.ok = wok[c]
    BY <1>4 DEF res
  <1>10. 1 .. n + 1 = (1 .. n) \cup {n + 1}
    BY <1>7
  <1>11. Results' = Results \cup {c}
    BY <1>8, <1>9, <1>10 DEF Results
  <1>12. ~Working(c)' /\ \A b \in Channel : b # c => (Working(b)' <=> Working(b))
    BY <1>3 DEF Working
  <1>13. Outstanding' = Outstanding
    BY <1>1, <1>4, <1>11, <1>12 DEF Outstanding
  <1>14. TypeOK'
    <2>1. StoreType' BY <1>1 DEF TypeOK, StoreType
    <2>2. LoopType' BY <1>1 DEF TypeOK, LoopType
    <2>3. PipeType'
      <3>1. Len(resultCh') <= ResultCap
        BY <1>2, <1>7, <1>8, CapacityExceedsChannels
      <3> QED BY <1>1, <1>3, <1>8, <3>1 DEF TypeOK, PipeType
    <2> QED BY <2>1, <2>2, <2>3 DEF TypeOK
  <1>15. OnePlace'
    <2>1. ASSUME NEW b \in Channel, b # c
          PROVE  /\ queue'[b] # <<>> => queue'[b] = <<Head(batch')>>
                        /\ ~Working(b)' /\ b \notin Results'
                 /\ Working(b)' => wjob'[b] = Head(batch') /\ b \notin Results'
      BY <1>1, <1>3, <1>11, <1>12, <2>1 DEF OnePlace
    <2>2. queue'[c] = <<>> /\ ~Working(c)'
      BY <1>1, <1>4, <1>12
    <2> QED BY <2>1, <2>2 DEF OnePlace
  <1>16. OneResult'
    <2>1. \A i \in 1 .. n : resultCh[i].ch # c
      BY <1>4 DEF Results
    <2>2. ASSUME NEW i \in 1 .. n + 1, NEW j \in 1 .. n + 1,
                 resultCh'[i].ch = resultCh'[j].ch
          PROVE  i = j
      BY <1>8, <1>9, <1>10, <2>1, <2>2 DEF OneResult
    <2>3. \A i \in 1 .. n + 1 : resultCh'[i].key = Head(batch').key
      BY <1>1, <1>8, <1>9, <1>10 DEF OneResult
    <2> QED BY <1>8, <2>2, <2>3 DEF OneResult
  <1>17. Account'
    BY <1>1, <1>13, SameAccount
  <1>18. Phase'
    BY <1>1, <1>13 DEF Phase
  <1>19. Successes'
    <2>1. \A b : Has(b)' <=> Has(b)
      BY <1>1 DEF Has
    <2>2. \A b \in Channel : wpc'[b] = "report" /\ wok'[b] => Has(b)
      BY <1>3 DEF Successes
    <2>3. wok[c] => Has(c)
      BY <1>2 DEF Successes
    <2>4. \A i \in 1 .. n + 1 : resultCh'[i].ok => Has(resultCh'[i].ch)
      BY <1>8, <1>9, <1>10, <2>3 DEF Successes
    <2>5. ASSUME NEW i \in 1 .. n + 1, resultCh'[i].ok
          PROVE  Has(resultCh[i].ch)'
      BY <1>1, <2>4, <2>5 DEF Has
    <2>6. allOK' => \A b \in enqueued' \ Outstanding' : Has(b)
      BY <1>1, <1>13 DEF Successes
    <2> QED BY <1>8, <2>1, <2>2, <2>5, <2>6 DEF Successes
  <1>20. Versions' /\ SentReachedSomebody'
    BY <1>1 DEF Versions, SentReachedSomebody
  <1> QED BY <1>14, <1>15, <1>16, <1>17, <1>18, <1>19, <1>20

\* Taking the oldest result: its channel is no longer outstanding, and it was
\* due.
LEMMA TakeResult ==
    ASSUME IInv, resultCh # <<>>, resultCh' = Tail(resultCh),
           UNCHANGED <<queue, wpc>>
    PROVE  LET c == Head(resultCh).ch IN
           /\ Head(resultCh) = resultCh[1] /\ 1 \in 1 .. Len(resultCh)
           /\ resultCh' \in Seq(SendResult)
           /\ Len(resultCh') = Len(resultCh) - 1
           /\ \A i \in 1 .. Len(resultCh') :
                  i + 1 \in 1 .. Len(resultCh) /\ resultCh'[i] = resultCh[i + 1]
           /\ c \in Outstanding
           /\ Results' = Results \ {c}
           /\ Outstanding' = Outstanding \ {c}
           /\ Cardinality(Outstanding) \in Nat \ {0}
           /\ Cardinality(enqueued) \in Nat
           /\ Cardinality(Outstanding') = Cardinality(Outstanding) - 1
           /\ collected + Cardinality(Outstanding) = Cardinality(enqueued)
  <1> DEFINE c == Head(resultCh).ch
             n == Len(resultCh)
  <1> USE DEF IInv
  <1>1. resultCh \in Seq(SendResult) /\ n \in Nat \ {0}
    BY EmptySeq DEF TypeOK, PipeType
  <1>2. /\ Head(resultCh) = resultCh[1] /\ 1 \in 1 .. n
        /\ resultCh' \in Seq(SendResult)
        /\ Len(resultCh') = n - 1
        /\ \A i \in 1 .. n - 1 :
               i + 1 \in 1 .. n /\ resultCh'[i] = resultCh[i + 1]
    BY <1>1
  <1>3. c \in Channel /\ c \in Results
    <2>1. resultCh[1] \in SendResult
      BY <1>1, <1>2
    <2> QED BY <1>2, <2>1 DEF SendResult, Results
  <1>4. queue[c] = <<>> /\ ~Working(c)
    BY <1>3 DEF OnePlace
  <1>5. Results' = Results \ {c}
    <2>1. ASSUME NEW b \in Results' PROVE b \in Results /\ b # c
      <3>1. PICK i \in 1 .. n - 1 : b = resultCh'[i].ch
        BY <1>2 DEF Results
      <3>2. i + 1 \in 1 .. n /\ b = resultCh[i + 1].ch /\ i + 1 # 1
        BY <1>1, <1>2, <3>1
      <3> QED BY <1>2, <3>2 DEF Results, OneResult
    <2>2. ASSUME NEW b \in Results, b # c PROVE b \in Results'
      <3>1. PICK i \in 1 .. n : b = resultCh[i].ch
        BY DEF Results
      <3>2. i # 1
        BY <1>2, <2>2, <3>1
      <3>3. i - 1 \in 1 .. n - 1 /\ (i - 1) + 1 = i
        BY <1>1, <3>2
      <3>4. b = resultCh'[i - 1].ch
        BY <1>2, <3>1, <3>3
      <3> QED BY <1>2, <3>3, <3>4 DEF Results
    <2> QED BY <2>1, <2>2
  <1>6. \A b \in Channel : (queue'[b] = queue[b]) /\ (Working(b)' <=> Working(b))
    BY DEF Working
  <1>7. c \in Outstanding
    BY <1>3 DEF Outstanding
  <1> HIDE DEF c
  <1>8. Outstanding' = Outstanding \ {c}
    BY <1>3, <1>4, <1>5, <1>6 DEF Outstanding
  <1>9. enqueued \subseteq Channel
    BY DEF TypeOK, LoopType
  <1>10. /\ IsFiniteSet(Outstanding) /\ Cardinality(Outstanding) \in Nat
         /\ Cardinality(enqueued) \in Nat
    BY <1>9, ChannelsFinite, OutstandingChannels
  <1>11. Cardinality(Outstanding) # 0
    BY <1>7, <1>10, FS_EmptySet
  <1>12. Cardinality(Outstanding') = Cardinality(Outstanding) - 1
    BY <1>7, <1>8, <1>10, FS_RemoveElement
  <1>13. collected + Cardinality(Outstanding) = Cardinality(enqueued)
    BY DEF Account
  <1> QED BY <1>2, <1>5, <1>7, <1>8, <1>10, <1>11, <1>12, <1>13 DEF c

\* A collected result is one less due; the last one ends the group.
LEMMA CollectInv == IInv /\ Collect => IInv'
  <1> SUFFICES ASSUME IInv, Collect PROVE IInv'
    OBVIOUS
  <1> DEFINE c == Head(resultCh).ch
             ok == allOK /\ Head(resultCh).ok
             last == collected + 1 = Cardinality(enqueued)
  <1>1. UNCHANGED <<tbl, now, handed, delivered, ctxDone, running, queue,
                    closed, wpc, wjob, wok>>
    BY DEF Collect, wvars
  <1>2. /\ dpc = "collect" /\ resultCh # <<>> /\ resultCh' = Tail(resultCh)
        /\ AfterResult(ok, last)
    BY DEF Collect
  <1>3. /\ Head(resultCh) = resultCh[1] /\ 1 \in 1 .. Len(resultCh)
        /\ resultCh' \in Seq(SendResult)
        /\ Len(resultCh') = Len(resultCh) - 1
        /\ \A i \in 1 .. Len(resultCh') :
               i + 1 \in 1 .. Len(resultCh) /\ resultCh'[i] = resultCh[i + 1]
        /\ c \in Outstanding
        /\ Results' = Results \ {c}
        /\ Outstanding' = Outstanding \ {c}
        /\ Cardinality(Outstanding) \in Nat \ {0}
        /\ Cardinality(enqueued) \in Nat
        /\ Cardinality(Outstanding') = Cardinality(Outstanding) - 1
        /\ collected + Cardinality(Outstanding) = Cardinality(enqueued)
    BY <1>1, <1>2, TakeResult
  <1>4. collected \in Nat
    <2>1. collected \in 0 .. Cardinality(enqueued)
      BY DEF IInv, TypeOK, LoopType
    <2> QED BY <1>3, <2>1
  <1>5. last => Outstanding' = {}
    <2>1. ASSUME last PROVE Cardinality(Outstanding') = 0
      BY <1>3, <1>4, <2>1
    <2>2. IsFiniteSet(Outstanding')
      <3>1. IsFiniteSet(Outstanding)
        BY ChannelsFinite, OutstandingChannels
      <3> QED BY <1>3, <3>1, FS_RemoveElement
    <2> QED BY <2>1, <2>2, FS_EmptySet
  <1>6. batch # <<>> /\ Channel # {} /\ enqueued # {} /\ ci = 1 /\ ~closed
    BY <1>2, <1>3 DEF IInv, Phase, Outstanding
  <1>7. tbl \in [Groups -> Row]
    BY DEF IInv, TypeOK, StoreType
  <1>8. ASSUME last, NextGroup PROVE IInv'
    <2>1. \A b \in Channel : queue[b] = <<>> /\ ~Working(b) /\ b \notin Results'
      BY <1>1, <1>5, <1>8 DEF Outstanding, Working
    <2>2. Len(resultCh') = 0
      <3>1. ASSUME NEW i \in 1 .. Len(resultCh') PROVE FALSE
        <4>1. resultCh'[i] \in SendResult /\ resultCh'[i].ch \in Results'
          BY <1>3 DEF Results
        <4>2. resultCh'[i].ch \in Channel
          BY <4>1 DEF SendResult
        <4> QED BY <2>1, <4>1, <4>2
      <3>2. Len(resultCh') \in Nat
        BY <1>3
      <3> QED BY <3>1, <3>2
    <2>3. resultCh' = <<>>
      BY <1>3, <2>2, EmptySeq
    <2>4. SentReachedSomebody'
      BY <1>1 DEF IInv, SentReachedSomebody
    <2> QED BY <1>1, <1>6, <1>7, <1>8, <2>1, <2>3, <2>4, NextGroupInv
  <1>9. ASSUME allOK' = ok, collected' = collected + 1,
               UNCHANGED <<batch, ci, enqueued>>,
               \/ dpc' = dpc
               \/ last /\ ok /\ dpc' = "mark"
        PROVE  IInv'
    <2> USE DEF IInv
    <2>1. TypeOK'
      <3>1. StoreType' BY <1>1 DEF TypeOK, StoreType
      <3>2. LoopType'
        <4>1. collected' \in 0 .. Cardinality(enqueued')
          BY <1>3, <1>4, <1>9
        <4>2. Head(resultCh).ok \in BOOLEAN
          <5>1. Head(resultCh) \in SendResult
            BY <1>2 DEF TypeOK, PipeType
          <5> QED BY <5>1 DEF SendResult
        <4>3. allOK' \in BOOLEAN
          BY <1>9
        <4>4. dpc' = "collect" \/ dpc' = "mark"
          BY <1>2, <1>9
        <4> HIDE DEF ok, last
        <4> QED BY <1>1, <1>9, <4>1, <4>3, <4>4 DEF TypeOK, LoopType
      <3>3. PipeType'
        <4>1. Len(resultCh') <= ResultCap
          BY <1>3, CapacityExceedsChannels DEF TypeOK, PipeType
        <4> QED BY <1>1, <1>3, <4>1 DEF TypeOK, PipeType
      <3> QED BY <3>1, <3>2, <3>3 DEF TypeOK
    <2>2. \A b \in Channel : Working(b)' <=> Working(b)
      BY <1>1 DEF Working
    <2>3. OnePlace'
      BY <1>1, <1>3, <1>9, <2>2 DEF OnePlace
    <2>4. OneResult'
      <3>1. ASSUME NEW i \in 1 .. Len(resultCh'), NEW j \in 1 .. Len(resultCh'),
                   resultCh'[i].ch = resultCh'[j].ch
            PROVE  i = j
        <4>1. /\ i + 1 \in 1 .. Len(resultCh) /\ resultCh'[i] = resultCh[i + 1]
              /\ j + 1 \in 1 .. Len(resultCh) /\ resultCh'[j] = resultCh[j + 1]
          BY <1>3
        <4>2. i + 1 = j + 1
          BY <3>1, <4>1 DEF OneResult
        <4> QED BY <4>2
      <3>2. \A i \in 1 .. Len(resultCh') : resultCh'[i].key = Head(batch').key
        BY <1>3, <1>9, SMTT(30) DEF OneResult
      <3> QED BY <3>1, <3>2 DEF OneResult
    <2>5. Account'
      <3>1. Outstanding' \subseteq enqueued'
        BY <1>3, <1>9 DEF Account
      <3>2. collected' + Cardinality(Outstanding') = Cardinality(enqueued')
        BY <1>3, <1>4, <1>9
      <3> QED BY <3>1, <3>2 DEF Account
    <2>6. Phase'
      <3>1. ~ctxDone => enqueued = Channel
        BY <1>2 DEF Phase
      <3>2. CASE dpc' = "collect"
        BY <1>1, <1>6, <1>9, <3>1, <3>2 DEF Phase
      <3>3. CASE last /\ ok /\ dpc' = "mark"
        <4>1. allOK'
          BY <1>9, <3>3
        <4> QED BY <1>1, <1>5, <1>6, <1>9, <3>1, <3>3, <4>1 DEF Phase
      <3> QED BY <1>2, <1>9, <3>2, <3>3
    <2>7. Successes'
      <3>1. \A b : Has(b)' <=> Has(b)
        BY <1>1, <1>9 DEF Has
      <3>2. \A b \in Channel : wpc'[b] = "report" /\ wok'[b] => Has(b)
        BY <1>1 DEF Successes
      <3>3. ASSUME NEW i \in 1 .. Len(resultCh'), resultCh'[i].ok
            PROVE  Has(resultCh[i].ch)'
        <4>1. Has(resultCh[i + 1].ch)
          BY <1>3, <3>3 DEF Successes
        <4> QED BY <1>1, <1>3, <1>9, <4>1 DEF Has
      <3>4. Head(resultCh).ok => Has(c)
        BY <1>3 DEF Successes
      <3>5. ASSUME allOK', NEW b \in enqueued' \ Outstanding' PROVE Has(b)
        <4>1. CASE b = c
          BY <1>9, <3>4, <3>5, <4>1
        <4>2. CASE b # c
          BY <1>3, <1>9, <3>5, <4>2 DEF Successes
        <4> QED BY <4>1, <4>2
      <3> QED BY <3>1, <3>2, <3>3, <3>5 DEF Successes
    <2>8. Versions' /\ SentReachedSomebody'
      BY <1>1, <1>9 DEF Versions, SentReachedSomebody
    <2> QED BY <2>1, <2>3, <2>4, <2>5, <2>6, <2>7, <2>8
  <1> HIDE DEF ok, last
  <1> QED BY <1>2, <1>8, <1>9 DEF AfterResult

-----------------------------------------------------------------------------
(* The theorems                                                            *)

\* Every step preserves the invariant.
LEMMA NextIInv == IInv /\ [Next]_vars => IInv'
  <1> SUFFICES ASSUME IInv, [Next]_vars PROVE IInv'
    OBVIOUS
  <1>1. CASE Start BY <1>1, StartInv
  <1>2. CASE Signal BY <1>2, SignalInv
  <1>3. CASE ProcessEnds BY <1>3, ProcessEndsInv
  <1>4. CASE \E g \in Groups : Receive(g) BY <1>4, ReceiveInv
  <1>5. CASE DispatcherStep
    BY <1>5, PollInv, EnqueueOKInv, EnqueueErrInv, SkipGroupInv, CollectInv,
       MarkGroupInv, MarkGroupErrInv, ShutdownInv, RunReturnsInv
       DEF DispatcherStep
  <1>6. CASE \E c \in Channel : WorkerStep(c)
    BY <1>6, DequeueInv, WorkerStopsInv, SendReturnsInv, ReportInv
       DEF WorkerStep
  <1>7. CASE UNCHANGED vars
    <2>1. UNCHANGED <<tbl, now, handed, delivered, ctxDone, running, dpc,
                      batch, ci, enqueued, collected, allOK, queue, closed,
                      wpc, wjob, wok, resultCh>>
      BY <1>7 DEF vars, dvars, wvars
    <2> USE DEF IInv
    <2>2. \A c \in Channel : Working(c)' <=> Working(c)
      BY <2>1 DEF Working
    <2>3. Results' = Results /\ Outstanding' = Outstanding
      BY <2>1, <2>2, SamePlaces
    <2>4. TypeOK'
      BY <2>1 DEF TypeOK, StoreType, LoopType, PipeType
    <2>5. OnePlace' /\ OneResult'
      BY <2>1, <2>2, SameNotifications
    <2>6. Account' /\ Phase'
      BY <2>1, <2>3 DEF Account, Phase
    <2>7. Successes'
      BY <2>1, <2>3 DEF Successes, Has
    <2>8. Versions' /\ SentReachedSomebody'
      BY <2>1 DEF Versions, SentReachedSomebody
    <2> QED BY <2>4, <2>5, <2>6, <2>7, <2>8
  <1>8. CASE \E d \in handed : Execute(d) BY <1>8, ExecuteInv
  <1> QED BY <1>1, <1>2, <1>3, <1>4, <1>5, <1>6, <1>7, <1>8 DEF Next

\* The account of where the current notification is holds in every reachable
\* state of the dispatcher.
THEOREM Invariance == Spec => []IInv
  BY InitIInv, NextIInv, PTL DEF Spec

\* A request is made before it is executed: a worker makes it when it takes
\* the notification, and no step takes a request back.
LEMMA NextHandedOver == IInv /\ HandedOver /\ [Next]_vars => HandedOver'
  <1> SUFFICES ASSUME IInv, HandedOver, [Next]_vars PROVE HandedOver'
    OBVIOUS
  <1> USE DEF HandedOver
  <1>1. /\ wpc \in [Channel -> {"wait", "send", "report", "stopped"}]
        /\ wjob \in [Channel -> Notification \cup {NoJob}]
    BY DEF IInv, TypeOK, PipeType
  <1>2. CASE /\ \A c \in Channel : wpc'[c] # "send"
             /\ UNCHANGED <<handed, delivered>>
    BY <1>2
  <1>3. CASE UNCHANGED <<handed, delivered, wpc, wjob>>
    BY <1>3
  <1>4. ASSUME NEW c \in Channel, Dequeue(c) PROVE HandedOver'
    BY <1>1, <1>4 DEF Dequeue
  <1>5. ASSUME NEW c \in Channel, NEW ok \in BOOLEAN, SendReturns(c, ok)
        PROVE  HandedOver'
    BY <1>1, <1>5 DEF SendReturns
  <1>6. ASSUME NEW c \in Channel, WorkerStops(c) \/ Report(c) PROVE HandedOver'
    BY <1>1, <1>6 DEF WorkerStops, Report
  <1>7. ASSUME NEW d \in handed, Execute(d) PROVE HandedOver'
    BY <1>7 DEF Execute, wvars
  <1>8. CASE Start \/ ProcessEnds
    BY <1>2, <1>8 DEF Start, ProcessEnds
  <1>9. CASE Signal \/ (\E g \in Groups : Receive(g)) \/ UNCHANGED vars
    BY <1>3, <1>9 DEF Signal, Receive, vars, wvars
  <1>10. CASE DispatcherStep
    BY <1>3, <1>10 DEF DispatcherStep, Poll, EnqueueOK, EnqueueErr, SkipGroup,
       Collect, MarkGroup, MarkGroupErr, Shutdown, RunReturns, wvars
  <1> QED BY <1>4, <1>5, <1>6, <1>7, <1>8, <1>9, <1>10 DEF Next, WorkerStep

\* Nothing is delivered that was not asked for.
LEMMA RequestedFirst == Spec => []HandedOver
  <1>1. Init => HandedOver
    BY DEF Init, HandedOver
  <1> QED BY <1>1, NextHandedOver, Invariance, PTL DEF Spec

\* Every variable keeps its type, no poll takes more than BatchSize groups
\* and no channel of the program exceeds its capacity.
THEOREM TypeCorrect == Spec => []TypeOK
  <1>1. IInv => TypeOK
    BY DEF IInv
  <1> QED BY <1>1, Invariance, PTL

\* The account of the current notification implies that results match it.
LEMMA IInvMatch == IInv => ResultsMatchCurrent
  <1> SUFFICES ASSUME IInv PROVE ResultsMatchCurrent
    OBVIOUS
  <1>1. ASSUME NEW c \in Channel, NEW i \in 1 .. QueueSize, i <= Len(queue[c])
        PROVE  batch # <<>> /\ queue[c][i] = Head(batch)
    <2>1. queue[c] # <<>>
      BY <1>1
    <2>2. queue[c] = <<Head(batch)>> /\ c \in Outstanding
      BY <2>1 DEF IInv, OnePlace, Outstanding
    <2>3. i = 1
      BY <1>1, <2>2, DispatcherAssumption
    <2> QED BY <2>2, <2>3, CurrentGroup
  <1>2. ASSUME NEW c \in Channel, Working(c)
        PROVE  batch # <<>> /\ wjob[c] = Head(batch)
    <2>1. c \in Outstanding
      BY <1>2 DEF Outstanding
    <2> QED BY <1>2, <2>1, CurrentGroup DEF IInv, OnePlace
  <1>3. ASSUME NEW i \in DOMAIN resultCh
        PROVE  batch # <<>> /\ resultCh[i].key = Head(batch).key
    <2>1. i \in 1 .. Len(resultCh) /\ resultCh[i] \in SendResult
      BY LenProperties DEF IInv, TypeOK, PipeType
    <2>2. resultCh[i].ch \in Outstanding
      BY <2>1 DEF SendResult, Results, Outstanding
    <2> QED BY <2>1, <2>2, CurrentGroup DEF IInv, OneResult
  <1> QED BY <1>1, <1>2, <1>3 DEF ResultsMatchCurrent

\* fanOutAndCollect never takes a result for another group's: whatever is
\* queued, in a worker's hands or reported belongs to the current group.
THEOREM MatchedResults == Spec => []ResultsMatchCurrent
  BY Invariance, IInvMatch, PTL

\* Enqueue never waits for room and no worker waits to report, whatever the
\* queue size and the batch size are.
THEOREM NobodyWaitsForRoom == Spec => []NoBackPressure
  <1>1. IInv => NoBackPressure
    <2> SUFFICES ASSUME IInv PROVE NoBackPressure
      OBVIOUS
    <2>1. dpc = "enqueue" => ~closed /\ Len(queue[ci]) < QueueSize
      BY EnqueueRoom
    <2>2. Len(resultCh) \in Nat /\ Len(resultCh) <= NumChannels
      BY FewResults DEF IInv
    <2>3. Len(resultCh) < ResultCap
      BY <2>2, CapacityExceedsChannels, DispatcherAssumption
    <2> QED BY <2>1, <2>3 DEF NoBackPressure
  <1> QED BY <1>1, Invariance, PTL

\* At the end of Run nothing that was polled is queued, in flight or
\* uncollected.
THEOREM CleanShutdown == Spec => []DrainComplete
  <1>1. IInv => DrainComplete
    <2> SUFFICES ASSUME IInv, dpc \in {"drain", "done"}
                 PROVE  /\ \A c \in Channel : queue[c] = <<>> /\ ~Working(c)
                        /\ resultCh = <<>>
      BY DEF DrainComplete
    <2>1. Outstanding = {}
      BY DEF IInv, Phase
    <2> QED BY <2>1, NothingOutstanding DEF IInv
  <1> QED BY <1>1, Invariance, PTL

\* MarkSent is called only for a version that every queue that accepted it
\* has delivered; and unless ctx was cancelled all queues accepted it.
THEOREM MarksAreEarned == Spec => []MarkIsEarned
  <1>1. IInv => MarkIsEarned
    <2> SUFFICES ASSUME IInv, dpc = "mark"
                 PROVE  /\ enqueued # {}
                        /\ \A c \in enqueued : Has(c)
                        /\ ~ctxDone => enqueued = Channel
      BY DEF MarkIsEarned, Has
    <2> QED BY MarkPhase DEF IInv, Phase
  <1> QED BY <1>1, Invariance, PTL

\* What a worker sends is due, and no older than what was ever handed over.
LEMMA IInvSends ==
    ASSUME IInv, NEW c \in Channel, Working(c)
    PROVE  /\ tbl[wjob[c].key].status = "pending"
           /\ wjob[c].key \in Groups /\ wjob[c].ver \in Nat
           /\ wjob[c].ver >= 1 /\ wjob[c].ver <= tbl[wjob[c].key].ver
           /\ \A d \in handed : d.key = wjob[c].key => d.ver <= wjob[c].ver
  <1>1. c \in Outstanding /\ wjob[c] = Head(batch)
    BY DEF Outstanding, IInv, OnePlace
  <1>2. /\ 1 \in 1 .. Len(batch) /\ Head(batch) = batch[1]
        /\ Head(batch) \in Notification
    BY <1>1, CurrentGroup
  <1>3. Head(batch).key \in Groups /\ Head(batch).ver \in Nat
    BY <1>2 DEF Notification
  <1> QED BY <1>1, <1>2, <1>3 DEF IInv, Versions

\* No group is sent while its row says 'sent'.
THEOREM OnlyPendingIsSent == Spec => []NoSendAfterSent
  <1>1. IInv => NoSendAfterSent
    BY IInvSends DEF NoSendAfterSent, Working
  <1> QED BY <1>1, Invariance, PTL

\* No endpoint is asked for an older version of a group after a newer one.
THEOREM NeverOutOfDate == Spec => []NoStaleAfterNew
  <1>1. IInv => NoStaleAfterNew
    BY IInvSends DEF NoStaleAfterNew, Working
  <1> QED BY <1>1, Invariance, PTL

\* A row marked 'sent' has reached somebody.
THEOREM SentIsReceived == Spec => []SentReachedSomebody
  <1>1. IInv => SentReachedSomebody
    BY DEF IInv
  <1> QED BY <1>1, Invariance, PTL

-----------------------------------------------------------------------------
(* The dispatcher implements RelayContract                                 *)

\* An upsert of the dispatcher's table is an accepted webhook call.
LEMMA ReceiveAccepts ==
    ASSUME IInv, NEW g \in Groups, Receive(g)
    PROVE  Contract!Accept(g)
  <1>1. PICK stamp \in {now, now + 1} : tbl' = Save(tbl, g, stamp)
    BY DEF Receive
  <1>2. stamp \in Nat /\ tbl \in [Groups -> Row]
    BY <1>1 DEF IInv, TypeOK, StoreType
  <1>3. tbl'[g].at = stamp
    BY <1>1, <1>2 DEF Save
  <1> QED BY <1>1, <1>2, <1>3 DEF Contract!Accept, Contract!Save, Save, Receive

\* A worker that takes a notification hands it over.
LEMMA DequeueHandsOver ==
    ASSUME IInv, NEW c \in Channel, Dequeue(c)
    PROVE  Contract!Next
  <1> DEFINE k == Head(batch).key
             v == Head(batch).ver
  <1>1. /\ handed' = handed \cup {Request(Head(queue[c]), c)}
        /\ queue[c] # <<>>
        /\ UNCHANGED <<tbl, delivered, ctxDone>>
    BY DEF Dequeue
  <1>2. queue[c] = <<Head(batch)>> /\ c \in Outstanding
    BY <1>1 DEF IInv, OnePlace, Outstanding
  <1>3. /\ 1 \in 1 .. Len(batch) /\ Head(batch) = batch[1]
        /\ Head(batch) \in Notification
    BY <1>2, CurrentGroup
  <1>4. k \in Groups /\ v \in Nat
    BY <1>3 DEF Notification
  <1>5. /\ tbl[k].status = "pending" /\ v >= 1 /\ v <= tbl[k].ver
        /\ \A d \in handed : d.key = k => d.ver <= v
    BY <1>3 DEF IInv, Versions
  <1>6. v \in 1 .. tbl[k].ver
    <2>1. tbl[k].ver \in Nat
      BY <1>4 DEF IInv, TypeOK, StoreType, Row
    <2> QED BY <1>4, <1>5, <2>1
  <1>7. handed' = handed \cup {[key |-> k, ver |-> v, ch |-> c]}
    BY <1>1, <1>2 DEF Request
  <1>8. Contract!HandOver(k, v, c)
    BY <1>1, <1>5, <1>7 DEF Contract!HandOver
  <1> HIDE DEF k, v
  <1> QED BY <1>4, <1>6, <1>8 DEF Contract!Next

\* A Send that returns nil tells of an execution; any other leaves the
\* contract's state alone.
LEMMA SendExecutes ==
    ASSUME HandedOver, NEW c \in Channel, NEW ok \in BOOLEAN, SendReturns(c, ok)
    PROVE  Contract!Next \/ UNCHANGED <<tbl, handed, delivered, ctxDone>>
  <1>1. wpc[c] = "send" /\ UNCHANGED <<tbl, handed, ctxDone>>
    BY DEF SendReturns
  <1>2. Request(wjob[c], c) \in handed
    BY <1>1 DEF HandedOver
  <1>3. CASE ok
    <2>1. delivered' = delivered \cup {Request(wjob[c], c)}
      BY <1>3 DEF SendReturns
    <2>2. Contract!Execute
      BY <1>1, <1>2, <2>1 DEF Contract!Execute
    <2> QED BY <2>2 DEF Contract!Next
  <1>4. CASE ~ok
    BY <1>1, <1>4 DEF SendReturns
  <1> QED BY <1>3, <1>4

\* Marking a group finishes it, on account of the version of the batch.
LEMMA MarkFinishes ==
    ASSUME IInv, MarkGroup
    PROVE  Contract!Next
  <1> DEFINE k == Head(batch).key
             v == Head(batch).ver
  <1>1. /\ dpc = "mark" /\ tbl' = MarkSent(tbl, k)
        /\ UNCHANGED <<handed, delivered, ctxDone>>
    BY DEF MarkGroup
  <1>2. /\ batch # <<>> /\ enqueued # {} /\ \A c \in enqueued : Has(c)
        /\ ~ctxDone => enqueued = Channel
    BY <1>1, MarkPhase DEF IInv, Phase
  <1>3. /\ batch[1] = Head(batch) /\ 1 \in 1 .. Len(batch)
        /\ Head(batch) \in Notification
    BY <1>2, EmptySeq DEF IInv, TypeOK, LoopType
  <1>4. k \in Groups /\ v \in Nat
    BY <1>3 DEF Notification
  <1>5. tbl[k].status = "pending" /\ v >= 1 /\ v <= tbl[k].ver /\ tbl[k].ver \in Nat
    BY <1>3, <1>4 DEF IInv, Versions, TypeOK, StoreType, Row
  <1>6. \A d \in handed : d.key = k => d.ver <= v
    BY <1>3 DEF IInv, Versions
  <1>7. \A c \in enqueued : [key |-> k, ver |-> v, ch |-> c] \in delivered
    BY <1>2 DEF Has, Request
  <1>8. enqueued \in SUBSET Channel
    BY DEF IInv, TypeOK, LoopType
  <1>9. v \in 1 .. tbl[k].ver
    BY <1>4, <1>5
  <1> HIDE DEF k, v
  <1>10. \E by \in SUBSET Channel :
             /\ by # {}
             /\ ~ctxDone => by = Channel
             /\ \A c \in by : [key |-> k, ver |-> v, ch |-> c] \in delivered
    BY <1>2, <1>7, <1>8
  <1>11. Contract!Finish(k, v)
    BY <1>1, <1>5, <1>6, <1>10 DEF Contract!Finish, Contract!MarkSent, MarkSent
  <1> QED BY <1>4, <1>9, <1>11 DEF Contract!Next

\* The table, the requests and the deliveries behave as RelayContract allows:
\* upserts; requests for what is due and not out of date; executions of what was
\* requested, late ones too; and marks on account of a version that all channels
\* delivered, or some of them when the process is being stopped; whatever the
\* goroutines, restarts and cancellations do.
THEOREM Refinement == Spec => ImplementsContract
  <1>1. Init => Contract!Init
    BY DEF Init, Contract!Init, EmptyTable, Contract!EmptyTable
  <1>2. IInv /\ HandedOver /\ [Next]_vars => [Contract!Next]_(Contract!cvars)
    <2> SUFFICES ASSUME IInv, HandedOver, [Next]_vars
                 PROVE  \/ Contract!Next
                        \/ UNCHANGED <<tbl, handed, delivered, ctxDone>>
      BY DEF Contract!cvars
    <2>1. CASE \E g \in Groups : Receive(g)
      BY <2>1, ReceiveAccepts DEF Contract!Next
    <2>2. CASE \E c \in Channel : WorkerStep(c)
      <3>1. PICK c \in Channel : WorkerStep(c)
        BY <2>2
      <3>2. CASE \E ok \in BOOLEAN : SendReturns(c, ok)
        BY <3>2, SendExecutes
      <3>3. CASE Dequeue(c)
        BY <3>3, DequeueHandsOver
      <3>4. CASE WorkerStops(c) \/ Report(c)
        BY <3>4 DEF WorkerStops, Report
      <3> QED BY <3>1, <3>2, <3>3, <3>4 DEF WorkerStep
    <2>3. CASE MarkGroup
      BY <2>3, MarkFinishes
    <2>4. CASE Start \/ Poll \/ EnqueueOK \/ EnqueueErr \/ SkipGroup \/ Collect
               \/ MarkGroupErr \/ Shutdown \/ RunReturns
      BY <2>4 DEF Start, Poll, EnqueueOK, EnqueueErr, SkipGroup, Collect,
                  MarkGroupErr, Shutdown, RunReturns
    <2>5. CASE Signal \/ ProcessEnds
      <3>1. UNCHANGED <<tbl, handed, delivered>>
        BY <2>5 DEF Signal, ProcessEnds
      <3>2. ctxDone' = ~ctxDone \/ ctxDone' = ctxDone
        BY <2>5 DEF Signal, ProcessEnds, IInv, TypeOK, LoopType
      <3> QED BY <3>1, <3>2 DEF Contract!Next, Contract!StopOrStart
    <2>6. CASE \E d \in handed : Execute(d)
      BY <2>6 DEF Execute, Contract!Next, Contract!Execute
    <2>7. CASE UNCHANGED vars
      BY <2>7 DEF vars
    <2> QED BY <2>1, <2>2, <2>3, <2>4, <2>5, <2>6, <2>7 DEF Next, DispatcherStep
  <1> QED BY <1>1, <1>2, Invariance, RequestedFirst, PTL
          DEF Spec, ImplementsContract, Contract!Spec
=============================================================================
