---------------------------- MODULE QueueProofs ----------------------------
(***************************************************************************)
(* NotificationQueue for any number of goroutines, any capacity and any    *)
(* number of items.                                                        *)
(***************************************************************************)
EXTENDS NotificationQueue, SequenceTheorems, TLAPS

\* A new queue is empty, open and idle.
LEMMA InitQInv == Init => QInv
  <1> SUFFICES ASSUME Init PROVE QInv
    OBVIOUS
  <1>1. ch \in Seq(Nat) /\ Len(ch) <= Cap
    BY QueueAssumption DEF Init
  <1>2. TypeOK
    BY <1>1 DEF Init, TypeOK
  <1> QED BY <1>2 DEF Init, QInv, ClosedOnce

\* A consumer takes an item: only then does the queue shrink.
LEMMA TakeInv ==
    ASSUME QInv, NEW c \in Consumer, Take(c)
    PROVE  QInv'
  <1> USE DEF QInv, TypeOK
  <1>1. UNCHANGED <<done, closed, sent, ppc, cctx, kpc, atClose, overlap>>
    BY DEF Take, avars
  <1>2. /\ ch # <<>> /\ ch' = Tail(ch) /\ taken' = taken + 1
        /\ cpc' = [cpc EXCEPT ![c] = "try"]
    BY DEF Take
  <1>3. ch' \in Seq(Nat) /\ Len(ch') = Len(ch) - 1 /\ Len(ch) \in Nat
    BY <1>2, EmptySeq
  <1>4. Len(ch') <= Cap
    BY <1>3, QueueAssumption
  <1>5. \A d \in Consumer :
            cpc'[d] \in {"drain", "ended"} => cpc[d] = cpc'[d]
    BY <1>2
  <1>6. TypeOK'
    BY <1>1, <1>2, <1>3, <1>4
  <1>7. ClosedOnce'
    BY <1>1 DEF ClosedOnce
  <1>8. sent' = taken' + Len(ch')
    BY <1>1, <1>2, <1>3
  <1>9. (\E d \in Consumer : cpc'[d] = "ended") => taken' >= atClose'
    BY <1>1, <1>2, <1>5
  <1> QED BY <1>1, <1>5, <1>6, <1>7, <1>8, <1>9

\* The steps of Enqueue preserve QInv: a producer past its check sends only
\* into a queue whose flag it found unset.
LEMMA ProducerInv ==
    ASSUME QInv, NEW p \in Producer, ProducerStep(p)
    PROVE  QInv'
  <1> USE DEF QInv, TypeOK, avars
  <1>1. CASE EnqueueCall(p)
    BY <1>1 DEF EnqueueCall, ClosedOnce
  <1>2. CASE EnqueueCheck(p)
    BY <1>2 DEF EnqueueCheck, ClosedOnce
  <1>3. CASE EnqueueSend(p)
    <2>1. UNCHANGED <<done, closed, taken, cpc, cctx, kpc, atClose, overlap>>
      BY <1>3 DEF EnqueueSend
    <2>2. /\ ppc[p] = "select" /\ Len(ch) < Cap
          /\ ch' = Append(ch, sent + 1) /\ sent' = sent + 1
          /\ ppc' = [ppc EXCEPT ![p] = "idle"]
      BY <1>3 DEF EnqueueSend
    <2>3. ch' \in Seq(Nat) /\ Len(ch') = Len(ch) + 1 /\ Len(ch) \in Nat
      BY <2>2
    <2>4. TypeOK'
      BY <2>1, <2>2, <2>3, QueueAssumption
    <2>5. ClosedOnce'
      BY <2>1 DEF ClosedOnce
    <2>6. sent' = taken' + Len(ch') /\ atClose' <= sent'
      BY <2>1, <2>2, <2>3
    <2> QED BY <2>1, <2>2, <2>4, <2>5, <2>6
  <1>4. CASE EnqueueTimeout(p)
    BY <1>4 DEF EnqueueTimeout, ClosedOnce
  <1>5. CASE EnqueueDone(p)
    BY <1>5 DEF EnqueueDone, ClosedOnce
  <1> QED BY <1>1, <1>2, <1>3, <1>4, <1>5 DEF ProducerStep

\* The steps of Dequeue preserve QInv: a consumer ends only after q.done.
LEMMA ConsumerInv ==
    ASSUME QInv, NEW c \in Consumer, ConsumerStep(c)
    PROVE  QInv'
  <1> DEFINE Moves(pc) ==
        /\ cpc' = [cpc EXCEPT ![c] = pc]
        /\ UNCHANGED <<ch, done, closed, sent, taken, ppc, cctx, kpc, avars>>
  <1>1. ASSUME NEW pc \in {"wait", "drain", "ended", "cancelled"}, Moves(pc),
               pc = "drain" => done,
               pc = "ended" => done /\ ch = <<>>
        PROVE  QInv'
    <2>1. pc = "ended" => taken >= atClose
      BY <1>1 DEF QInv, TypeOK
    <2> QED BY <1>1, <2>1 DEF QInv, TypeOK, ClosedOnce, avars
  <1>2. CASE Take(c)
    BY <1>2, TakeInv
  <1>3. CASE cpc[c] = "try" /\ Moves("wait")
    BY <1>1, <1>3
  <1>4. CASE cpc[c] = "wait" /\ Moves("cancelled")
    BY <1>1, <1>4
  <1>5. CASE cpc[c] = "wait" /\ done /\ Moves("drain")
    BY <1>1, <1>5
  <1>6. CASE cpc[c] = "drain" /\ ch = <<>> /\ Moves("ended")
    BY <1>1, <1>6 DEF QInv
  <1> QED BY <1>2, <1>3, <1>4, <1>5, <1>6
          DEF ConsumerStep, DequeueTry, DequeueWait, DequeueDrain

\* The steps of Close preserve QInv: the compare-and-swap has one winner.
LEMMA CloserInv ==
    ASSUME QInv, NEW k \in Closer, CloserStep(k)
    PROVE  QInv'
  <1> USE DEF QInv, TypeOK
  <1>1. CASE CloseSwap(k)
    <2>1. /\ kpc[k] = "idle" /\ closed'
          /\ kpc' = [kpc EXCEPT ![k] = IF closed THEN "returned" ELSE "closing"]
          /\ UNCHANGED <<ch, done, sent, taken, ppc, cpc, cctx>>
      BY <1>1 DEF CloseSwap
    <2>2. /\ atClose' = IF closed THEN atClose ELSE sent
          /\ overlap' = (overlap \/ /\ ~closed
                                    /\ \E p \in Producer : ppc[p] = "select")
      BY <1>1 DEF CloseSwap, NoteClose
    <2>3. atClose' \in Nat /\ overlap' \in BOOLEAN /\ atClose' <= sent'
      <3>1. overlap' \in BOOLEAN
        BY <2>2
      <3> QED BY <2>1, <2>2, <3>1
    <2>4. TypeOK'
      BY <1>1, <2>1, <2>3 DEF CloseSwap
    <2>5. ClosedOnce'
      BY <2>1 DEF ClosedOnce
    <2>6. (\E c \in Consumer : cpc[c] = "ended") => closed
      OBVIOUS
    <2>7. ~overlap' =>
              sent' = atClose' /\ \A p \in Producer : ppc'[p] # "select"
      BY <2>1, <2>2
    <2> QED BY <2>1, <2>2, <2>3, <2>4, <2>5, <2>6, <2>7
  <1>2. CASE CloseDone(k)
    <2>1. /\ kpc[k] = "closing" /\ done'
          /\ kpc' = [kpc EXCEPT ![k] = "returned"]
          /\ UNCHANGED <<ch, closed, sent, taken, ppc, cpc, cctx, avars>>
      BY <1>2 DEF CloseDone
    <2>2. TypeOK'
      BY <1>2, <2>1 DEF CloseDone, avars
    <2>3. \A j \in Closer : kpc'[j] # "closing"
      BY <2>1 DEF ClosedOnce
    <2> QED BY <2>1, <2>2, <2>3 DEF ClosedOnce, avars
  <1> QED BY <1>1, <1>2 DEF CloserStep

\* Every step preserves QInv.
LEMMA NextQInv == QInv /\ [Next]_vars => QInv'
  <1> SUFFICES ASSUME QInv, [Next]_vars PROVE QInv'
    OBVIOUS
  <1>1. CASE \E c \in Consumer : Cancel(c)
    BY <1>1 DEF Cancel, QInv, TypeOK, ClosedOnce, avars
  <1>2. CASE UNCHANGED vars
    BY <1>2 DEF vars, avars, QInv, TypeOK, ClosedOnce
  <1> QED BY <1>1, <1>2, ProducerInv, ConsumerInv, CloserInv DEF Next

\* QInv holds of every queue, for any number of producers, consumers and
\* closers (queue.go:54-132).
THEOREM QueueInvariance == Spec => []QInv
  BY InitQInv, NextQInv, PTL DEF Spec

\* Close closes q.done at most once, however many goroutines call it and
\* whatever else is under way.
THEOREM CloseIsIdempotent == Spec => []ClosedOnce
  <1>1. QInv => ClosedOnce
    BY DEF QInv
  <1> QED BY <1>1, QueueInvariance, PTL

\* Every variable keeps its type and q.ch its capacity, whoever calls.
THEOREM QueueTypes == Spec => []TypeOK
  <1>1. QInv => TypeOK
    BY DEF QInv
  <1> QED BY <1>1, QueueInvariance, PTL

\* A consumer is told ErrQueueClosed only when everything accepted before
\* Close is taken, and, unless Close overtook a call of Enqueue, when nothing
\* is left at all.
THEOREM Drained == Spec => []NothingStranded
  <1>1. QInv => NothingStranded
    <2> SUFFICES ASSUME QInv, \E c \in Consumer : cpc[c] = "ended"
                 PROVE  taken >= atClose /\ (overlap \/ ch = <<>>)
      BY DEF NothingStranded
    <2>1. closed /\ taken >= atClose
      BY DEF QInv
    <2>2. ASSUME ~overlap PROVE ch = <<>>
      <3>1. Len(ch) = 0
        BY <2>1, <2>2 DEF QInv, TypeOK
      <3> QED BY <3>1, EmptySeq DEF QInv, TypeOK
    <2> QED BY <2>1, <2>2
  <1> QED BY <1>1, QueueInvariance, PTL

\* The queue is the closable bounded FIFO that the model of the dispatcher
\* works with, for any capacity and any callers.
THEOREM QueueRefinement == Spec => ImplementsContract
  <1> DEFINE calls == {p \in Producer : ppc[p] = "select"}
  <1> DEFINE ended == {c \in Consumer : cpc[c] = "ended"}
  <1>1. Init => Contract!Init
    BY DEF Init, Contract!Init
  <1>2. QInv /\ [Next]_vars => [Contract!Next]_(Contract!qvars)
    <2> SUFFICES ASSUME QInv, [Next]_vars
                 PROVE  Contract!Next \/ UNCHANGED <<ch, closed, calls, ended>>
      BY DEF Contract!qvars
    <2> USE DEF QInv, TypeOK
    <2>1. ASSUME NEW c \in Consumer, Take(c), cpc[c] # "ended"
          PROVE  Contract!Next
      <3>1. ended' = ended /\ calls' = calls
        BY <2>1 DEF Take
      <3> QED BY <2>1, <3>1 DEF Take, Contract!Next, Contract!Take
    <2>2. ASSUME NEW p \in Producer, EnqueueSend(p)
          PROVE  Contract!Next
      <3>1. p \in calls /\ sent + 1 \in 1 .. MaxItems
        BY <2>2, QueueAssumption DEF EnqueueSend
      <3>2. calls' = calls \ {p} /\ ended' = ended
        BY <2>2 DEF EnqueueSend
      <3>3. Contract!Put(p)
        BY <2>2, <3>1, <3>2 DEF EnqueueSend, Contract!Put
      <3> QED BY <3>3 DEF Contract!Next
    <2>3. ASSUME NEW k \in Closer, CloseSwap(k)
          PROVE  Contract!Next \/ UNCHANGED <<ch, closed, calls, ended>>
      BY <2>3 DEF CloseSwap, Contract!Next, Contract!Close
    <2>4. ASSUME NEW c \in Consumer, cpc[c] = "drain", ch = <<>>,
                 cpc' = [cpc EXCEPT ![c] = "ended"], UNCHANGED <<ch, closed, ppc>>
          PROVE  Contract!Next
      <3>1. ended' = ended \cup {c}
        BY <2>4
      <3>2. closed
        BY <2>4
      <3> QED BY <2>4, <3>1, <3>2 DEF Contract!Next, Contract!End
    <2>5. ASSUME NEW c \in Consumer, NEW pc \in {"wait", "drain", "cancelled"},
                 cpc[c] # "ended", cpc' = [cpc EXCEPT ![c] = pc]
          PROVE  ended' = ended
      BY <2>5
    <2>6. CASE \E c \in Consumer : ConsumerStep(c)
      <3>1. PICK c \in Consumer : ConsumerStep(c)
        BY <2>6
      <3>2. CASE DequeueTry(c)
        BY <2>1, <2>5, <3>2 DEF DequeueTry
      <3>3. CASE DequeueWait(c)
        BY <2>1, <2>5, <3>3 DEF DequeueWait
      <3>4. CASE DequeueDrain(c)
        BY <2>1, <2>4, <3>4 DEF DequeueDrain
      <3> QED BY <3>1, <3>2, <3>3, <3>4 DEF ConsumerStep
    <2>7. ASSUME NEW p \in Producer, ProducerStep(p)
          PROVE  Contract!Next \/ UNCHANGED <<ch, closed, calls, ended>>
      <3>1. CASE EnqueueCall(p)
        BY <3>1 DEF EnqueueCall
      <3>2. CASE EnqueueCheck(p) /\ closed
        BY <3>2 DEF EnqueueCheck
      <3>3. CASE EnqueueCheck(p) /\ ~closed
        <4>1. calls' = calls \cup {p} /\ ended' = ended
          BY <3>3 DEF EnqueueCheck
        <4>2. Contract!Call(p)
          BY <3>3, <4>1 DEF EnqueueCheck, Contract!Call
        <4> QED BY <4>2 DEF Contract!Next
      <3>4. CASE EnqueueTimeout(p) \/ EnqueueDone(p)
        <4>1. p \in calls /\ calls' = calls \ {p} /\ ended' = ended
          BY <3>4 DEF EnqueueTimeout, EnqueueDone
        <4>2. Contract!GiveUp(p)
          BY <3>4, <4>1 DEF EnqueueTimeout, EnqueueDone, Contract!GiveUp
        <4> QED BY <4>2 DEF Contract!Next
      <3> QED BY <2>2, <2>7, <3>1, <3>2, <3>3, <3>4 DEF ProducerStep
    <2>8. CASE \E k \in Closer : CloserStep(k)
      BY <2>3, <2>8 DEF CloserStep, CloseDone
    <2>9. CASE \E c \in Consumer : Cancel(c)
      BY <2>9 DEF Cancel
    <2>10. CASE UNCHANGED vars
      BY <2>10 DEF vars
    <2> QED BY <2>6, <2>7, <2>8, <2>9, <2>10 DEF Next
  <1> QED BY <1>1, <1>2, QueueInvariance, PTL
          DEF Spec, ImplementsContract, Contract!Spec
=============================================================================
