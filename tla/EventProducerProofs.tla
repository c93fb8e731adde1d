------------------------- MODULE EventProducerProofs -------------------------
(***************************************************************************)
(* The event stream's producing side for any number of requests,           *)
(* partitions and attempts: what is recorded is accounted for, what was    *)
(* answered with an error has left nothing, and a partition keeps its      *)
(* order.                                                                  *)
(***************************************************************************)
EXTENDS EventProducer, SequenceTheorems, FiniteSetTheorems, WellFoundedInduction, TLAPS

-----------------------------------------------------------------------------
(* Sequences: what occurs in them, and how a batch divides a queue. *)

LEMMA OccurringConcat ==
    ASSUME NEW S, NEW s \in Seq(S), NEW t \in Seq(S)
    PROVE  Occurring(s \o t) = Occurring(s) \union Occurring(t)
<1>1. /\ DOMAIN s = 1..Len(s) /\ DOMAIN t = 1..Len(t) /\ DOMAIN (s \o t) = 1..(Len(s) + Len(t))
      /\ Len(s) \in Nat /\ Len(t) \in Nat
  OBVIOUS
<1>2. \A i \in 1..(Len(s) + Len(t)) :
         (s \o t)[i] = IF i <= Len(s) THEN s[i] ELSE t[i - Len(s)]
  BY ConcatProperties
<1>3. ASSUME NEW x \in Occurring(s \o t) PROVE x \in Occurring(s) \union Occurring(t)
  <2>1. PICK i \in 1..(Len(s) + Len(t)) : x = (s \o t)[i]
    BY <1>1 DEF Occurring
  <2>2. CASE i <= Len(s)
    BY <1>1, <1>2, <2>1, <2>2 DEF Occurring
  <2>3. CASE i > Len(s)
    <3>1. i - Len(s) \in 1..Len(t)
      BY <1>1, <2>3
    <3> QED
      BY <1>1, <1>2, <2>1, <2>3, <3>1 DEF Occurring
  <2> QED
    BY <1>1, <2>2, <2>3
<1>4. ASSUME NEW i \in 1..Len(s) PROVE s[i] \in Occurring(s \o t)
  <2>1. i \in 1..(Len(s) + Len(t)) /\ (s \o t)[i] = s[i]
    BY <1>1, <1>2
  <2> QED
    BY <1>1, <2>1 DEF Occurring
<1>5. ASSUME NEW i \in 1..Len(t) PROVE t[i] \in Occurring(s \o t)
  <2>1. i + Len(s) \in 1..(Len(s) + Len(t)) /\ (s \o t)[i + Len(s)] = t[i]
    BY <1>1, <1>2
  <2> QED
    BY <1>1, <2>1 DEF Occurring
<1> QED
  BY <1>1, <1>3, <1>4, <1>5 DEF Occurring

LEMMA OccurringAppend ==
    ASSUME NEW S, NEW s \in Seq(S), NEW e \in S
    PROVE  Occurring(Append(s, e)) = Occurring(s) \union {e}
<1>1. Append(s, e) = s \o <<e>> /\ <<e>> \in Seq(S) /\ Occurring(<<e>>) = {e}
  BY AppendIsConcat DEF Occurring
<1> QED
  BY <1>1, OccurringConcat

LEMMA OccurringType ==
    ASSUME NEW S, NEW s \in Seq(S)
    PROVE  Occurring(s) \subseteq S
BY DEF Occurring

\* The batch and the rest make up the queue.
LEMMA BatchAndRest ==
    ASSUME TypeOK, NEW p \in Partition
    PROVE  /\ Batch(p) \in Seq(Request) /\ Rest(p) \in Seq(Request)
           /\ Len(Batch(p)) = batch[p] /\ Len(Rest(p)) = Len(queue[p]) - batch[p]
           /\ \A i \in 1..batch[p] : Batch(p)[i] = queue[p][i]
           /\ \A i \in 1..(Len(queue[p]) - batch[p]) : Rest(p)[i] = queue[p][batch[p] + i]
           /\ queue[p] = Batch(p) \o Rest(p)
<1>1. /\ queue[p] \in Seq(Request) /\ Len(queue[p]) \in Nat
      /\ batch[p] \in Nat /\ batch[p] <= Len(queue[p])
  BY DEF TypeOK
<1>2. \A i \in 1..Len(queue[p]) : queue[p][i] \in Request
  BY <1>1
<1>3. /\ Batch(p) \in Seq(Request) /\ Len(Batch(p)) = batch[p]
      /\ \A i \in 1..batch[p] : Batch(p)[i] = queue[p][i]
  BY <1>1, <1>2, SubSeqProperties DEF Batch
<1>4. /\ Rest(p) \in Seq(Request) /\ Len(Rest(p)) = Len(queue[p]) - batch[p]
      /\ \A i \in 1..(Len(queue[p]) - batch[p]) : Rest(p)[i] = queue[p][batch[p] + i]
  BY <1>1, <1>2, SubSeqProperties DEF Rest
<1>5. Batch(p) \o Rest(p) = SubSeq(queue[p], 1, Len(queue[p]))
  <2>1. /\ 1 \in 1..(Len(queue[p]) + 1)
        /\ batch[p] \in (1 - 1)..Len(queue[p])
        /\ Len(queue[p]) \in batch[p]..Len(queue[p])
    BY <1>1
  <2> QED
    BY <1>1, <2>1, ConcatAdjacentSubSeq DEF Batch, Rest
<1>6. SubSeq(queue[p], 1, Len(queue[p])) = queue[p]
  BY <1>1, SubSeqFull
<1> QED
  BY <1>3, <1>4, <1>5, <1>6

LEMMA OccurringQueue ==
    ASSUME TypeOK, NEW p \in Partition
    PROVE  Occurring(queue[p]) = Occurring(Batch(p)) \union Occurring(Rest(p))
<1>1. /\ Batch(p) \in Seq(Request) /\ Rest(p) \in Seq(Request)
      /\ queue[p] = Batch(p) \o Rest(p)
  BY BatchAndRest
<1>2. Occurring(Batch(p) \o Rest(p)) = Occurring(Batch(p)) \union Occurring(Rest(p))
  BY ONLY <1>1, OccurringConcat
<1> QED
  BY ONLY <1>1, <1>2

-----------------------------------------------------------------------------
(* Type correctness. *)

LEMMA NothingHeld ==
    /\ NoQueue \in [Partition -> Seq(Request)] /\ Zeros \in [Partition -> Nat]
    /\ Zeros \in [Partition -> 0..MaxAttempts]
    /\ \A p \in Partition : Zeros[p] <= Len(NoQueue[p])
<1>1. <<>> \in Seq(Request) /\ Len(<<>>) = 0 /\ 0 \in 0..MaxAttempts
  BY EmptySeq, ProducerAssumption DEF ProducerAssumption
<1>2. \A p \in Partition : NoQueue[p] = <<>> /\ Zeros[p] = 0
  BY DEF NoQueue, Zeros
<1>3. NoQueue \in [Partition -> Seq(Request)]
  BY <1>1 DEF NoQueue
<1>4. Zeros \in [Partition -> Nat] /\ Zeros \in [Partition -> 0..MaxAttempts]
  BY <1>1 DEF Zeros
<1> QED
  BY <1>1, <1>2, <1>3, <1>4

LEMMA InitType == Init => TypeOK
<1>1. [r \in Request |-> "idle"] \in [Request -> Phase]
  BY DEF Phase
<1> QED
  BY <1>1, NothingHeld, EmptySeq DEF Init, TypeOK

LEMMA TypeStep == TypeOK /\ [Next]_producer => TypeOK'
<1> SUFFICES ASSUME TypeOK, [Next]_producer PROVE TypeOK'
  OBVIOUS
<1> USE ProducerAssumption DEF TypeOK, ProducerAssumption, writer
<1>1. ASSUME NEW r \in Request, Post(r) PROVE TypeOK'
  BY <1>1 DEF Post, Phase
<1>2. ASSUME NEW r \in Request, Reject(r) PROVE TypeOK'
  BY <1>2 DEF Reject, Phase
<1>3. ASSUME NEW r \in Request, NEW p \in Partition, Produce(r, p) PROVE TypeOK'
  <2>1. request' \in [Request -> Phase]
    BY <1>3 DEF Produce, Phase
  <2> QED
    BY <1>3, <2>1 DEF Produce
<1>14. ASSUME NEW r \in Request, Answer(r) PROVE TypeOK'
  BY <1>14 DEF Answer, Phase
<1>4. ASSUME NEW p \in Partition, StartBatch(p) PROVE TypeOK'
  BY <1>4 DEF StartBatch
<1>5. ASSUME NEW p \in Partition, EndBatch(p)
      PROVE  /\ queue' \in [Partition -> Seq(Request)]
             /\ batch' \in [Partition -> Nat]
             /\ \A q \in Partition : batch'[q] <= Len(queue'[q])
             /\ attempts' \in [Partition -> 0..MaxAttempts]
  BY <1>5, BatchAndRest DEF EndBatch
<1>6. ASSUME NEW p \in Partition PROVE [topic EXCEPT ![p] = @ \o Batch(p)] \in [Partition -> Seq(Request)]
  BY BatchAndRest
<1>7. ASSUME NEW p \in Partition, Deliver(p) PROVE TypeOK'
  BY <1>5, <1>6, <1>7 DEF Deliver
<1>8. ASSUME NEW p \in Partition, NEW stored \in BOOLEAN, Fail(p, stored) PROVE TypeOK'
  <2>1. topic' \in [Partition -> Seq(Request)]
    BY <1>6, <1>8 DEF Fail
  <2>2. CASE Retry(p)
    BY <1>8, <2>1, <2>2 DEF Fail, Retry
  <2>3. CASE Drop(p)
    <3>1. dropped' \subseteq Request
      BY <2>3, BatchAndRest, OccurringType DEF Drop
    <3> QED
      BY <1>5, <1>8, <2>1, <2>3, <3>1 DEF Fail, Drop
  <2> QED
    BY <1>8, <2>2, <2>3 DEF Fail
<1>9. CASE Sigterm \/ Drained \/ Restart
  BY <1>9 DEF Sigterm, Drained, Restart
<1>10. CutOff \in [Request -> Phase]
  BY DEF CutOff, Phase
<1>11. CASE Exit
  BY <1>10, <1>11, NothingHeld DEF Exit
<1>12. CASE Crash
  <2>1. Queued \subseteq Request
    BY OccurringType DEF Queued
  <2> QED
    BY <1>10, <1>12, <2>1, NothingHeld DEF Crash
<1>13. CASE UNCHANGED producer
  BY <1>13 DEF producer
<1> QED
  BY <1>1, <1>2, <1>3, <1>4, <1>7, <1>8, <1>9, <1>11, <1>12, <1>13, <1>14 DEF Next, Handle, Write

\* The state of the handlers, the writer and the topic keeps its types: in particular
\* a batch is never longer than the queue it is taken from, and no more attempts are
\* made than producer.go:30 allows.
THEOREM TypeCorrect == Spec => []TypeOK
BY InitType, TypeStep, PTL DEF Spec

-----------------------------------------------------------------------------
(* Bookkeeping of requests. *)

\* What a request may be once Produce has returned.
Handed == {"queued", "recorded", "cut off"}

\* What the users were told and what became of their events agree.  An event that was
\* handed over and may still be answered is accounted for: of the recorded ones this is
\* NothingVanishes.  And an event is accounted for only once it was handed over: the
\* writer must not hold what a handler is about to reject.
AnswersAgree ==
    \A r \in Request :
        /\ request[r] \in {"queued", "recorded"} => r \in Accounted
        /\ r \in Accounted => request[r] \in Handed

\* Steps of the writer and the process move events between the places in which they
\* are accounted for; none is lost or made up.
LEMMA EndBatchMoves ==
    ASSUME TypeOK, NEW p \in Partition, EndBatch(p)
    PROVE  Queued = Queued' \union Occurring(Batch(p))
<1>1. queue \in [Partition -> Seq(Request)] /\ queue' = [queue EXCEPT ![p] = Rest(p)]
  BY DEF TypeOK, EndBatch
<1>2. \A q \in Partition : queue'[q] = IF q = p THEN Rest(p) ELSE queue[q]
  BY <1>1
<1>3. \A x : x \in Queued <=> \E q \in Partition : x \in Occurring(queue[q])
  BY DEF Queued
<1>4. \A x : x \in Queued' <=> \E q \in Partition : x \in Occurring(queue'[q])
  BY DEF Queued
<1>5. Occurring(queue[p]) = Occurring(Batch(p)) \union Occurring(Rest(p))
  BY OccurringQueue
<1>6. \A x : x \in Queued => x \in Queued' \union Occurring(Batch(p))
  BY <1>2, <1>3, <1>4, <1>5
<1>7. \A x : x \in Queued' \union Occurring(Batch(p)) => x \in Queued
  BY <1>2, <1>3, <1>4, <1>5
<1> QED
  BY <1>6, <1>7

LEMMA StoreAdds ==
    ASSUME TypeOK, NEW p \in Partition, topic' = [topic EXCEPT ![p] = @ \o Batch(p)]
    PROVE  InTopic' = InTopic \union Occurring(Batch(p))
<1>1. topic \in [Partition -> Seq(Request)] /\ Batch(p) \in Seq(Request)
  BY BatchAndRest DEF TypeOK
<1>2. \A q \in Partition : topic'[q] = IF q = p THEN topic[p] \o Batch(p) ELSE topic[q]
  BY <1>1
<1>3. Occurring(topic[p] \o Batch(p)) = Occurring(topic[p]) \union Occurring(Batch(p))
  BY <1>1, OccurringConcat
<1>4. \A x : x \in InTopic <=> \E q \in Partition : x \in Occurring(topic[q])
  BY DEF InTopic
<1>5. \A x : x \in InTopic' <=> \E q \in Partition : x \in Occurring(topic'[q])
  BY DEF InTopic
<1>6. \A x : x \in InTopic' <=> x \in InTopic \/ x \in Occurring(Batch(p))
  BY <1>2, <1>3, <1>4, <1>5
<1> QED
  BY <1>6

LEMMA BatchIsQueued ==
    ASSUME TypeOK, NEW p \in Partition
    PROVE  Occurring(Batch(p)) \subseteq Queued
BY OccurringQueue DEF Queued

LEMMA AnswersAgreeStep == TypeOK /\ AnswersAgree /\ [Next]_producer => AnswersAgree'
<1> SUFFICES ASSUME TypeOK, AnswersAgree, [Next]_producer PROVE AnswersAgree'
  OBVIOUS
<1> USE DEF AnswersAgree
<1>1. /\ queue' = queue => Queued' = Queued
      /\ topic' = topic => InTopic' = InTopic
  BY DEF Queued, InTopic
<1>2. ASSUME UNCHANGED request, Accounted' = Accounted PROVE AnswersAgree'
  BY <1>2
<1>3. ASSUME UNCHANGED <<queue, topic, dropped, lost>> PROVE Accounted' = Accounted
  BY <1>1, <1>3 DEF Accounted
<1>4. ASSUME NEW r \in Request, Post(r) PROVE AnswersAgree'
  BY <1>3, <1>4 DEF Post, TypeOK, writer, Handed
<1>5. ASSUME NEW r \in Request, Reject(r) PROVE AnswersAgree'
  BY <1>3, <1>5 DEF Reject, TypeOK, writer, Handed
<1>6. ASSUME NEW r \in Request, NEW p \in Partition, Produce(r, p) PROVE AnswersAgree'
  <2>1. queue \in [Partition -> Seq(Request)] /\ queue' = [queue EXCEPT ![p] = Append(@, r)]
    BY <1>6 DEF Produce, TypeOK
  <2>2. Occurring(queue'[p]) = Occurring(queue[p]) \union {r}
    BY <2>1, OccurringAppend
  <2>3. \A q \in Partition \ {p} : queue'[q] = queue[q]
    BY <2>1
  <2>4. \A x : x \in Queued <=> \E q \in Partition : x \in Occurring(queue[q])
    BY DEF Queued
  <2>5. \A x : x \in Queued' <=> \E q \in Partition : x \in Occurring(queue'[q])
    BY DEF Queued
  <2>6. \A x : x \in Queued' <=> x \in Queued \/ x = r
    BY <2>2, <2>3, <2>4, <2>5
  <2>7. Accounted' = Accounted \union {r}
    BY <1>1, <1>6, <2>6 DEF Produce, Accounted
  <2>8. request' = [request EXCEPT ![r] = "queued"] /\ request \in [Request -> Phase]
    BY <1>6 DEF Produce, TypeOK
  <2> QED
    BY <2>7, <2>8 DEF Handed
<1>16. ASSUME NEW r \in Request, Answer(r) PROVE AnswersAgree'
  BY <1>3, <1>16 DEF Answer, TypeOK, writer, Handed
<1>7. ASSUME NEW p \in Partition, StartBatch(p) PROVE AnswersAgree'
  BY <1>2, <1>3, <1>7 DEF StartBatch
<1>8. ASSUME NEW p \in Partition, Deliver(p) PROVE AnswersAgree'
  <2>1. Queued = Queued' \union Occurring(Batch(p)) /\ InTopic' = InTopic \union Occurring(Batch(p))
    BY <1>8, EndBatchMoves, StoreAdds DEF Deliver
  <2>2. Accounted' = Accounted
    BY <1>8, <2>1 DEF Deliver, Accounted
  <2> QED
    BY <1>2, <1>8, <2>2 DEF Deliver
<1>9. ASSUME NEW p \in Partition, NEW stored \in BOOLEAN, Fail(p, stored) PROVE AnswersAgree'
  <2>1. InTopic' = InTopic \union (IF stored THEN Occurring(Batch(p)) ELSE {})
    BY <1>1, <1>9, StoreAdds DEF Fail
  <2>2. Occurring(Batch(p)) \subseteq Queued
    BY BatchIsQueued
  <2>3. CASE Retry(p)
    <3>1. Accounted' = Accounted
      BY <1>1, <1>9, <2>1, <2>2, <2>3 DEF Fail, Retry, Accounted
    <3> QED
      BY <1>2, <1>9, <3>1 DEF Fail
  <2>4. CASE Drop(p)
    <3>1. Queued = Queued' \union Occurring(Batch(p)) /\ dropped' = dropped \union Occurring(Batch(p))
      BY <2>4, EndBatchMoves DEF Drop
    <3>2. Accounted' = Accounted
      BY <1>9, <2>1, <3>1 DEF Fail, Accounted
    <3> QED
      BY <1>2, <1>9, <3>2 DEF Fail
  <2> QED
    BY <1>9, <2>3, <2>4 DEF Fail
<1>10. CASE Sigterm \/ Drained \/ Restart
  BY <1>2, <1>3, <1>10 DEF Sigterm, Drained, Restart, writer
<1>11. \A r \in Request : /\ CutOff[r] \in {"queued", "recorded"} => request[r] = "recorded"
                          /\ request[r] \in Handed => CutOff[r] \in Handed
  BY DEF CutOff, TypeOK, Handed
<1>12. queue' = NoQueue => Queued' = {}
  BY DEF NoQueue, Queued, Occurring
<1>13. CASE Exit
  <2>1. Queued = {}
    BY <1>13 DEF Exit, Flushed, Queued, Occurring
  <2>2. Accounted' = Accounted
    BY <1>1, <1>12, <1>13, <2>1 DEF Exit, Accounted
  <2> QED
    BY <1>11, <1>13, <2>2 DEF Exit
<1>14. CASE Crash
  <2>1. Accounted' = Accounted
    BY <1>1, <1>12, <1>14 DEF Crash, Accounted
  <2> QED
    BY <1>11, <1>14, <2>1 DEF Crash
<1>15. CASE UNCHANGED producer
  BY <1>2, <1>3, <1>15 DEF producer, writer
<1> QED
  BY <1>4, <1>5, <1>6, <1>7, <1>8, <1>9, <1>10, <1>13, <1>14, <1>15, <1>16 DEF Next, Handle, Write

LEMMA AnswersAgreeHolds == Spec => []AnswersAgree
<1>1. Init => AnswersAgree
  BY DEF Init, AnswersAgree, Accounted, Queued, InTopic, NoQueue, Occurring
<1>2. QED
  BY <1>1, TypeCorrect, AnswersAgreeStep, PTL DEF Spec

\* An event answered "recorded" is stored, still held, logged as dropped or lost with
\* its process, whatever acknowledgements, attempts, shutdowns and crashes do
\* (producer.go:22-66, cmd/api/main.go:84-96).
THEOREM RecordedIsAccounted == Spec => []NothingVanishes
<1>1. AnswersAgree => NothingVanishes
  BY DEF AnswersAgree, NothingVanishes
<1> QED
  BY <1>1, AnswersAgreeHolds, PTL

\* A request answered with an error has put no event anywhere: Produce refuses an event
\* only before it is queued, and nothing that ends the process between the queueing and
\* the answer turns it into an error (search.go's RecordSearchEvent).  A request cut off
\* there has no answer, and is not spoken of.
THEOREM FailureIsClean == Spec => []FailedLeavesNothing
<1>1. AnswersAgree => FailedLeavesNothing
  BY DEF AnswersAgree, Handed, FailedLeavesNothing
<1> QED
  BY <1>1, AnswersAgreeHolds, PTL

-----------------------------------------------------------------------------
(* The order in a partition. *)

LEMMA Least ==
    ASSUME NEW T, T \subseteq Nat, T # {}
    PROVE  \E n \in T : \A m \in T : n <= m
<1> DEFINE Below == OpToRel(<, Nat)
<1>1. \A x, y \in Nat : y < x => <<y, x>> \in Below
  BY DEF OpToRel
<1>2. IsWellFoundedOn(Below, Nat)
  BY NatLessThanWellFounded DEF Below
<1> HIDE DEF Below
<1>3. PICK n \in T : \A m \in T : ~ (<<m, n>> \in Below)
  BY <1>2, WFMin
<1>4. ASSUME NEW m \in T PROVE n <= m
  <2>1. m \in Nat /\ n \in Nat
    OBVIOUS
  <2>2. ~(m < n)
    BY <1>1, <1>3, <2>1
  <2> QED
    BY <2>1, <2>2
<1> QED
  BY <1>4

LEMMA FirstAtIsFirst ==
    ASSUME NEW S, NEW s \in Seq(S), NEW r \in Occurring(s)
    PROVE  /\ FirstAt(s, r) \in 1..Len(s)
           /\ s[FirstAt(s, r)] = r
           /\ \A m \in 1..Len(s) : s[m] = r => FirstAt(s, r) <= m
<1>1. Len(s) \in Nat /\ DOMAIN s = 1..Len(s)
  BY LenProperties
<1> DEFINE T == { n \in 1..Len(s) : s[n] = r }
<1>2. T \subseteq Nat /\ T # {}
  BY <1>1 DEF Occurring
<1>3. PICK n \in T : \A m \in T : n <= m
  BY <1>2, Least
<1>4. n \in DOMAIN s /\ s[n] = r /\ \A m \in 1..(n - 1) : s[m] # r
  BY <1>1, <1>3
<1> DEFINE f == FirstAt(s, r)
<1>5. f \in DOMAIN s /\ s[f] = r /\ \A m \in 1..(f - 1) : s[m] # r
  BY <1>4 DEF FirstAt
<1>6. ASSUME NEW m \in 1..Len(s), s[m] = r PROVE f <= m
  <2>1. m \notin 1..(f - 1)
    BY <1>5, <1>6
  <2> HIDE DEF f
  <2> QED
    BY <1>1, <1>5, <2>1
<1> HIDE DEF f
<1> QED
  BY <1>1, <1>5, <1>6 DEF f

Injective(a) == \A x, y \in 1..Len(a) : a[x] = a[y] => x = y

\* Where t repeats members of a, it begins with each only after those before it in a
\* that occur in t at all: PartitionKeepsOrder without its CHOOSE.
InOrder(t, a) ==
    \A i \in 1..Len(t), x, y \in 1..Len(a) :
        x < y /\ t[i] = a[y] /\ a[x] \in Occurring(t) => \E j \in 1..(i - 1) : t[j] = a[x]

\* All that t holds is among the first n of a.
Within(t, a, n) == \A i \in 1..Len(t) : \E x \in 1..n : t[i] = a[x]

LEMMA InOrderFirsts ==
    ASSUME NEW S, NEW t \in Seq(S), NEW a \in Seq(S),
           Injective(a), Within(t, a, Len(a)), InOrder(t, a),
           NEW r \in Occurring(t), NEW s \in Occurring(t), FirstAt(t, r) < FirstAt(t, s)
    PROVE  FirstAt(a, r) < FirstAt(a, s)
<1>1. Len(t) \in Nat /\ DOMAIN t = 1..Len(t) /\ Len(a) \in Nat /\ DOMAIN a = 1..Len(a)
  BY LenProperties
<1>2. r \in Occurring(a) /\ s \in Occurring(a)
  BY <1>1 DEF Occurring, Within
<1> DEFINE i == FirstAt(t, r)
           j == FirstAt(t, s)
           x == FirstAt(a, r)
           y == FirstAt(a, s)
<1>3. /\ i \in 1..Len(t) /\ t[i] = r /\ j \in 1..Len(t) /\ t[j] = s
      /\ \A m \in 1..Len(t) : t[m] = s => j <= m
  BY FirstAtIsFirst
<1>4. x \in 1..Len(a) /\ a[x] = r /\ y \in 1..Len(a) /\ a[y] = s
  BY <1>2, FirstAtIsFirst
<1>5. i < j
  OBVIOUS
<1> HIDE DEF i, j, x, y
<1>6. CASE y < x
  <2>1. PICK k \in 1..(i - 1) : t[k] = s
    BY <1>3, <1>4, <1>6 DEF InOrder
  <2>2. k \in 1..Len(t) /\ k < j
    BY <1>1, <1>3, <1>5, <2>1
  <2> QED
    BY <1>3, <2>1, <2>2
<1>7. CASE x = y
  <2>1. r = s
    BY <1>4, <1>7
  <2> QED
    BY <2>1, <1>3, <1>5 DEF i, j
<1> QED
  BY <1>1, <1>4, <1>6, <1>7 DEF x, y

\* A batch that is stored for the first time comes after all that is stored; one that
\* is stored again begins nothing.
LEMMA StoreKeepsOrder ==
    ASSUME NEW S, NEW a \in Seq(S), NEW t \in Seq(S), NEW b \in Seq(S), NEW n \in Nat,
           n + Len(b) <= Len(a), \A i \in 1..Len(b) : b[i] = a[n + i],
           Injective(a), InOrder(t, a),
           Within(t, a, n) \/ Occurring(b) \subseteq Occurring(t)
    PROVE  InOrder(t \o b, a)
<1>1. Len(t) \in Nat /\ Len(a) \in Nat /\ Len(b) \in Nat
      /\ DOMAIN t = 1..Len(t) /\ DOMAIN b = 1..Len(b)
  BY LenProperties
<1>2. /\ Len(t \o b) = Len(t) + Len(b)
      /\ \A i \in 1..(Len(t) + Len(b)) : (t \o b)[i] = IF i <= Len(t) THEN t[i] ELSE b[i - Len(t)]
  BY ConcatProperties
<1>3. Occurring(t \o b) = Occurring(t) \union Occurring(b)
  BY OccurringConcat
<1> SUFFICES ASSUME NEW i \in 1..Len(t \o b), NEW x \in 1..Len(a), NEW y \in 1..Len(a), x < y,
                    (t \o b)[i] = a[y], a[x] \in Occurring(t) \union Occurring(b)
             PROVE  \E j \in 1..(i - 1) : (t \o b)[j] = a[x]
  BY <1>3 DEF InOrder
<1>4. ASSUME a[x] \in Occurring(b), a[x] \notin Occurring(t)
      PROVE  /\ \E k \in 1..Len(b) : x = n + k
             /\ Within(t, a, n)
  <2>1. PICK k \in 1..Len(b) : b[k] = a[x]
    BY <1>1, <1>4 DEF Occurring
  <2>2. n + k \in 1..Len(a) /\ a[n + k] = a[x]
    BY <1>1, <2>1
  <2> QED
    BY <1>4, <2>2 DEF Injective
<1>5. CASE i <= Len(t)
  <2>1. t[i] = a[y] /\ i \in 1..Len(t)
    BY <1>1, <1>2, <1>5
  <2>2. CASE a[x] \in Occurring(t)
    <3>1. PICK j \in 1..(i - 1) : t[j] = a[x]
      BY <2>1, <2>2 DEF InOrder
    <3>2. (t \o b)[j] = t[j]
      BY <1>1, <1>2, <2>1
    <3> QED
      BY <3>1, <3>2
  <2>3. CASE a[x] \notin Occurring(t)
    <3>1. PICK k \in 1..Len(b) : x = n + k
      BY <1>4, <2>3
    <3>2. PICK z \in 1..n : a[z] = a[y]
      BY <1>4, <2>1, <2>3 DEF Within
    <3>3. z \in 1..Len(a)
      BY <1>1
    <3>4. z = y
      BY <3>2, <3>3 DEF Injective
    <3> QED
      BY <1>1, <3>1, <3>4
  <2> QED
    BY <2>2, <2>3
<1>6. CASE i > Len(t)
  <2>1. i - Len(t) \in 1..Len(b) /\ b[i - Len(t)] = a[y]
    BY <1>1, <1>2, <1>6
  <2>2. n + (i - Len(t)) \in 1..Len(a) /\ a[n + (i - Len(t))] = a[y]
    BY <1>1, <2>1
  <2>3. y = n + (i - Len(t))
    BY <2>2 DEF Injective
  <2>4. CASE a[x] \in Occurring(t)
    <3>1. PICK j \in 1..Len(t) : t[j] = a[x]
      BY <1>1, <2>4 DEF Occurring
    <3>2. j \in 1..(i - 1) /\ (t \o b)[j] = t[j]
      BY <1>1, <1>2, <1>6
    <3> QED
      BY <3>1, <3>2
  <2>5. CASE a[x] \notin Occurring(t)
    <3>1. PICK k \in 1..Len(b) : x = n + k
      BY <1>4, <2>5
    <3>2. Len(t) + k \in 1..(i - 1) /\ (t \o b)[Len(t) + k] = b[k]
      BY <1>1, <1>2, <2>3, <3>1
    <3> QED
      BY <3>1, <3>2
  <2> QED
    BY <2>4, <2>5
<1> QED
  BY <1>1, <1>2, <1>5, <1>6

\* Accepting one more event disturbs nothing that is stored.
LEMMA AcceptKeepsOrder ==
    ASSUME NEW S, NEW a \in Seq(S), NEW t \in Seq(S), NEW r \in S, r \notin Occurring(a),
           Injective(a), Within(t, a, Len(a)), InOrder(t, a)
    PROVE  Injective(Append(a, r)) /\ InOrder(t, Append(a, r))
<1>1. /\ Len(t) \in Nat /\ Len(a) \in Nat /\ DOMAIN t = 1..Len(t) /\ DOMAIN a = 1..Len(a)
      /\ Len(Append(a, r)) = Len(a) + 1
      /\ \A i \in 1..Len(a) : Append(a, r)[i] = a[i]
      /\ Append(a, r)[Len(a) + 1] = r
  BY LenProperties, AppendProperties
<1>2. Injective(Append(a, r))
  <2> SUFFICES ASSUME NEW x \in 1..(Len(a) + 1), NEW y \in 1..(Len(a) + 1),
                      Append(a, r)[x] = Append(a, r)[y]
               PROVE  x = y
    BY <1>1 DEF Injective
  <2>1. \A z \in 1..Len(a) : a[z] # r
    BY <1>1 DEF Occurring
  <2>2. (x \in 1..Len(a) \/ x = Len(a) + 1) /\ (y \in 1..Len(a) \/ y = Len(a) + 1)
    BY <1>1
  <2> QED
    BY <1>1, <2>1, <2>2 DEF Injective
<1>3. r \notin Occurring(t)
  BY <1>1 DEF Occurring, Within
<1>4. InOrder(t, Append(a, r))
  <2> SUFFICES ASSUME NEW i \in 1..Len(t), NEW x \in 1..(Len(a) + 1), NEW y \in 1..(Len(a) + 1),
                      x < y, t[i] = Append(a, r)[y], Append(a, r)[x] \in Occurring(t)
               PROVE  \E j \in 1..(i - 1) : t[j] = Append(a, r)[x]
    BY <1>1 DEF InOrder
  <2>1. x \in 1..Len(a) /\ y \in 1..Len(a)
    <3>1. t[i] # r
      BY <1>1, <1>3 DEF Occurring
    <3> QED
      BY <1>1, <1>3, <3>1
  <2> QED
    BY <1>1, <2>1 DEF InOrder
<1> QED
  BY <1>2, <1>4

\* How many of those accepted have left the queue.
Taken(p) == Len(accepted[p]) - Len(queue[p])

\* Why a partition keeps its order: the queue is the end of what was accepted, no
\* event is accepted twice, and what is stored are events that have left the queue or
\* the batch at its front: of a batch none is stored, or (an acknowledgement was
\* lost) all are.
Ordered(p) ==
    /\ Len(queue[p]) <= Len(accepted[p])
    /\ \A i \in 1..Len(queue[p]) : queue[p][i] = accepted[p][Taken(p) + i]
    /\ Injective(accepted[p])
    /\ \A r \in Request : r \in Occurring(accepted[p]) => request[r] \in Handed
    /\ Within(topic[p], accepted[p], Taken(p) + batch[p])
    /\ \/ Within(topic[p], accepted[p], Taken(p))
       \/ \A i \in 1..batch[p] : queue[p][i] \in Occurring(topic[p])
    /\ InOrder(topic[p], accepted[p])

AllOrdered == \A p \in Partition : Ordered(p)

LEMMA TakenFromFront ==
    ASSUME NEW a \in Nat, NEW q \in 0..a, NEW b \in 0..q
    PROVE  /\ a - q \in Nat /\ (a - q) + b \in 0..a
           /\ a - (q - b) = (a - q) + b
OBVIOUS

LEMMA OthersStayOrdered ==
    ASSUME NEW q \in Partition, Ordered(q),
           queue'[q] = queue[q], batch'[q] = batch[q], topic'[q] = topic[q],
           accepted'[q] = accepted[q],
           \A r \in Request : request[r] \in Handed => request'[r] \in Handed
    PROVE  Ordered(q)'
BY DEF Ordered, Taken

\* The topic of p after its batch has been stored, or has not.
LEMMA StoringKeepsOrder ==
    ASSUME TypeOK, NEW p \in Partition, Ordered(p),
           NEW stored \in BOOLEAN,
           NEW t, t = IF stored THEN topic[p] \o Batch(p) ELSE topic[p]
    PROVE  /\ Within(t, accepted[p], Taken(p) + batch[p])
           /\ InOrder(t, accepted[p])
           /\ \/ Within(t, accepted[p], Taken(p))
              \/ \A i \in 1..batch[p] : queue[p][i] \in Occurring(t)
<1>1. CASE ~stored
  BY <1>1 DEF Ordered
<1>2. CASE stored
  <2> DEFINE a == accepted[p]
             b == Batch(p)
             n == Taken(p)
  <2>1. /\ topic[p] \in Seq(Request) /\ a \in Seq(Request) /\ queue[p] \in Seq(Request)
        /\ Len(topic[p]) \in Nat /\ Len(a) \in Nat /\ Len(queue[p]) \in Nat
        /\ batch[p] \in Nat /\ batch[p] <= Len(queue[p]) /\ Len(queue[p]) <= Len(a)
    BY LenProperties DEF TypeOK, Ordered
  <2>2. /\ b \in Seq(Request) /\ Len(b) = batch[p]
        /\ \A i \in 1..Len(b) : b[i] = queue[p][i]
    BY BatchAndRest
  <2>3. n \in Nat /\ n + Len(b) <= Len(a) /\ n + Len(queue[p]) = Len(a)
    <3>1. n = Len(a) - Len(queue[p])
      BY DEF Taken
    <3> HIDE DEF a, b, n
    <3> QED
      BY <2>1, <2>2, <3>1
  <2>4. \A i \in 1..Len(b) : b[i] = a[n + i]
    BY <2>1, <2>2 DEF Ordered
  <2>5. Within(topic[p], a, n) \/ Occurring(b) \subseteq Occurring(topic[p])
    <3>1. CASE \A i \in 1..batch[p] : queue[p][i] \in Occurring(topic[p])
      <4>1. DOMAIN b = 1..Len(b)
        BY <2>2
      <4> QED
        BY <2>2, <3>1, <4>1 DEF Occurring
    <3> QED
      BY <3>1 DEF Ordered
  <2>6. t = topic[p] \o b
    BY <1>2
  <2>7. Injective(a) /\ InOrder(topic[p], a) /\ Within(topic[p], a, n + batch[p])
    BY DEF Ordered
  <2>8. Occurring(t) = Occurring(topic[p]) \union Occurring(b)
    <3> HIDE DEF b
    <3>1. Occurring(topic[p] \o b) = Occurring(topic[p]) \union Occurring(b)
      BY <2>1, <2>2, OccurringConcat
    <3> QED
      BY <2>6, <3>1
  <2>9. \A i \in 1..batch[p] : queue[p][i] \in Occurring(b)
    BY <2>2 DEF Occurring
  <2>10. /\ Len(t) = Len(topic[p]) + Len(b)
         /\ \A i \in 1..(Len(topic[p]) + Len(b)) :
               t[i] = IF i <= Len(topic[p]) THEN topic[p][i] ELSE b[i - Len(topic[p])]
    BY <2>1, <2>2, <2>6, ConcatProperties
  <2> HIDE DEF a, b, n
  <2>11. InOrder(t, a)
    BY <2>1, <2>2, <2>3, <2>4, <2>5, <2>6, <2>7, StoreKeepsOrder
  <2>12. Within(t, a, n + batch[p])
    <3> SUFFICES ASSUME NEW i \in 1..Len(t) PROVE \E x \in 1..(n + batch[p]) : t[i] = a[x]
      BY DEF Within
    <3>1. CASE i <= Len(topic[p])
      BY <2>1, <2>2, <2>7, <2>10, <3>1 DEF Within
    <3>2. CASE i > Len(topic[p])
      <4>1. PICK k \in 1..Len(b) : k = i - Len(topic[p])
        BY <2>1, <2>2, <2>10, <3>2
      <4>2. i \in 1..(Len(topic[p]) + Len(b)) /\ ~(i <= Len(topic[p]))
        BY <2>1, <2>2, <2>10, <3>2
      <4>3. t[i] = a[n + k]
        BY <2>4, <2>10, <4>1, <4>2
      <4>4. n + k \in 1..(n + batch[p])
        BY <2>2, <2>3
      <4> QED
        BY <4>3, <4>4
    <3> QED
      BY <2>1, <2>2, <2>10, <3>1, <3>2
  <2> QED
    BY <2>8, <2>9, <2>11, <2>12 DEF a, n
<1> QED
  BY <1>1, <1>2

\* A batch that ends has been taken.
LEMMA EndBatchKeepsOrder ==
    ASSUME TypeOK, NEW p \in Partition, Ordered(p), EndBatch(p), UNCHANGED <<accepted, request>>,
           Within(topic'[p], accepted[p], Taken(p) + batch[p]),
           InOrder(topic'[p], accepted[p])
    PROVE  Ordered(p)'
<1>1. /\ queue'[p] = Rest(p) /\ batch'[p] = 0
      /\ batch[p] \in Nat /\ batch[p] <= Len(queue[p])
      /\ Len(queue[p]) \in Nat /\ Len(accepted[p]) \in Nat /\ Len(queue[p]) <= Len(accepted[p])
  BY DEF TypeOK, EndBatch, Ordered
<1>2. /\ Len(queue'[p]) = Len(queue[p]) - batch[p]
      /\ \A i \in 1..Len(queue'[p]) : queue'[p][i] = queue[p][batch[p] + i]
  BY <1>1, BatchAndRest
<1>3. Taken(p)' = Taken(p) + batch[p] /\ Taken(p) \in Nat
  <2>1. Taken(p) = Len(accepted[p]) - Len(queue[p]) /\ Taken(p)' = Len(accepted[p]) - Len(queue'[p])
    BY DEF Taken
  <2>2. Len(accepted[p]) \in Nat /\ Len(queue[p]) \in 0..Len(accepted[p])
        /\ batch[p] \in 0..Len(queue[p])
    BY <1>1
  <2> QED
    BY <1>2, <2>1, <2>2, TakenFromFront
<1>4. ASSUME NEW i \in 1..Len(queue'[p]) PROVE queue'[p][i] = accepted[p][Taken(p)' + i]
  <2>1. batch[p] + i \in 1..Len(queue[p])
    BY <1>1, <1>2
  <2>2. queue'[p][i] = accepted[p][Taken(p) + (batch[p] + i)]
    BY <1>2, <2>1 DEF Ordered
  <2>3. Taken(p) + (batch[p] + i) = Taken(p)' + i
    BY <1>1, <1>2, <1>3
  <2> QED
    BY <2>2, <2>3
<1>5. Within(topic'[p], accepted[p], Taken(p)') /\ Taken(p)' + 0 = Taken(p)'
  BY <1>1, <1>3
<1> QED
  BY <1>1, <1>2, <1>4, <1>5 DEF Ordered

LEMMA OrderedStep == TypeOK /\ AllOrdered /\ [Next]_producer => AllOrdered'
<1> SUFFICES ASSUME TypeOK, AllOrdered, [Next]_producer, NEW q \in Partition
             PROVE  Ordered(q)'
  BY DEF AllOrdered
<1>1. Ordered(q)
  BY DEF AllOrdered
<1>2. /\ queue \in [Partition -> Seq(Request)] /\ accepted \in [Partition -> Seq(Request)]
      /\ topic \in [Partition -> Seq(Request)] /\ batch \in [Partition -> Nat]
      /\ batch[q] <= Len(queue[q]) /\ Len(queue[q]) \in Nat
  BY DEF TypeOK
<1>3. ASSUME NEW r \in Request, Post(r) PROVE Ordered(q)'
  BY <1>1, <1>3, OthersStayOrdered DEF Post, writer, TypeOK, Handed
<1>4. ASSUME NEW r \in Request, Reject(r) PROVE Ordered(q)'
  BY <1>1, <1>4, OthersStayOrdered DEF Reject, writer, TypeOK, Handed
<1>12. ASSUME NEW r \in Request, Answer(r) PROVE Ordered(q)'
  BY <1>1, <1>12, OthersStayOrdered DEF Answer, writer, TypeOK, Handed
<1>5. ASSUME NEW r \in Request, NEW p \in Partition, Produce(r, p) PROVE Ordered(q)'
  <2>1. \A s \in Request : request[s] \in Handed \/ s = r => request'[s] \in Handed
    BY <1>5 DEF Produce, TypeOK, Handed
  <2>2. CASE p # q
    BY <1>1, <1>2, <1>5, <2>1, <2>2, OthersStayOrdered DEF Produce
  <2>3. CASE p = q
    <3> DEFINE a == accepted[q]
               t == topic[q]
    <3>1. /\ accepted'[q] = Append(a, r) /\ queue'[q] = Append(queue[q], r)
          /\ batch'[q] = batch[q] /\ topic'[q] = t
      BY <1>2, <1>5, <2>3 DEF Produce
    <3>2. r \notin Occurring(a)
      BY <1>1, <1>5 DEF Produce, Ordered, Handed
    <3>3. /\ a \in Seq(Request) /\ t \in Seq(Request) /\ Len(a) \in Nat
          /\ Len(queue[q]) <= Len(a) /\ Taken(q) \in Nat
          /\ Taken(q) + Len(queue[q]) = Len(a) /\ batch[q] \in Nat
      BY <1>1, <1>2 DEF Ordered, Taken
    <3>4. /\ Len(Append(a, r)) = Len(a) + 1 /\ Len(Append(queue[q], r)) = Len(queue[q]) + 1
          /\ \A i \in 1..Len(a) : Append(a, r)[i] = a[i]
          /\ Append(a, r)[Len(a) + 1] = r
          /\ \A i \in 1..Len(queue[q]) : Append(queue[q], r)[i] = queue[q][i]
          /\ Append(queue[q], r)[Len(queue[q]) + 1] = r
      BY <1>2, <3>3, AppendProperties
    <3>5. Taken(q)' = Taken(q)
      BY <1>2, <3>1, <3>3, <3>4 DEF Taken
    <3>6. ASSUME NEW n \in 0..Len(a), Within(t, a, n) PROVE Within(t, Append(a, r), n)
      BY <3>3, <3>4, <3>6 DEF Within
    <3>7. Within(t, a, Taken(q) + batch[q]) /\ Within(t, a, Len(a))
      BY <1>1, <1>2, <3>3 DEF Ordered, Within
    <3>8. Injective(Append(a, r)) /\ InOrder(t, Append(a, r))
      BY <1>1, <3>2, <3>3, <3>7, AcceptKeepsOrder DEF Ordered
    <3>9. \A s \in Request : s \in Occurring(Append(a, r)) => request'[s] \in Handed
      BY <1>1, <2>1, <3>3, OccurringAppend DEF Ordered
    <3>10. ASSUME NEW i \in 1..(Len(queue[q]) + 1)
           PROVE  Append(queue[q], r)[i] = Append(a, r)[Taken(q) + i]
      <4>1. CASE i = Len(queue[q]) + 1
        BY <1>2, <3>3, <3>4, <4>1
      <4>2. CASE i # Len(queue[q]) + 1
        <5>1. i \in 1..Len(queue[q]) /\ Taken(q) + i \in 1..Len(a)
          BY <1>2, <3>3, <4>2
        <5> QED
          BY <1>1, <3>4, <5>1 DEF Ordered
      <4> QED
        BY <4>1, <4>2
    <3>11. /\ Within(t, Append(a, r), Taken(q) + batch[q])
           /\ \/ Within(t, Append(a, r), Taken(q))
              \/ \A i \in 1..batch[q] : Append(queue[q], r)[i] \in Occurring(t)
      <4>1. Taken(q) \in 0..Len(a) /\ Taken(q) + batch[q] \in 0..Len(a)
        BY <1>2, <3>3
      <4>2. \A i \in 1..batch[q] : i \in 1..Len(queue[q])
        BY <1>2, <3>3
      <4> QED
        BY <1>1, <3>4, <3>6, <3>7, <4>1, <4>2 DEF Ordered
    <3>12. Len(queue'[q]) <= Len(accepted'[q])
      BY <1>2, <3>1, <3>3, <3>4
    <3> HIDE DEF a, t
    <3> QED
      BY <3>1, <3>4, <3>5, <3>8, <3>9, <3>10, <3>11, <3>12 DEF Ordered
  <2> QED
    BY <2>2, <2>3
<1>6. ASSUME NEW p \in Partition, StartBatch(p) PROVE Ordered(q)'
  <2>1. CASE p # q
    BY <1>1, <1>2, <1>6, <2>1, OthersStayOrdered DEF StartBatch
  <2>2. CASE p = q
    <3>1. /\ batch[q] = 0 /\ batch'[q] \in 1..Len(queue[q])
          /\ UNCHANGED <<queue, request, topic, accepted>>
      BY <1>2, <1>6, <2>2 DEF StartBatch
    <3>2. Taken(q)' = Taken(q) /\ Taken(q) \in Nat /\ Taken(q) + 0 = Taken(q)
      BY <1>1, <1>2, <3>1 DEF Ordered, Taken
    <3>3. Within(topic[q], accepted[q], Taken(q))
      BY <1>1, <3>1, <3>2 DEF Ordered
    <3>4. Within(topic[q], accepted[q], Taken(q) + batch'[q])
      BY <1>2, <3>1, <3>2, <3>3 DEF Within
    <3> QED
      BY <1>1, <3>1, <3>2, <3>3, <3>4 DEF Ordered
  <2> QED
    BY <2>1, <2>2
<1>7. ASSUME NEW p \in Partition, Deliver(p) PROVE Ordered(q)'
  <2>1. CASE p # q
    BY <1>1, <1>2, <1>7, <2>1, OthersStayOrdered DEF Deliver, EndBatch
  <2>2. CASE p = q
    <3>1. topic'[q] = IF TRUE THEN topic[q] \o Batch(q) ELSE topic[q]
      BY <1>2, <1>7, <2>2 DEF Deliver
    <3>2. /\ Within(topic'[q], accepted[q], Taken(q) + batch[q])
          /\ InOrder(topic'[q], accepted[q])
      BY <1>1, <3>1, StoringKeepsOrder
    <3> QED
      BY <1>1, <1>7, <2>2, <3>2, EndBatchKeepsOrder DEF Deliver
  <2> QED
    BY <2>1, <2>2
<1>8. ASSUME NEW p \in Partition, NEW stored \in BOOLEAN, Fail(p, stored) PROVE Ordered(q)'
  <2>1. CASE p # q
    BY <1>1, <1>2, <1>8, <2>1, OthersStayOrdered DEF Fail, Retry, Drop, EndBatch
  <2>2. CASE p = q
    <3>1. topic'[q] = IF stored THEN topic[q] \o Batch(q) ELSE topic[q]
      BY <1>2, <1>8, <2>2 DEF Fail
    <3>2. /\ Within(topic'[q], accepted[q], Taken(q) + batch[q])
          /\ InOrder(topic'[q], accepted[q])
          /\ \/ Within(topic'[q], accepted[q], Taken(q))
             \/ \A i \in 1..batch[q] : queue[q][i] \in Occurring(topic'[q])
      BY <1>1, <3>1, StoringKeepsOrder
    <3>3. CASE Retry(q)
      <4>1. UNCHANGED <<queue, batch, accepted, request>> /\ Taken(q)' = Taken(q)
        BY <1>8, <3>3 DEF Fail, Retry, Taken
      <4> QED
        BY <1>1, <3>2, <4>1 DEF Ordered
    <3>4. CASE Drop(q)
      BY <1>1, <1>8, <3>2, <3>4, EndBatchKeepsOrder DEF Fail, Drop
    <3> QED
      BY <1>8, <2>2, <3>3, <3>4 DEF Fail
  <2> QED
    BY <2>1, <2>2
<1>9. CASE Sigterm \/ Drained \/ Restart
  BY <1>1, <1>9, OthersStayOrdered DEF Sigterm, Drained, Restart, writer
\* The events that a crash takes with it have left the queue as well.
<1>10. CASE Exit \/ Crash
  <2>1. /\ queue'[q] = <<>> /\ batch'[q] = 0 /\ UNCHANGED <<topic, accepted>>
    BY <1>10 DEF Exit, Crash, NoQueue, Zeros
  <2>2. \A r \in Request : request[r] \in Handed => request'[r] \in Handed
    BY <1>10 DEF Exit, Crash, CutOff, Handed
  <2>3. /\ Len(accepted[q]) \in Nat /\ Len(queue[q]) <= Len(accepted[q]) /\ Len(queue'[q]) = 0
        /\ Taken(q)' = Len(accepted[q]) /\ Taken(q)' + 0 = Len(accepted[q])
        /\ Taken(q) + batch[q] <= Len(accepted[q]) /\ Taken(q) + batch[q] \in Nat
    BY <1>1, <1>2, <2>1 DEF Ordered, Taken
  <2>4. Within(topic[q], accepted[q], Len(accepted[q]))
    BY <1>1, <2>3 DEF Ordered, Within
  <2> QED
    BY <1>1, <2>1, <2>2, <2>3, <2>4 DEF Ordered
<1>11. CASE UNCHANGED producer
  BY <1>1, <1>11, OthersStayOrdered DEF producer, writer
<1> QED
  BY <1>3, <1>4, <1>5, <1>6, <1>7, <1>8, <1>9, <1>10, <1>11, <1>12 DEF Next, Handle, Write

LEMMA AllOrderedHolds == Spec => []AllOrdered
<1>1. Init => AllOrdered
  BY DEF Init, AllOrdered, Ordered, NoQueue, Zeros, Injective, Within, InOrder, Occurring, Taken
<1> QED
  BY <1>1, TypeCorrect, OrderedStep, PTL DEF Spec

\* Retries may store events again, but none overtakes one accepted before it: a batch
\* stays at the front of its queue until it is stored or dropped, whatever
\* acknowledgements are lost (producer.go:22-38).
THEOREM OrderIsKept == Spec => []PartitionKeepsOrder
<1>1. ASSUME TypeOK, AllOrdered, NEW p \in Partition,
             NEW r \in Occurring(topic[p]), NEW s \in Occurring(topic[p]),
             FirstAt(topic[p], r) < FirstAt(topic[p], s)
      PROVE  FirstAt(accepted[p], r) < FirstAt(accepted[p], s)
  <2>1. /\ topic[p] \in Seq(Request) /\ accepted[p] \in Seq(Request)
        /\ Len(accepted[p]) \in Nat /\ Len(queue[p]) \in Nat /\ batch[p] \in Nat
        /\ batch[p] <= Len(queue[p])
    BY <1>1 DEF TypeOK
  <2>2. Ordered(p)
    BY <1>1 DEF AllOrdered
  <2>3. Within(topic[p], accepted[p], Len(accepted[p]))
    <3>1. Taken(p) + batch[p] \in 0..Len(accepted[p])
      <4>1. Len(accepted[p]) \in Nat /\ Len(queue[p]) \in 0..Len(accepted[p])
            /\ batch[p] \in 0..Len(queue[p])
        BY <2>1, <2>2 DEF Ordered
      <4> QED
        BY <4>1, TakenFromFront DEF Taken
    <3>2. \A x \in 1..(Taken(p) + batch[p]) : x \in 1..Len(accepted[p])
      BY <2>1, <3>1
    <3> QED
      BY <2>2, <3>2 DEF Ordered, Within
  <2> QED
    BY <1>1, <2>1, <2>2, <2>3, InOrderFirsts DEF Ordered
<1>2. TypeOK /\ AllOrdered => PartitionKeepsOrder
  BY <1>1 DEF PartitionKeepsOrder
<1> QED
  BY <1>2, TypeCorrect, AllOrderedHolds, PTL

-----------------------------------------------------------------------------
(* How many copies of an event the retries can leave in the topic. *)

Places(t, r) == { i \in DOMAIN t : t[i] = r }

\* A batch holds an event once, so each attempt to write it adds one copy at most: the
\* events of the batch have as many as attempts have failed, those behind it none.
Bounded(p) ==
    /\ attempts[p] < MaxAttempts
    /\ batch[p] = 0 => attempts[p] = 0
    /\ \A i \in 1..Len(queue[p]) :
         Cardinality(Places(topic[p], queue[p][i])) <= IF i <= batch[p] THEN attempts[p] ELSE 0
    /\ \A r \in Request : Cardinality(Places(topic[p], r)) <= MaxAttempts

AllBounded == \A p \in Partition : Bounded(p)

\* An event is put into one partition only.
Routed ==
    \A p, q \in Partition, r \in Request :
        r \in Occurring(accepted[p]) /\ r \in Occurring(accepted[q]) => p = q

LEMMA QueueIsInjective ==
    ASSUME TypeOK, NEW p \in Partition, Ordered(p),
           NEW i \in 1..Len(queue[p]), NEW j \in 1..Len(queue[p]), queue[p][i] = queue[p][j]
    PROVE  i = j
<1>1. Len(queue[p]) \in Nat /\ Len(accepted[p]) \in Nat /\ Len(queue[p]) <= Len(accepted[p])
  BY DEF TypeOK, Ordered
<1>2. PICK n \in Nat : n = Taken(p) /\ n + Len(queue[p]) = Len(accepted[p])
  <2>1. \A a \in Nat, q \in Nat : q <= a => a - q \in Nat /\ (a - q) + q = a
    OBVIOUS
  <2> QED
    BY <1>1, <2>1 DEF Taken
<1>3. n + i \in 1..Len(accepted[p]) /\ n + j \in 1..Len(accepted[p])
  BY <1>1, <1>2
<1>4. accepted[p][n + i] = accepted[p][n + j]
  BY <1>2 DEF Ordered
<1>5. n + i = n + j
  BY <1>3, <1>4 DEF Ordered, Injective
<1> QED
  BY <1>2, <1>5

LEMMA OneMore ==
    ASSUME NEW S, NEW t \in Seq(S), NEW b \in Seq(S), Injective(b), NEW r
    PROVE  LET C == Places(t, r)
               D == Places(t \o b, r)
           IN  /\ IsFiniteSet(C) /\ IsFiniteSet(D)
               /\ Cardinality(C) \in Nat /\ Cardinality(D) \in Nat
               /\ Cardinality(D) <= Cardinality(C) + 1
               /\ r \notin Occurring(b) => D = C
<1> DEFINE C == Places(t, r)
           D == Places(t \o b, r)
<1> USE DEF Places
<1>1. /\ DOMAIN t = 1..Len(t) /\ DOMAIN b = 1..Len(b) /\ DOMAIN (t \o b) = 1..(Len(t) + Len(b))
      /\ Len(t) \in Nat /\ Len(b) \in Nat
      /\ \A i \in 1..(Len(t) + Len(b)) : (t \o b)[i] = IF i <= Len(t) THEN t[i] ELSE b[i - Len(t)]
  BY ConcatProperties
<1>2. IsFiniteSet(C) /\ Cardinality(C) \in Nat
  <2>1. IsFiniteSet(1..Len(t))
    BY <1>1, FS_Interval
  <2>2. C \in SUBSET (1..Len(t))
    BY <1>1
  <2> HIDE DEF C
  <2> QED
    BY <2>1, <2>2, FS_Subset, FS_CardinalityType
<1>3. ASSUME NEW i \in D PROVE i \in C \/ (\E j \in 1..Len(b) : b[j] = r /\ i = Len(t) + j)
  <2>1. i \in 1..(Len(t) + Len(b)) /\ (t \o b)[i] = r
    BY <1>1
  <2>2. CASE i <= Len(t)
    BY <1>1, <2>1, <2>2
  <2>3. CASE i > Len(t)
    <3>1. i - Len(t) \in 1..Len(b) /\ b[i - Len(t)] = r /\ i = Len(t) + (i - Len(t))
      BY <1>1, <2>1, <2>3
    <3> QED
      BY <3>1
  <2> QED
    BY <1>1, <2>1, <2>2, <2>3
<1>4. C \subseteq D
  BY <1>1
<1>5. \E x : D \subseteq C \union {x}
  <2>1. CASE \E j \in 1..Len(b) : b[j] = r
    <3>1. PICK j \in 1..Len(b) : b[j] = r
      BY <2>1
    <3>2. \A m \in 1..Len(b) : b[m] = r => m = j
      BY <3>1 DEF Injective
    <3>3. D \subseteq C \union {Len(t) + j}
      BY <1>3, <3>2
    <3> QED
      BY <3>3
  <2>2. CASE ~\E j \in 1..Len(b) : b[j] = r
    BY <1>3, <2>2
  <2> QED
    BY <2>1, <2>2
<1>6. r \notin Occurring(b) => D = C
  <2> SUFFICES ASSUME r \notin Occurring(b) PROVE D \subseteq C
    BY <1>4
  <2>1. \A j \in 1..Len(b) : b[j] # r
    BY <1>1 DEF Occurring
  <2> QED
    BY <1>3, <2>1
<1> HIDE DEF C, D
<1>7. PICK x : D \subseteq C \union {x}
  BY <1>5
<1>8. /\ IsFiniteSet(C \union {x}) /\ Cardinality(C \union {x}) \in Nat
      /\ Cardinality(C \union {x}) <= Cardinality(C) + 1
  <2>1. /\ IsFiniteSet(C \union {x})
        /\ Cardinality(C \union {x}) = IF x \in C THEN Cardinality(C) ELSE Cardinality(C) + 1
    BY <1>2, FS_AddElement
  <2> QED
    BY <1>2, <2>1
<1>9. IsFiniteSet(D) /\ Cardinality(D) <= Cardinality(C \union {x}) /\ Cardinality(D) \in Nat
  BY <1>7, <1>8, FS_Subset, FS_CardinalityType
<1>10. Cardinality(D) <= Cardinality(C) + 1
  BY <1>2, <1>8, <1>9
<1> QED
  BY <1>2, <1>6, <1>9, <1>10 DEF C, D

\* The copies before and after a batch is stored, or is not.
LEMMA StoringAddsOne ==
    ASSUME TypeOK, NEW p \in Partition, Ordered(p), NEW stored \in BOOLEAN,
           topic'[p] = IF stored THEN topic[p] \o Batch(p) ELSE topic[p],
           NEW r \in Request
    PROVE  /\ Cardinality(Places(topic[p], r)) \in Nat /\ Cardinality(Places(topic'[p], r)) \in Nat
           /\ Cardinality(Places(topic'[p], r)) <= Cardinality(Places(topic[p], r)) + 1
           /\ (\A i \in 1..batch[p] : queue[p][i] # r) => Places(topic'[p], r) = Places(topic[p], r)
<1>1. /\ topic[p] \in Seq(Request) /\ Batch(p) \in Seq(Request)
      /\ Len(Batch(p)) = batch[p] /\ batch[p] \in Nat /\ batch[p] <= Len(queue[p])
      /\ Len(queue[p]) \in Nat /\ Len(accepted[p]) \in Nat
      /\ \A i \in 1..batch[p] : Batch(p)[i] = queue[p][i]
  BY BatchAndRest DEF TypeOK
<1>2. Injective(Batch(p))
  <2> SUFFICES ASSUME NEW i \in 1..batch[p], NEW j \in 1..batch[p], queue[p][i] = queue[p][j]
               PROVE  i = j
    BY <1>1 DEF Injective
  <2>1. i \in 1..Len(queue[p]) /\ j \in 1..Len(queue[p])
    BY <1>1
  <2> QED
    BY <2>1, QueueIsInjective
<1>3. (\A i \in 1..batch[p] : queue[p][i] # r) => r \notin Occurring(Batch(p))
  <2>1. DOMAIN Batch(p) = 1..batch[p]
    BY <1>1
  <2> QED
    BY <1>1, <2>1 DEF Occurring
<1> DEFINE C == Places(topic[p], r)
           D == Places(topic[p] \o Batch(p), r)
<1>4. /\ Cardinality(C) \in Nat /\ Cardinality(D) \in Nat /\ Cardinality(D) <= Cardinality(C) + 1
      /\ r \notin Occurring(Batch(p)) => D = C
  BY <1>1, <1>2, OneMore
<1>5. Places(topic'[p], r) = (IF stored THEN D ELSE C)
  OBVIOUS
<1> HIDE DEF C, D
<1> QED
  BY <1>3, <1>4, <1>5 DEF C

LEMMA OthersStayBounded ==
    ASSUME NEW q \in Partition, Bounded(q),
           queue'[q] = queue[q], batch'[q] = batch[q], attempts'[q] = attempts[q],
           topic'[q] = topic[q]
    PROVE  Bounded(q)'
BY DEF Bounded

\* A batch that ends leaves at most MaxAttempts copies and the rest of the queue none.
LEMMA EndBatchStaysBounded ==
    ASSUME TypeOK, NEW p \in Partition, Ordered(p), Bounded(p), EndBatch(p),
           NEW stored \in BOOLEAN,
           topic'[p] = IF stored THEN topic[p] \o Batch(p) ELSE topic[p]
    PROVE  Bounded(p)'
<1>1. /\ attempts[p] \in Nat /\ batch[p] \in Nat /\ batch[p] <= Len(queue[p])
      /\ Len(queue[p]) \in Nat /\ queue[p] \in Seq(Request) /\ Len(accepted[p]) \in Nat
      /\ MaxAttempts \in Nat \ {0}
  BY ProducerAssumption DEF TypeOK
<1>2. /\ queue'[p] = Rest(p) /\ batch'[p] = 0 /\ attempts'[p] = 0
      /\ Len(Rest(p)) = Len(queue[p]) - batch[p]
      /\ \A i \in 1..(Len(queue[p]) - batch[p]) : Rest(p)[i] = queue[p][batch[p] + i]
  BY BatchAndRest DEF EndBatch, TypeOK
<1>3. ASSUME NEW r \in Request PROVE Cardinality(Places(topic'[p], r)) <= MaxAttempts
  <2>1. /\ Cardinality(Places(topic[p], r)) \in Nat /\ Cardinality(Places(topic'[p], r)) \in Nat
        /\ Cardinality(Places(topic'[p], r)) <= Cardinality(Places(topic[p], r)) + 1
        /\ (\A i \in 1..batch[p] : queue[p][i] # r) => Places(topic'[p], r) = Places(topic[p], r)
    BY StoringAddsOne
  <2>2. CASE \A i \in 1..batch[p] : queue[p][i] # r
    BY <2>1, <2>2 DEF Bounded
  <2>3. ASSUME NEW i \in 1..batch[p], queue[p][i] = r
        PROVE  Cardinality(Places(topic'[p], r)) <= MaxAttempts
    <3>1. i \in 1..Len(queue[p]) /\ i <= batch[p]
      BY <1>1
    <3>2. Cardinality(Places(topic[p], r)) <= attempts[p] /\ attempts[p] < MaxAttempts
      BY <2>3, <3>1 DEF Bounded
    <3> QED
      BY <1>1, <2>1, <3>2
  <2> QED
    BY <2>2, <2>3
<1>4. ASSUME NEW i \in 1..Len(queue'[p]) PROVE Cardinality(Places(topic'[p], queue'[p][i])) <= 0
  <2> DEFINE j == batch[p] + i
             r == queue[p][j]
  <2>1. j \in 1..Len(queue[p]) /\ ~(j <= batch[p]) /\ queue'[p][i] = r
    BY <1>1, <1>2
  <2>2. r \in Request
    BY <1>1, <2>1
  <2> HIDE DEF j
  <2>3. Cardinality(Places(topic[p], r)) <= 0
    BY <2>1 DEF Bounded
  <2>4. ASSUME NEW m \in 1..batch[p], queue[p][m] = r PROVE FALSE
    <3>1. m \in 1..Len(queue[p]) /\ m # j
      BY <1>1, <2>1
    <3> QED
      BY <2>1, <2>4, <3>1, QueueIsInjective
  <2> QED
    BY <2>1, <2>2, <2>3, <2>4, StoringAddsOne
<1>5. attempts'[p] < MaxAttempts
  BY <1>1, <1>2
<1>6. batch'[p] = 0 /\ \A i \in 1..Len(queue'[p]) : ~(i <= batch'[p])
  BY <1>1, <1>2
<1> QED
  BY <1>2, <1>3, <1>4, <1>5, <1>6 DEF Bounded

LEMMA BoundedStep == TypeOK /\ AllOrdered /\ AllBounded /\ [Next]_producer => AllBounded'
<1> SUFFICES ASSUME TypeOK, AllOrdered, AllBounded, [Next]_producer, NEW q \in Partition
             PROVE  Bounded(q)'
  BY DEF AllBounded
<1>1. Bounded(q) /\ Ordered(q)
  BY DEF AllBounded, AllOrdered
<1>2. /\ queue \in [Partition -> Seq(Request)] /\ accepted \in [Partition -> Seq(Request)]
      /\ topic \in [Partition -> Seq(Request)] /\ batch \in [Partition -> Nat]
      /\ attempts \in [Partition -> 0..MaxAttempts] /\ MaxAttempts \in Nat \ {0}
      /\ batch[q] <= Len(queue[q]) /\ Len(queue[q]) \in Nat
  BY ProducerAssumption DEF TypeOK
<1>3. CASE UNCHANGED <<writer, topic>>
  BY <1>1, <1>3, OthersStayBounded DEF writer
<1>4. ASSUME NEW r \in Request, NEW p \in Partition, Produce(r, p) PROVE Bounded(q)'
  <2>1. CASE p # q
    BY <1>1, <1>2, <1>4, <2>1, OthersStayBounded DEF Produce
  <2>2. CASE p = q
    <3>1. queue'[q] = Append(queue[q], r) /\ UNCHANGED <<batch, attempts, topic>>
      BY <1>2, <1>4, <2>2 DEF Produce
    <3>2. /\ Len(queue'[q]) = Len(queue[q]) + 1 /\ queue'[q][Len(queue[q]) + 1] = r
          /\ \A i \in 1..Len(queue[q]) : queue'[q][i] = queue[q][i]
      BY <1>2, <3>1, AppendProperties
    <3>3. Places(topic[q], r) = {}
      <4>1. r \notin Occurring(accepted[q])
        BY <1>1, <1>4 DEF Produce, Ordered, Handed
      <4>2. ASSUME NEW i \in DOMAIN topic[q], topic[q][i] = r PROVE FALSE
        <5>1. i \in 1..Len(topic[q])
          BY <1>2
        <5>2. PICK x \in 1..(Taken(q) + batch[q]) : r = accepted[q][x]
          BY <1>1, <4>2, <5>1 DEF Ordered, Within
        <5>3. x \in DOMAIN accepted[q]
          <6>1. /\ Len(accepted[q]) \in Nat /\ Len(queue[q]) \in 0..Len(accepted[q])
                /\ batch[q] \in 0..Len(queue[q])
            BY <1>1, <1>2 DEF Ordered
          <6>2. Taken(q) + batch[q] \in 0..Len(accepted[q])
            BY <6>1, TakenFromFront DEF Taken
          <6> QED
            BY <1>2, <6>1, <6>2
        <5> QED
          BY <4>1, <5>2, <5>3 DEF Occurring
      <4> QED
        BY <4>2 DEF Places
    <3>4. Cardinality({}) = 0
      BY FS_EmptySet
    <3>5. ASSUME NEW i \in 1..Len(queue'[q])
          PROVE  Cardinality(Places(topic[q], queue'[q][i])) <= IF i <= batch[q] THEN attempts[q] ELSE 0
      <4>1. CASE i \in 1..Len(queue[q])
        <5>1. queue'[q][i] = queue[q][i]
          BY <3>2, <4>1
        <5>2. Cardinality(Places(topic[q], queue[q][i])) <= IF i <= batch[q] THEN attempts[q] ELSE 0
          BY <1>1, <4>1 DEF Bounded
        <5> QED
          BY <5>1, <5>2
      <4>2. CASE i = Len(queue[q]) + 1
        <5>1. queue'[q][i] = r
          BY <3>2, <4>2
        <5>2. Cardinality(Places(topic[q], queue'[q][i])) = 0
          BY <3>3, <3>4, <5>1
        <5>3. ~(i <= batch[q])
          BY <1>2, <4>2
        <5> QED
          BY <5>2, <5>3
      <4> QED
        BY <1>2, <3>2, <4>1, <4>2
    <3> QED
      BY <1>1, <3>1, <3>5 DEF Bounded
  <2> QED
    BY <2>1, <2>2
<1>5. ASSUME NEW p \in Partition, StartBatch(p) PROVE Bounded(q)'
  <2>1. CASE p # q
    BY <1>1, <1>2, <1>5, <2>1, OthersStayBounded DEF StartBatch
  <2>2. CASE p = q
    <3>1. batch[q] = 0 /\ attempts[q] = 0 /\ batch'[q] \in 1..Len(queue[q])
          /\ UNCHANGED <<queue, attempts, topic>>
      BY <1>1, <1>2, <1>5, <2>2 DEF StartBatch, Bounded
    <3> QED
      BY <1>1, <1>2, <3>1 DEF Bounded
  <2> QED
    BY <2>1, <2>2
<1>6. ASSUME NEW p \in Partition, Deliver(p) PROVE Bounded(q)'
  <2>1. CASE p # q
    BY <1>1, <1>2, <1>6, <2>1, OthersStayBounded DEF Deliver, EndBatch
  <2>2. CASE p = q
    <3>1. topic'[q] = IF TRUE THEN topic[q] \o Batch(q) ELSE topic[q]
      BY <1>2, <1>6, <2>2 DEF Deliver
    <3> QED
      BY <1>1, <1>6, <2>2, <3>1, EndBatchStaysBounded DEF Deliver
  <2> QED
    BY <2>1, <2>2
<1>7. ASSUME NEW p \in Partition, NEW stored \in BOOLEAN, Fail(p, stored) PROVE Bounded(q)'
  <2>1. CASE p # q
    BY <1>1, <1>2, <1>7, <2>1, OthersStayBounded DEF Fail, Retry, Drop, EndBatch
  <2>2. CASE p = q
    <3>1. topic'[q] = IF stored THEN topic[q] \o Batch(q) ELSE topic[q]
      BY <1>2, <1>7, <2>2 DEF Fail
    <3>2. CASE Retry(q)
      <4>1. /\ UNCHANGED <<queue, batch>> /\ attempts'[q] = attempts[q] + 1
            /\ attempts[q] + 1 < MaxAttempts /\ batch[q] > 0 /\ attempts[q] \in Nat
        BY <1>2, <1>7, <2>2, <3>2 DEF Fail, Retry
      <4>2. ASSUME NEW i \in 1..Len(queue[q])
            PROVE  Cardinality(Places(topic'[q], queue[q][i])) <= IF i <= batch[q] THEN attempts[q] + 1 ELSE 0
        <5> DEFINE r == queue[q][i]
                   n == Cardinality(Places(topic[q], r))
                   m == Cardinality(Places(topic'[q], r))
        <5>1. r \in Request
          BY <1>2
        <5>2. /\ n \in Nat /\ m \in Nat /\ m <= n + 1
              /\ (\A j \in 1..batch[q] : queue[q][j] # r) => m = n
          BY <1>1, <3>1, <5>1, StoringAddsOne
        <5>3. n <= IF i <= batch[q] THEN attempts[q] ELSE 0
          BY <1>1 DEF Bounded
        <5>4. CASE i <= batch[q]
          <6> HIDE DEF n, m
          <6> QED
            BY <4>1, <5>2, <5>3, <5>4 DEF m
        <5>5. CASE ~(i <= batch[q])
          <6>1. ASSUME NEW j \in 1..batch[q], queue[q][j] = r PROVE FALSE
            <7>1. j \in 1..Len(queue[q]) /\ j # i
              BY <1>2, <5>5
            <7> QED
              BY <1>1, <6>1, <7>1, QueueIsInjective
          <6> HIDE DEF n, m
          <6> QED
            BY <5>2, <5>3, <5>5, <6>1 DEF m
        <5> QED
          BY <5>4, <5>5
      <4>3. ASSUME NEW r \in Request PROVE Cardinality(Places(topic'[q], r)) <= MaxAttempts
        <5>1. /\ Cardinality(Places(topic[q], r)) \in Nat /\ Cardinality(Places(topic'[q], r)) \in Nat
              /\ (\A j \in 1..batch[q] : queue[q][j] # r) => Places(topic'[q], r) = Places(topic[q], r)
          BY <1>1, <3>1, StoringAddsOne
        <5>2. CASE \A j \in 1..batch[q] : queue[q][j] # r
          BY <1>1, <5>1, <5>2 DEF Bounded
        <5>3. ASSUME NEW j \in 1..batch[q], queue[q][j] = r
              PROVE  Cardinality(Places(topic'[q], r)) <= MaxAttempts
          <6>1. j \in 1..Len(queue[q]) /\ j <= batch[q]
            BY <1>2
          <6>2. Cardinality(Places(topic'[q], r)) <= attempts[q] + 1
            BY <4>2, <5>3, <6>1
          <6> QED
            BY <1>2, <4>1, <5>1, <6>2
        <5> QED
          BY <5>2, <5>3
      <4>4. /\ queue'[q] = queue[q] /\ batch'[q] = batch[q] /\ batch[q] # 0
        BY <1>2, <4>1
      <4> QED
        BY <4>1, <4>2, <4>3, <4>4 DEF Bounded
    <3>3. CASE Drop(q)
      BY <1>1, <1>7, <2>2, <3>1, <3>3, EndBatchStaysBounded DEF Drop
    <3> QED
      BY <1>7, <2>2, <3>2, <3>3 DEF Fail
  <2> QED
    BY <2>1, <2>2
<1>8. CASE Exit \/ Crash
  <2>1. /\ queue'[q] = <<>> /\ batch'[q] = 0 /\ attempts'[q] = 0 /\ UNCHANGED topic
    BY <1>8 DEF Exit, Crash, NoQueue, Zeros
  <2>2. Len(queue'[q]) = 0 /\ 0 < MaxAttempts
    BY <1>2, <2>1
  <2> QED
    BY <1>1, <2>1, <2>2 DEF Bounded
<1> QED
  BY <1>3, <1>4, <1>5, <1>6, <1>7, <1>8
  DEF Next, Handle, Write, Post, Reject, Answer, Sigterm, Drained, Restart, producer

LEMMA RoutedStep == TypeOK /\ AllOrdered /\ Routed /\ [Next]_producer => Routed'
<1> SUFFICES ASSUME TypeOK, AllOrdered, Routed, [Next]_producer PROVE Routed'
  OBVIOUS
<1>1. CASE UNCHANGED accepted
  BY <1>1 DEF Routed
<1>2. ASSUME NEW r \in Request, NEW p \in Partition, Produce(r, p) PROVE Routed'
  <2>1. \A q \in Partition : r \notin Occurring(accepted[q])
    BY <1>2 DEF Produce, AllOrdered, Ordered, Handed
  <2>2. accepted'[p] = Append(accepted[p], r) /\ accepted[p] \in Seq(Request)
        /\ \A q \in Partition \ {p} : accepted'[q] = accepted[q]
    BY <1>2 DEF Produce, TypeOK
  <2>3. Occurring(accepted'[p]) = Occurring(accepted[p]) \union {r}
    BY <2>2, OccurringAppend
  <2> QED
    BY <2>1, <2>2, <2>3 DEF Routed
<1> QED
  BY <1>1, <1>2
  DEF Next, Handle, Write, Post, Reject, Answer, StartBatch, Deliver, Fail, Sigterm, Drained, Exit, Crash,
      Restart, producer

-----------------------------------------------------------------------------
(* The invariants together, for a specification that has this one as a part. *)

Whole == TypeOK /\ AnswersAgree /\ AllOrdered /\ AllBounded /\ Routed

LEMMA WholeInit == Init => Whole
<1> SUFFICES ASSUME Init PROVE Whole
  OBVIOUS
<1>1. TypeOK
  BY InitType
<1>2. AnswersAgree
  BY DEF Init, AnswersAgree, Accounted, Queued, InTopic, NoQueue, Occurring
<1>3. AllOrdered
  BY DEF Init, AllOrdered, Ordered, NoQueue, Zeros, Injective, Within, InOrder, Occurring, Taken
<1>4. \A p \in Partition : /\ queue[p] = <<>> /\ topic[p] = <<>> /\ accepted[p] = <<>>
                          /\ batch[p] = 0 /\ attempts[p] = 0
  BY DEF Init, NoQueue, Zeros
<1>5. AllBounded
  <2>1. Cardinality({}) = 0 /\ MaxAttempts \in Nat \ {0}
    BY FS_EmptySet, ProducerAssumption
  <2>2. \A p \in Partition : \A r : Places(topic[p], r) = {}
    BY <1>4 DEF Places
  <2>3. \A p \in Partition : Len(queue[p]) = 0
    BY <1>4
  <2>4. ASSUME NEW p \in Partition PROVE Bounded(p)
    <3>1. \A r \in Request : Cardinality(Places(topic[p], r)) <= MaxAttempts
      <4> SUFFICES ASSUME NEW r \in Request PROVE Cardinality(Places(topic[p], r)) <= MaxAttempts
        OBVIOUS
      <4>1. Cardinality(Places(topic[p], r)) = 0
        BY <2>1, <2>2
      <4> QED
        BY <2>1, <4>1
    <3>2. \A i \in 1..Len(queue[p]) : FALSE
      BY <2>3
    <3> QED
      BY <1>4, <2>1, <3>1, <3>2 DEF Bounded
  <2> QED
    BY <2>4 DEF AllBounded
<1>6. Routed
  BY <1>4 DEF Routed, Occurring
<1> QED
  BY <1>1, <1>2, <1>3, <1>5, <1>6 DEF Whole

LEMMA WholeStep == Whole /\ [Next]_producer => Whole'
BY TypeStep, AnswersAgreeStep, OrderedStep, BoundedStep, RoutedStep DEF Whole

\* What is stored in a partition was accepted for it.
LEMMA StoredWasAccepted ==
    ASSUME Whole, NEW p \in Partition, NEW i \in DOMAIN topic[p]
    PROVE  topic[p][i] \in Occurring(accepted[p])
<1>1. /\ topic[p] \in Seq(Request) /\ accepted[p] \in Seq(Request) /\ Len(accepted[p]) \in Nat
      /\ Len(queue[p]) \in Nat /\ batch[p] \in Nat /\ batch[p] <= Len(queue[p])
  BY DEF Whole, TypeOK
<1>2. Ordered(p)
  BY DEF Whole, AllOrdered
<1>3. PICK x \in 1..(Taken(p) + batch[p]) : topic[p][i] = accepted[p][x]
  BY <1>1, <1>2 DEF Ordered, Within
<1>4. /\ Len(queue[p]) \in 0..Len(accepted[p]) /\ batch[p] \in 0..Len(queue[p])
  BY <1>1, <1>2 DEF Ordered
<1>5. Taken(p) + batch[p] \in 0..Len(accepted[p])
  BY <1>1, <1>4, TakenFromFront DEF Taken
<1>6. x \in DOMAIN accepted[p]
  BY <1>1, <1>5
<1> QED
  BY <1>3, <1>6 DEF Occurring
=============================================================================
