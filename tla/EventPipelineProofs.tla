------------------------ MODULE EventPipelineProofs ------------------------
(***************************************************************************)
(* From a click to a counter for any number of partitions, clicks,         *)
(* clients, attempts and faults.  The invariants of the two halves hold of *)
(* the composition: a step of the producer is a growth of the consumer's   *)
(* log, and the consumer's steps leave the producer alone.  The rest is    *)
(* counting: clicks against positions of the topic, and positions against  *)
(* clicks and attempts.                                                    *)
(***************************************************************************)
EXTENDS EventPipeline, SequenceTheorems, FiniteSetTheorems, TLAPS

\* The two halves with what has been proved of them.  MaxLog bounds Publish alone, which
\* is no step of this module.
PP == INSTANCE EventProducerProofs
CP == INSTANCE PersonalizerProofs WITH Message <- Events, MaxLog <- 0

-----------------------------------------------------------------------------
(* The halves as EventPipeline and as their proofs name them. *)

\* What the two proof modules assume of their constants.
LEMMA HalvesAssumptions ==
    /\ MaxAttempts \in Nat \ {0}
    /\ RecentLimit \in Int
    /\ TTLDays \in Int
    /\ Empty \notin IP \union Query \union Value
    /\ Malformed \notin CP!SearchEvent
    /\ Events \subseteq CP!SearchEvent \union {Malformed}
    /\ MaxRetries \in Nat
    /\ FaultKinds \subseteq CP!Faults
    /\ MaxFaults \in Nat
    /\ 0 \in Nat
    /\ MaxWipes \in Nat
<1>1. CP!SearchEvent = Consumer!SearchEvent /\ CP!Faults = Consumer!Faults
  BY DEF CP!SearchEvent, Consumer!SearchEvent, CP!Faults, Consumer!Faults
<1>2. Events \subseteq CP!SearchEvent
  BY PipelineAssumption DEF Events, CP!SearchEvent
<1> QED
  BY <1>1, <1>2, PipelineAssumption

\* The operators of the standard module that the two proof modules extend.
LEMMA FiniteIsFinite ==
    \A S : /\ CP!IsFiniteSet(S) <=> IsFiniteSet(S)
           /\ CP!Cardinality(S) = Cardinality(S)
           /\ PP!Cardinality(S) = Cardinality(S)
<1>1. ASSUME NEW S PROVE CP!IsFiniteSet(S) <=> IsFiniteSet(S)
  BY DEF CP!IsFiniteSet, IsFiniteSet
<1>2. ASSUME NEW S PROVE CP!Cardinality(S) = Cardinality(S)
  BY DEF CP!Cardinality, Cardinality
<1>3. ASSUME NEW S PROVE PP!Cardinality(S) = Cardinality(S)
  BY DEF PP!Cardinality, Cardinality
<1> QED
  BY <1>1, <1>2, <1>3

LEMMA InitIsInit == Init => PP!Init /\ CP!Init
<1>1. Producer!Init => PP!Init
  BY DEF Producer!Init, PP!Init, Producer!NoQueue, PP!NoQueue, Producer!Zeros, PP!Zeros
<1>2. Consumer!Init => CP!Init
  BY DEF Consumer!Init, CP!Init, Consumer!Nothing, CP!Nothing, Consumer!NoProfile, CP!NoProfile,
         Consumer!NoCounts, CP!NoCounts, Consumer!HashKeys, CP!HashKeys, Consumer!NotYet, CP!NotYet
<1> QED
  BY <1>1, <1>2 DEF Init

LEMMA ProducerNextIsNext == Producer!Next => PP!Next
BY DEF Producer!Next, PP!Next, Producer!Post, PP!Post, Producer!Handle, PP!Handle,
       Producer!Reject, PP!Reject, Producer!Produce, PP!Produce, Producer!Answer, PP!Answer,
       Producer!Write, PP!Write,
       Producer!StartBatch, PP!StartBatch, Producer!Deliver, PP!Deliver, Producer!Fail, PP!Fail,
       Producer!Retry, PP!Retry, Producer!Drop, PP!Drop, Producer!EndBatch, PP!EndBatch,
       Producer!Batch, PP!Batch, Producer!Rest, PP!Rest, Producer!Occurring, PP!Occurring,
       Producer!Queued, PP!Queued, Producer!Sigterm, PP!Sigterm, Producer!Drained, PP!Drained,
       Producer!Exit, PP!Exit, Producer!Flushed, PP!Flushed, Producer!CutOff, PP!CutOff,
       Producer!NoQueue, PP!NoQueue, Producer!Zeros, PP!Zeros, Producer!Crash, PP!Crash,
       Producer!Restart, PP!Restart, Producer!writer, PP!writer

LEMMA CommandsAgree ==
    /\ \A e : Consumer!UpdateCommands(e) = CP!UpdateCommands(e)
    /\ \A prof, c : Consumer!Execute(prof, c) = CP!Execute(prof, c)
<1>1. \A e : Consumer!UpdateCommands(e) = CP!UpdateCommands(e)
  BY DEF Consumer!UpdateCommands, CP!UpdateCommands, Consumer!Increments, CP!Increments,
         Consumer!Increment, CP!Increment, Consumer!Remember, CP!Remember, Consumer!Refresh,
         CP!Refresh, Consumer!Refreshed, CP!Refreshed, Consumer!Cmd, CP!Cmd
<1>2. \A prof, k : Consumer!DropKey(prof, k) = CP!DropKey(prof, k)
  BY DEF Consumer!DropKey, CP!DropKey, Consumer!NoCounts, CP!NoCounts
<1>3. \A prof, k : Consumer!KeyExists(prof, k) = CP!KeyExists(prof, k)
  BY DEF Consumer!KeyExists, CP!KeyExists
<1>4. \A n : Consumer!Kept(n) = CP!Kept(n)
  BY DEF Consumer!Kept, CP!Kept
<1>5. \A prof : Consumer!LTrim(prof) = CP!LTrim(prof)
  BY <1>2, <1>4 DEF Consumer!LTrim, CP!LTrim
<1>6. \A prof, k : Consumer!Expire(prof, k) = CP!Expire(prof, k)
  BY <1>2, <1>3 DEF Consumer!Expire, CP!Expire
<1>7. \A prof, c : Consumer!Execute(prof, c) = CP!Execute(prof, c)
  BY <1>5, <1>6 DEF Consumer!Execute, CP!Execute
<1> QED
  BY <1>1, <1>7

LEMMA ConsumerStepIsStep == ConsumerStep => CP!Step
<1> SUFFICES ASSUME ConsumerStep PROVE CP!Step
  OBVIOUS
<1>1. Consumer!Useful = CP!Useful /\ Consumer!InHand = CP!InHand /\ Consumer!Nothing = CP!Nothing
  BY DEF Consumer!Useful, CP!Useful, Consumer!InHand, CP!InHand, Consumer!Nothing, CP!Nothing
<1>2. Consumer!Pipeline = CP!Pipeline
  BY <1>1, CommandsAgree DEF Consumer!Pipeline, CP!Pipeline
<1>3. Consumer!Loop => CP!Loop
  <2>1. Consumer!RunCommand => CP!RunCommand
    BY <1>1, <1>2, CommandsAgree DEF Consumer!RunCommand, CP!RunCommand
  <2>2. Consumer!UpdateDone => CP!UpdateDone
    BY <1>2 DEF Consumer!UpdateDone, CP!UpdateDone, Consumer!redis, CP!redis
  <2>3. Consumer!Start \/ Consumer!Commit \/ Consumer!Stop => CP!Start \/ CP!Commit \/ CP!Stop
    BY <1>1 DEF Consumer!Start, CP!Start, Consumer!StartAt, CP!StartAt, Consumer!Commit, CP!Commit,
       Consumer!CommitOffset, CP!CommitOffset, Consumer!LetGo, CP!LetGo, Consumer!Fault, CP!Fault,
       Consumer!Stop, CP!Stop, Consumer!redis, CP!redis
  <2>4. \A p \in Partition : Consumer!Fetch(p) \/ Consumer!FetchCancelled(p)
                            => CP!Fetch(p) \/ CP!FetchCancelled(p)
    BY <1>1 DEF Consumer!Fetch, CP!Fetch, Consumer!FetchCancelled, CP!FetchCancelled,
       Consumer!redis, CP!redis
  <2> QED
    BY <2>1, <2>2, <2>3, <2>4 DEF Consumer!Loop, CP!Loop
<1>4. \A ip \in IP : Consumer!Reset(ip) => CP!Reset(ip)
  BY <1>1 DEF Consumer!Reset, CP!Reset, Consumer!NoProfile, CP!NoProfile, Consumer!NoCounts,
     CP!NoCounts, Consumer!HashKeys, CP!HashKeys, Consumer!HowFar, CP!HowFar, Consumer!Greater,
     CP!Greater, Consumer!consumer, CP!consumer
<1>5. \A ip \in IP : \A k \in Consumer!ProfileKeys :
         Consumer!ExpireKey(ip, k) => CP!ExpireKey(ip, k)
  BY DEF Consumer!ExpireKey, CP!ExpireKey, Consumer!DropKey, CP!DropKey, Consumer!NoCounts,
     CP!NoCounts, Consumer!consumer, CP!consumer
<1>6. Consumer!ProfileKeys = CP!ProfileKeys
  BY DEF Consumer!ProfileKeys, CP!ProfileKeys, Consumer!HashKeys, CP!HashKeys
<1>7. Consumer!Resend \/ Consumer!GiveUp \/ Consumer!Sigterm \/ Consumer!Crash \/ Consumer!Rejoin
      => CP!Resend \/ CP!GiveUp \/ CP!Sigterm \/ CP!Crash \/ CP!Rejoin
  BY <1>1 DEF Consumer!Resend, CP!Resend, Consumer!GiveUp, CP!GiveUp, Consumer!Sigterm, CP!Sigterm,
     Consumer!Crash, CP!Crash, Consumer!Rejoin, CP!Rejoin, Consumer!Fault, CP!Fault,
     Consumer!LetGo, CP!LetGo, Consumer!StartAt, CP!StartAt, Consumer!redis, CP!redis
<1> QED
  BY <1>3, <1>4, <1>5, <1>6, <1>7 DEF ConsumerStep, CP!Step

\* What the producer appends, and nothing else, is new in the consumer's log.
LEMMA TopicGrows ==
    ASSUME PP!TypeOK, PP!TypeOK', [PP!Next]_(PP!producer)
    PROVE  \A p \in Partition, o \in Nat \ {0} :
              o <= Len(topic[p]) => o <= Len(topic'[p]) /\ topic'[p][o] = topic[p][o]
<1> SUFFICES ASSUME NEW p \in Partition, NEW o \in Nat \ {0}, o <= Len(topic[p])
             PROVE  o <= Len(topic'[p]) /\ topic'[p][o] = topic[p][o]
  OBVIOUS
<1>1. topic[p] \in Seq(Request) /\ topic'[p] \in Seq(Request)
  BY DEF PP!TypeOK
<1>2. CASE topic'[p] = topic[p]
  BY <1>2
<1>3. CASE topic'[p] = topic[p] \o PP!Batch(p)
  <2>1. PP!Batch(p) \in Seq(Request)
    <3>1. queue[p] \in Seq(Request) /\ batch[p] \in Nat /\ batch[p] <= Len(queue[p])
      BY DEF PP!TypeOK
    <3> QED
      BY <3>1 DEF PP!Batch
  <2> QED
    BY <1>1, <1>3, <2>1, ConcatProperties
<1>4. topic'[p] = topic[p] \/ topic'[p] = topic[p] \o PP!Batch(p)
  <2>1. topic \in [Partition -> Seq(Request)]
    BY DEF PP!TypeOK
  <2> QED
    BY <2>1 DEF PP!Next, PP!Post, PP!Handle, PP!Reject, PP!Produce, PP!Answer, PP!Write, PP!StartBatch,
       PP!Deliver, PP!Fail, PP!Sigterm, PP!Drained, PP!Exit, PP!Crash, PP!Restart, PP!producer
<1> QED
  BY <1>2, <1>3, <1>4

LEMMA ProducerStepGrows ==
    ASSUME PP!TypeOK, PP!TypeOK', [PP!Next]_(PP!producer), UNCHANGED consumed
    PROVE  CP!Grow
<1>1. /\ topic \in [Partition -> Seq(Request)] /\ topic' \in [Partition -> Seq(Request)]
      /\ EventOf \in [Request -> Events]
  BY PipelineAssumption DEF PP!TypeOK, Events
<1>2. log' \in [Partition -> Seq(Events)]
  <2>1. \A p \in Partition : [i \in DOMAIN topic'[p] |-> EventOf[topic'[p][i]]] \in Seq(Events)
    BY <1>1
  <2> QED
    BY <2>1 DEF log
<1>3. \A p \in Partition, o \in Nat \ {0} :
         o <= Len(log[p]) => o <= Len(log'[p]) /\ log'[p][o] = log[p][o]
  <2> SUFFICES ASSUME NEW p \in Partition, NEW o \in Nat \ {0}, o <= Len(log[p])
               PROVE  o <= Len(log'[p]) /\ log'[p][o] = log[p][o]
    OBVIOUS
  <2>1. Len(log[p]) = Len(topic[p]) /\ Len(log'[p]) = Len(topic'[p])
    BY <1>1 DEF log
  <2>2. o <= Len(topic'[p]) /\ topic'[p][o] = topic[p][o]
    BY <2>1, TopicGrows
  <2>3. o \in DOMAIN topic[p] /\ o \in DOMAIN topic'[p]
    BY <1>1, <2>1, <2>2
  <2> QED
    BY <2>1, <2>2, <2>3 DEF log
<1>4. UNCHANGED <<committed, CP!consumer, CP!redis, counted, refused, faults>>
  BY DEF consumed, CP!consumer, CP!redis
<1> QED
  BY <1>2, <1>3, <1>4 DEF CP!Grow

-----------------------------------------------------------------------------
(* The invariant. *)

IInv == PP!Whole /\ CP!Whole

LEMMA IInvInit ==
    ASSUME IsFiniteSet(Partition)
    PROVE  Init => IInv
<1>1. PP!Init => PP!Whole
  BY HalvesAssumptions, PP!WholeInit
<1>2. CP!Init => CP!Whole
  BY HalvesAssumptions, FiniteIsFinite, CP!WholeInit
<1> QED
  BY <1>1, <1>2, InitIsInit DEF IInv

LEMMA IInvStep ==
    ASSUME IsFiniteSet(Partition), TTLDays > 0
    PROVE  IInv /\ [Next]_vars => IInv'
<1> SUFFICES ASSUME IInv, [Next]_vars PROVE IInv'
  OBVIOUS
<1>1. PP!Whole /\ [PP!Next]_(PP!producer) => PP!Whole'
  BY HalvesAssumptions, PP!WholeStep
<1>2. CP!Whole /\ CP!Step => CP!Whole'
  BY HalvesAssumptions, FiniteIsFinite, CP!WholeStep
<1>3. CASE ProducerStep
  <2>1. [PP!Next]_(PP!producer) /\ UNCHANGED consumed
    BY <1>3, ProducerNextIsNext DEF ProducerStep
  <2>2. PP!Whole'
    BY <1>1, <2>1 DEF IInv
  <2>3. CP!Grow
    BY <2>1, <2>2, ProducerStepGrows DEF IInv, PP!Whole
  <2> QED
    BY <1>2, <2>2, <2>3 DEF IInv, CP!Step
<1>4. CASE ConsumerStep
  <2>1. UNCHANGED PP!producer
    BY <1>4 DEF ConsumerStep, produced, PP!producer, PP!writer
  <2>2. CP!Step
    BY <1>4, ConsumerStepIsStep
  <2> QED
    BY <1>1, <1>2, <2>1, <2>2 DEF IInv
<1>5. CASE UNCHANGED vars
  <2>1. UNCHANGED PP!producer
    BY <1>5 DEF vars, produced, PP!producer, PP!writer
  <2>2. UNCHANGED CP!vars
    BY <1>5 DEF vars, consumed, CP!vars, CP!consumer, CP!redis, log
  <2> QED
    BY <1>1, <1>2, <2>1, <2>2 DEF IInv, CP!Step
<1> QED
  BY <1>3, <1>4, <1>5 DEF Next

LEMMA InvariantHolds ==
    ASSUME IsFiniteSet(Partition), TTLDays > 0
    PROVE  Spec => []IInv
<1>1. Init => IInv
  BY IInvInit
<1>2. IInv /\ [Next]_vars => IInv'
  BY IInvStep
<1> QED
  BY <1>1, <1>2, PTL DEF Spec

-----------------------------------------------------------------------------
(* Counting. *)

\* A set that maps one to one into a finite set has no more members.
LEMMA NoMoreThan ==
    ASSUME NEW S, NEW T, IsFiniteSet(T), NEW f \in [S -> T],
           \A a, b \in S : f[a] = f[b] => a = b
    PROVE  Cardinality(S) \in Nat /\ Cardinality(T) \in Nat /\ Cardinality(S) <= Cardinality(T)
<1>1. f \in Injection(S, T)
  BY DEF Injection, IsInjective
<1> QED
  BY <1>1, FS_Injection, FS_CardinalityType

\* Which copy of its event position o of a partition holds.
Earlier(t, o) == { i \in 1..o : t[i] = t[o] }
Rank(t, o) == Cardinality(Earlier(t, o))

LEMMA RankIsStrict ==
    ASSUME NEW S, NEW t \in Seq(S), NEW o \in 1..Len(t)
    PROVE  /\ Rank(t, o) \in 1..Cardinality(PP!Places(t, t[o]))
           /\ \A u \in 1..Len(t) : t[u] = t[o] /\ Rank(t, u) = Rank(t, o) => u = o
<1> DEFINE all == PP!Places(t, t[o])
<1>1. DOMAIN t = 1..Len(t) /\ Len(t) \in Nat
  OBVIOUS
<1>2. IsFiniteSet(1..Len(t))
  BY <1>1, FS_Interval
<1>3. all \in SUBSET (1..Len(t))
  BY <1>1 DEF PP!Places
<1>4. IsFiniteSet(all) /\ Cardinality(all) \in Nat
  BY <1>2, <1>3, FS_Subset, FS_CardinalityType
<1>5. \A u \in 1..Len(t) : t[u] = t[o] => Earlier(t, u) \in SUBSET all /\ u \in Earlier(t, u)
  BY <1>1 DEF PP!Places, Earlier
<1>6. \A u \in 1..Len(t) : t[u] = t[o] =>
         IsFiniteSet(Earlier(t, u)) /\ Rank(t, u) \in Nat /\ Rank(t, u) <= Cardinality(all)
  BY <1>4, <1>5, FS_Subset, FS_CardinalityType DEF Rank
<1>7. Rank(t, o) # 0
  BY <1>5, <1>6, FS_EmptySet DEF Rank
<1>8. ASSUME NEW u \in 1..Len(t), NEW w \in 1..Len(t), t[u] = t[o], t[w] = t[o], u < w
      PROVE  Rank(t, u) # Rank(t, w)
  <2>1. Earlier(t, u) \in SUBSET Earlier(t, w)
    BY <1>8 DEF Earlier
  <2>2. w \in Earlier(t, w) /\ w \notin Earlier(t, u)
    BY <1>8 DEF Earlier
  <2> QED
    BY <1>6, <1>8, <2>1, <2>2, FS_Subset DEF Rank
<1>9. \A u \in 1..Len(t) : t[u] = t[o] /\ Rank(t, u) = Rank(t, o) => u = o
  BY <1>8
<1> QED
  BY <1>4, <1>6, <1>7, <1>9

\* What the topic's position q holds is what the consumer reads there.
LEMMA CarryingPosition ==
    ASSUME PP!TypeOK, NEW ip \in IP, NEW k \in CP!HashKeys, NEW v \in Value, NEW q
    PROVE  q \in CP!Carrying(ip, k, v) <=>
              /\ q = <<q[1], q[2]>> /\ q[1] \in Partition /\ q[2] \in 1..Len(topic[q[1]])
              /\ topic[q[1]][q[2]] \in Request
              /\ EventOf[topic[q[1]][q[2]]].ip = ip
              /\ EventOf[topic[q[1]][q[2]]][k] = v
<1>1. topic \in [Partition -> Seq(Request)]
  BY DEF PP!TypeOK
<1>2. \A p \in Partition : Len(log[p]) = Len(topic[p])
  BY <1>1 DEF log
<1>3. q \in CP!Published
        <=> q = <<q[1], q[2]>> /\ q[1] \in Partition /\ q[2] \in 1..Len(topic[q[1]])
  BY <1>2, HalvesAssumptions, CP!PublishedMember
<1>4. ASSUME q[1] \in Partition, q[2] \in 1..Len(topic[q[1]])
      PROVE  /\ topic[q[1]][q[2]] \in Request
             /\ log[q[1]][q[2]] = EventOf[topic[q[1]][q[2]]]
             /\ log[q[1]][q[2]] \in CP!Useful
  <2>1. topic[q[1]][q[2]] \in Request /\ log[q[1]][q[2]] = EventOf[topic[q[1]][q[2]]]
    BY <1>1, <1>4 DEF log
  <2>2. /\ EventOf[topic[q[1]][q[2]]] \in Events
        /\ EventOf[topic[q[1]][q[2]]].ip \in IP /\ EventOf[topic[q[1]][q[2]]].query \in Query
    BY <2>1, PipelineAssumption DEF Events
  <2>3. Events \subseteq CP!SearchEvent
    BY PipelineAssumption DEF Events, CP!SearchEvent
  <2> QED
    BY <2>1, <2>2, <2>3, HalvesAssumptions DEF CP!Useful
<1> QED
  BY <1>3, <1>4 DEF CP!Carrying

LEMMA CarryingFinite ==
    ASSUME IsFiniteSet(Partition), IInv,
           NEW ip \in IP, NEW k \in CP!HashKeys, NEW v \in Value,
           NEW S \in SUBSET CP!Carrying(ip, k, v)
    PROVE  IsFiniteSet(S)
<1>1. CP!TypeOK
  BY DEF IInv, CP!Whole, CP!IInv
<1>2. S \subseteq CP!Published
  BY DEF CP!Carrying
<1> QED
  BY <1>1, <1>2, HalvesAssumptions, FiniteIsFinite, CP!PublishedFinite

LEMMA HashKeysAgree == Consumer!HashKeys = CP!HashKeys
BY DEF Consumer!HashKeys, CP!HashKeys

\* Once everything is quiet a recorded click without a mishap has a place in the topic
\* that was counted: each click its own.
LEMMA ClicksCountedHolds ==
    ASSUME IsFiniteSet(Partition), IInv
    PROVE  ClicksCounted
<1> SUFFICES ASSUME Quiet, NEW ip \in IP, wipes[ip] = 0, NEW k \in CP!HashKeys, NEW v \in Value
             PROVE  Cardinality(Clicks(ip, k, v) \ Mishaps) <= profile[ip].hash[k][v]
  BY HashKeysAgree DEF ClicksCounted
<1> DEFINE C == Clicks(ip, k, v) \ Mishaps
           D == CP!Carrying(ip, k, v) \ refused
<1>1. topic \in [Partition -> Seq(Request)] /\ PP!TypeOK
  BY DEF IInv, PP!Whole, PP!TypeOK
<1>2. \A p \in Partition : committed[p] = Len(log[p])
  BY <1>1 DEF Quiet, log
<1>3. Cardinality(D) <= profile[ip].hash[k][v]
  BY <1>2, HalvesAssumptions, FiniteIsFinite, CP!CaughtUpIsCounted DEF IInv
<1>4. ASSUME NEW r \in C
      PROVE  \E q \in D : topic[q[1]][q[2]] = r
  <2>1. /\ r \in Request /\ request[r] = "recorded" /\ EventOf[r].ip = ip /\ EventOf[r][k] = v
        /\ r \notin dropped /\ r \notin lost /\ Copies(r) \cap refused = {}
    BY <1>4 DEF Clicks, Mishaps
  <2>2. r \in PP!Accounted
    BY <2>1 DEF IInv, PP!Whole, PP!AnswersAgree
  <2>3. r \notin PP!Queued
    BY DEF Quiet, PP!Queued, PP!Occurring
  <2>4. PICK p \in Partition : \E n \in DOMAIN topic[p] : topic[p][n] = r
    BY <2>1, <2>2, <2>3 DEF PP!Accounted, PP!InTopic, PP!Occurring
  <2>5. PICK i \in DOMAIN topic[p] : topic[p][i] = r
    BY <2>4
  <2>6. <<p, i>> \in Copies(r)
    BY <2>5 DEF Copies
  <2>7. i \in 1..Len(topic[p])
    BY <1>1
  <2>8. <<p, i>> \in CP!Carrying(ip, k, v)
    BY <1>1, <2>1, <2>5, <2>7, CarryingPosition
  <2> QED
    BY <2>1, <2>5, <2>6, <2>8
<1> DEFINE f == [r \in C |-> CHOOSE q \in D : topic[q[1]][q[2]] = r]
<1>5. \A r \in C : f[r] \in D /\ topic[f[r][1]][f[r][2]] = r
  BY <1>4
<1>6. f \in [C -> D] /\ \A a, b \in C : f[a] = f[b] => a = b
  BY <1>5
<1>7. IsFiniteSet(D)
  BY CarryingFinite
<1>8. profile[ip].hash[k][v] \in Nat
  <2>1. CP!TypeOK
    BY DEF IInv, CP!Whole, CP!IInv
  <2> QED
    BY <2>1 DEF CP!TypeOK, CP!ProfileType
<1> HIDE DEF C, D, f
<1>9. Cardinality(C) \in Nat /\ Cardinality(D) \in Nat /\ Cardinality(C) <= Cardinality(D)
  BY <1>6, <1>7, NoMoreThan
<1>10. Cardinality(C) <= profile[ip].hash[k][v]
  BY <1>3, <1>8, <1>9
<1> QED
  BY <1>10 DEF C

\* A request is stored in one partition only, so the positions that hold it are told
\* apart by their rank.
LEMMA PositionOfCopy ==
    ASSUME PP!Whole, NEW p \in Partition, NEW q \in Partition,
           NEW i \in 1..Len(topic[p]), NEW j \in 1..Len(topic[q]),
           topic[p][i] = topic[q][j], Rank(topic[p], i) = Rank(topic[q], j)
    PROVE  p = q /\ i = j
<1>1. topic[p] \in Seq(Request) /\ topic[q] \in Seq(Request)
  BY DEF PP!Whole, PP!TypeOK
<1>2. topic[p][i] \in PP!Occurring(accepted[p]) /\ topic[q][j] \in PP!Occurring(accepted[q])
  BY <1>1, HalvesAssumptions, PP!StoredWasAccepted
<1>3. topic[p][i] \in Request
  BY <1>1
<1>4. p = q
  BY <1>2, <1>3 DEF PP!Whole, PP!Routed
<1> QED
  BY <1>1, <1>4, RankIsStrict

LEMMA OvercountBoundedHolds ==
    ASSUME IsFiniteSet(Partition), IsFiniteSet(Request), IInv
    PROVE  OvercountBounded
<1> SUFFICES ASSUME faults = 0, NEW ip \in IP, NEW k \in CP!HashKeys, NEW v \in Value
             PROVE  profile[ip].hash[k][v]
                      <= MaxAttempts * Cardinality({ r \in Request :
                                                       EventOf[r].ip = ip /\ EventOf[r][k] = v })
  BY HashKeysAgree DEF OvercountBounded
<1> DEFINE R == { r \in Request : EventOf[r].ip = ip /\ EventOf[r][k] = v }
           D == CP!Carrying(ip, k, v)
           T == R \X (1..MaxAttempts)
           f == [q \in D |-> <<topic[q[1]][q[2]], Rank(topic[q[1]], q[2])>>]
<1>1. PP!TypeOK /\ PP!AllBounded /\ PP!Whole
  BY DEF IInv, PP!Whole
<1>2. profile[ip].hash[k][v] <= Cardinality(D)
  BY HalvesAssumptions, FiniteIsFinite, CP!UndisturbedIsPublished DEF IInv
<1>3. \A q \in D : /\ q = <<q[1], q[2]>> /\ q[1] \in Partition /\ q[2] \in 1..Len(topic[q[1]])
                    /\ topic[q[1]][q[2]] \in R
  BY <1>1, CarryingPosition
<1>4. ASSUME NEW q \in D PROVE Rank(topic[q[1]], q[2]) \in 1..MaxAttempts
  <2> DEFINE n == Cardinality(PP!Places(topic[q[1]], topic[q[1]][q[2]]))
  <2>1. topic[q[1]] \in Seq(Request)
    BY <1>1, <1>3 DEF PP!TypeOK
  <2>2. Rank(topic[q[1]], q[2]) \in 1..n
    BY <1>3, <2>1, RankIsStrict
  <2>3. n <= MaxAttempts
    BY <1>1, <1>3, FiniteIsFinite DEF PP!AllBounded, PP!Bounded
  <2>4. n \in Nat
    <3>1. IsFiniteSet(1..Len(topic[q[1]]))
      BY <2>1, FS_Interval
    <3>2. PP!Places(topic[q[1]], topic[q[1]][q[2]]) \in SUBSET (1..Len(topic[q[1]]))
      BY <2>1 DEF PP!Places
    <3> QED
      BY <3>1, <3>2, FS_Subset, FS_CardinalityType
  <2> HIDE DEF n
  <2> QED
    BY <2>2, <2>3, <2>4, HalvesAssumptions
<1>5. f \in [D -> T]
  BY <1>3, <1>4
<1>6. ASSUME NEW a \in D, NEW b \in D, f[a] = f[b] PROVE a = b
  <2>1. /\ topic[a[1]][a[2]] = topic[b[1]][b[2]]
        /\ Rank(topic[a[1]], a[2]) = Rank(topic[b[1]], b[2])
    BY <1>6
  <2>2. a[1] = b[1] /\ a[2] = b[2]
    BY <1>1, <1>3, <2>1, PositionOfCopy
  <2> QED
    BY <1>3, <2>2
<1>7. IsFiniteSet(R) /\ Cardinality(R) \in Nat
  <2>1. R \in SUBSET Request
    OBVIOUS
  <2> QED
    BY <2>1, FS_Subset, FS_CardinalityType
<1>8. IsFiniteSet(1..MaxAttempts) /\ Cardinality(1..MaxAttempts) = MaxAttempts
  BY HalvesAssumptions, FS_Interval
<1>9. IsFiniteSet(T) /\ Cardinality(T) = Cardinality(R) * MaxAttempts
  BY <1>7, <1>8, FS_Product
<1>10. profile[ip].hash[k][v] \in Nat
  <2>1. CP!TypeOK
    BY DEF IInv, CP!Whole, CP!IInv
  <2> QED
    BY <2>1 DEF CP!TypeOK, CP!ProfileType
<1> HIDE DEF R, D, T, f
<1>11. Cardinality(D) \in Nat /\ Cardinality(T) \in Nat /\ Cardinality(D) <= Cardinality(T)
  BY <1>5, <1>6, <1>9, NoMoreThan
<1>12. Cardinality(R) * MaxAttempts = MaxAttempts * Cardinality(R)
  BY <1>7, HalvesAssumptions
<1>13. profile[ip].hash[k][v] <= MaxAttempts * Cardinality(R)
  <2>1. Cardinality(T) = MaxAttempts * Cardinality(R)
    BY <1>9, <1>12
  <2>2. profile[ip].hash[k][v] <= Cardinality(T)
    BY <1>2, <1>10, <1>11
  <2> QED
    BY <2>1, <2>2
<1> QED
  BY <1>13 DEF R

-----------------------------------------------------------------------------

\* What the user was told is what the profile shows: when writer and loop are through,
\* each click that POST /events/search answered "recorded" is in every counter of its
\* unwiped profile, unless a log line or a crash of the API explains why not.
THEOREM RecordedClicksAreCounted ==
    ASSUME IsFiniteSet(Partition), TTLDays > 0
    PROVE  Spec => []ClicksCounted
<1>1. IInv => ClicksCounted
  BY ClicksCountedHolds
<1>2. Spec => []IInv
  BY InvariantHolds
<1> QED
  BY <1>1, <1>2, PTL

\* The writer's retries leave copies of an event in the topic, and the personalizer counts
\* each; but while nothing fails on its side no more of them than there are attempts.
THEOREM CopiesAreBounded ==
    ASSUME IsFiniteSet(Partition), IsFiniteSet(Request), TTLDays > 0
    PROVE  Spec => []OvercountBounded
<1>1. IInv => OvercountBounded
  BY OvercountBoundedHolds
<1>2. Spec => []IInv
  BY InvariantHolds
<1> QED
  BY <1>1, <1>2, PTL
=============================================================================
