---------------------------- MODULE EventProducer ----------------------------
(***************************************************************************)
(* The API's side of the event stream: POST /api/v1/events/search hands an *)
(* event to an asynchronous Kafka writer and answers at once               *)
(* (RecordSearchEvent in internal/api/handler/search.go, Produce in        *)
(* internal/kafka/producer.go); cmd/api/main.go drains requests and        *)
(* flushes the writer on SIGTERM.                                          *)
(*                                                                         *)
(* The writer (kafka-go) is modelled from how producer.go configures it:   *)
(* one batch at a time and per partition, MaxAttempts attempts, leader     *)
(* acknowledgement only, a Completion callback that logs what it drops.    *)
(* The balancer is LeastBytes, so the partition does not depend on the     *)
(* key and any partition may be chosen.                                    *)
(***************************************************************************)
EXTENDS Naturals, Sequences, FiniteSets

CONSTANTS
    Partition,    \* partitions of topic search.queries
    Request,      \* well-formed POST requests; each is made once
    MaxAttempts   \* producer.go:30

ASSUME ProducerAssumption == MaxAttempts \in Nat \ {0}

VARIABLES
    server,    \* serving, draining (Shutdown runs), closing (the writer flushes), down
    request,   \* request[r]: idle, handling, queued (yet to be answered), recorded (200),
               \* failed (500) or cut off (the process ended before it answered)
    queue,     \* queue[p]: requests the writer holds for partition p
    batch,     \* batch[p]: how many of them, from the first, are being written
    attempts,  \* attempts[p]: failed attempts to write that batch
    topic,     \* topic[p]: what the broker has stored, as requests
    dropped,   \* requests the Completion callback has logged as dropped
    accepted,  \* history: accepted[p] is every request ever queued for p, in order
    lost       \* history: requests that were queued when the process died

writer == <<queue, batch, attempts>>
producer == <<server, request, writer, topic, dropped, accepted, lost>>

Occurring(s) == { s[i] : i \in DOMAIN s }
Queued == UNION { Occurring(queue[p]) : p \in Partition }
InTopic == UNION { Occurring(topic[p]) : p \in Partition }

NoQueue == [p \in Partition |-> <<>>]
Zeros == [p \in Partition |-> 0]

Init ==
    /\ server = "serving"
    /\ request = [r \in Request |-> "idle"]
    /\ queue = NoQueue
    /\ batch = Zeros
    /\ attempts = Zeros
    /\ topic = [p \in Partition |-> <<>>]
    /\ dropped = {}
    /\ accepted = [p \in Partition |-> <<>>]
    /\ lost = {}

-----------------------------------------------------------------------------
(* The handler. *)

\* The server accepts the request and the handler has built its event.
Post(r) ==
    /\ server = "serving"
    /\ request[r] = "idle"
    /\ request' = [request EXCEPT ![r] = "handling"]
    /\ UNCHANGED <<server, writer, topic, dropped, accepted, lost>>

\* Produce queues the event.
Produce(r, p) ==
    /\ request[r] = "handling"
    /\ server \in {"serving", "draining"}
    /\ request' = [request EXCEPT ![r] = "queued"]
    /\ queue' = [queue EXCEPT ![p] = Append(@, r)]
    /\ accepted' = [accepted EXCEPT ![p] = Append(@, r)]
    /\ UNCHANGED <<server, batch, attempts, topic, dropped, lost>>

\* The handler answers "recorded", while the writer flushes if need be.
Answer(r) ==
    /\ request[r] = "queued"
    /\ server # "down"
    /\ request' = [request EXCEPT ![r] = "recorded"]
    /\ UNCHANGED <<server, writer, topic, dropped, accepted, lost>>

\* What if the handler's timeout covered the queueing as well?
RejectLate(r) ==
    /\ request[r] = "handling"
    /\ server \in {"serving", "draining"}
    /\ request' = [request EXCEPT ![r] = "failed"]
    /\ \E p \in Partition : queue' = [queue EXCEPT ![p] = Append(@, r)]
    /\ UNCHANGED <<server, batch, attempts, topic, dropped, accepted, lost>>

\* Produce returns an error before anything is queued: the topic's partitions
\* cannot be looked up in time, or the writer has been closed.
Reject(r) ==
    /\ request[r] = "handling"
    /\ server # "down"
    /\ request' = [request EXCEPT ![r] = "failed"]
    /\ UNCHANGED <<server, writer, topic, dropped, accepted, lost>>

-----------------------------------------------------------------------------
(* The writer: one goroutine for each partition. *)

Batch(p) == SubSeq(queue[p], 1, batch[p])
Rest(p) == SubSeq(queue[p], batch[p] + 1, Len(queue[p]))

\* What if the writer only ever sent full batches (of two)?
StartFullBatch(p) ==
    /\ server # "down"
    /\ batch[p] = 0
    /\ Len(queue[p]) >= 2
    /\ batch' = [batch EXCEPT ![p] = 2]
    /\ UNCHANGED <<server, request, queue, attempts, topic, dropped, accepted, lost>>

StartBatch(p) ==
    /\ server # "down"
    /\ batch[p] = 0
    /\ \E n \in 1..Len(queue[p]) : batch' = [batch EXCEPT ![p] = n]
    /\ UNCHANGED <<server, request, queue, attempts, topic, dropped, accepted, lost>>

EndBatch(p) ==
    /\ queue' = [queue EXCEPT ![p] = Rest(p)]
    /\ batch' = [batch EXCEPT ![p] = 0]
    /\ attempts' = [attempts EXCEPT ![p] = 0]

\* The broker stores the batch and its acknowledgement arrives.
Deliver(p) ==
    /\ server # "down"
    /\ batch[p] > 0
    /\ topic' = [topic EXCEPT ![p] = @ \o Batch(p)]
    /\ EndBatch(p)
    /\ UNCHANGED <<server, request, dropped, accepted, lost>>

\* What if the failed batch made way for the ones behind it, or one attempt too
\* many were made?
RetryAtBack(p) ==
    /\ attempts[p] + 1 < MaxAttempts
    /\ queue' = [queue EXCEPT ![p] = Rest(p) \o Batch(p)]
    /\ batch' = [batch EXCEPT ![p] = 0]
    /\ attempts' = [attempts EXCEPT ![p] = @ + 1]
    /\ UNCHANGED dropped
RetryOnceMore(p) ==
    /\ attempts[p] + 1 <= MaxAttempts
    /\ attempts' = [attempts EXCEPT ![p] = @ + 1]
    /\ UNCHANGED <<queue, batch, dropped>>

Retry(p) ==
    /\ attempts[p] + 1 < MaxAttempts
    /\ attempts' = [attempts EXCEPT ![p] = @ + 1]
    /\ UNCHANGED <<queue, batch, dropped>>

\* The last attempt has failed, or an error that is not worth a retry came back.
Drop(p) ==
    /\ dropped' = dropped \union Occurring(Batch(p))
    /\ EndBatch(p)

\* An attempt fails.  The broker may have stored the batch all the same: with
\* RequireOne an acknowledgement can be lost on its way back.
Fail(p, stored) ==
    /\ server # "down"
    /\ batch[p] > 0
    /\ topic' = IF stored THEN [topic EXCEPT ![p] = @ \o Batch(p)] ELSE topic
    /\ Retry(p) \/ Drop(p)
    /\ UNCHANGED <<server, request, accepted, lost>>

-----------------------------------------------------------------------------
(* The process. *)

Sigterm ==
    /\ server = "serving"
    /\ server' = "draining"
    /\ UNCHANGED <<request, writer, topic, dropped, accepted, lost>>

\* srv.Shutdown returns when no handler runs any more, or after 5 seconds even
\* though one does; main then returns and its deferred calls run.
Drained ==
    /\ server = "draining"
    /\ server' = "closing"
    /\ UNCHANGED <<request, writer, topic, dropped, accepted, lost>>

\* What a request still in its handler gets when the process ends: nothing.
CutOff == [r \in Request |-> IF request[r] \in {"handling", "queued"} THEN "cut off" ELSE request[r]]

\* What if main did not wait for the writer?
NothingPending == TRUE
Flushed == \A p \in Partition : queue[p] = <<>>

\* producer.Close waits for every batch; then the process exits.
Exit ==
    /\ server = "closing"
    /\ Flushed
    /\ server' = "down"
    /\ request' = CutOff
    /\ queue' = NoQueue
    /\ batch' = Zeros
    /\ attempts' = Zeros
    /\ UNCHANGED <<topic, dropped, accepted, lost>>

\* The process dies without its deferred calls (a kill, os.Exit(1) in main).
Crash ==
    /\ server # "down"
    /\ server' = "down"
    /\ request' = CutOff
    /\ lost' = lost \union Queued
    /\ queue' = NoQueue
    /\ batch' = Zeros
    /\ attempts' = Zeros
    /\ UNCHANGED <<topic, dropped, accepted>>

Restart ==
    /\ server = "down"
    /\ server' = "serving"
    /\ UNCHANGED <<request, writer, topic, dropped, accepted, lost>>

-----------------------------------------------------------------------------

Handle(r) == Reject(r) \/ (\E p \in Partition : Produce(r, p)) \/ Answer(r)
Write(p) == StartBatch(p) \/ Deliver(p) \/ \E stored \in BOOLEAN : Fail(p, stored)

Next ==
    \/ \E r \in Request : Post(r) \/ Handle(r)
    \/ \E p \in Partition : Write(p)
    \/ Sigterm
    \/ Drained
    \/ Exit
    \/ Crash
    \/ Restart

Spec == Init /\ [][Next]_producer

\* Each writer goroutine runs, and so does main once it is told to stop.
FairSpec ==
    /\ Spec
    /\ \A p \in Partition : WF_producer(Write(p))
    /\ WF_producer(Drained)
    /\ WF_producer(Exit)

-----------------------------------------------------------------------------
(* Properties. *)

Phase == {"idle", "handling", "queued", "recorded", "failed", "cut off"}

TypeOK ==
    /\ server \in {"serving", "draining", "closing", "down"}
    /\ request \in [Request -> Phase]
    /\ queue \in [Partition -> Seq(Request)]
    /\ batch \in [Partition -> Nat]
    /\ \A p \in Partition : batch[p] <= Len(queue[p])
    /\ attempts \in [Partition -> 0..MaxAttempts]
    /\ topic \in [Partition -> Seq(Request)]
    /\ dropped \subseteq Request
    /\ accepted \in [Partition -> Seq(Request)]
    /\ lost \subseteq Request

Accounted == Queued \union InTopic \union dropped \union lost

\* An event answered "recorded" never vanishes without a trace: until the broker
\* has it, the writer holds it, or a log line says that it was dropped, or the
\* process died.  In particular a graceful shutdown loses nothing, although it
\* may stop waiting for handlers that are still running.
NothingVanishes == \A r \in Request : request[r] = "recorded" => r \in Accounted

\* A request that was answered with an error has left no event behind, so its user can
\* repeat it.  One that was cut off may have: the process may end between the queueing
\* and the answer.
FailedLeavesNothing == \A r \in Request : request[r] = "failed" => r \notin Accounted

FirstAt(s, r) == CHOOSE n \in DOMAIN s : s[n] = r /\ \A m \in 1..(n - 1) : s[m] # r

\* In one partition events are stored in the order in which they were accepted:
\* a retried batch may repeat events already stored, but an event never overtakes
\* one accepted before it.
PartitionKeepsOrder ==
    \A p \in Partition : \A r, s \in Occurring(topic[p]) :
        FirstAt(topic[p], r) < FirstAt(topic[p], s)
          => FirstAt(accepted[p], r) < FirstAt(accepted[p], s)

\* What is recorded reaches the broker, the log of drops, or a crash.
RecordedSettles ==
    \A r \in Request : request[r] = "recorded" ~> r \in InTopic \union dropped \union lost
=============================================================================
