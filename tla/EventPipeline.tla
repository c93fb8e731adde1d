---------------------------- MODULE EventPipeline ----------------------------
(***************************************************************************)
(* From a click to a counter: the API's EventProducer and the Personalizer *)
(* on one topic.  The producer appends requests to the topic; the consumer *)
(* reads the events they carry.  The two processes share nothing else.     *)
(***************************************************************************)
EXTENDS Integers, Sequences, FiniteSets

CONSTANTS
    Partition, Request, MaxAttempts,
    EventOf,   \* EventOf[r]: the search event that request r records
    IP, Query, Value, Empty, RecentLimit, TTLDays, Malformed,
    MaxRetries, FaultKinds, MaxFaults, MaxWipes

VARIABLES
    server, request, queue, batch, attempts, topic, dropped, accepted, lost,
    committed, pos, pc, hand, next, tries, cancelled, profile, counted, refused, faults, wipes,
    reset,
    expired

\* The topic as the consumer sees it: what the messages carry.
log == [p \in Partition |-> [i \in DOMAIN topic[p] |-> EventOf[topic[p][i]]]]

Events == { EventOf[r] : r \in Request }
MostCopies == MaxAttempts * Cardinality(Request)

Producer == INSTANCE EventProducer
Consumer == INSTANCE Personalizer WITH Message <- Events, MaxLog <- MostCopies

\* The handler only records events whose fields all hold something.
ASSUME PipelineAssumption ==
    /\ EventOf \in [Request -> [ip : IP, query : Query, countries : Value, continents : Value,
                                feature_codes : Value]]
    /\ MaxAttempts \in Nat \ {0}
    /\ RecentLimit \in Int
    /\ TTLDays \in Int
    /\ Empty \notin IP \union Query \union Value
    /\ Malformed \notin Consumer!SearchEvent
    /\ MaxRetries \in Nat
    /\ FaultKinds \subseteq Consumer!Faults
    /\ MaxFaults \in Nat
    /\ MaxWipes \in Nat

produced == <<server, request, queue, batch, attempts, dropped, accepted, lost>>
consumed == <<committed, pos, pc, hand, next, tries, cancelled, profile, counted, refused,
              faults, wipes, reset, expired>>
vars == <<produced, topic, consumed>>

Init == Producer!Init /\ Consumer!Init

ProducerStep == Producer!Next /\ UNCHANGED consumed

\* Every step of the consumer's module but Publish, which is the producer's.
ConsumerStep ==
    /\ UNCHANGED topic
    /\ \/ Consumer!Loop
       \/ \E ip \in IP : Consumer!Reset(ip) \/ \E k \in Consumer!ProfileKeys : Consumer!ExpireKey(ip, k)
       \/ Consumer!Resend
       \/ Consumer!GiveUp
       \/ Consumer!Sigterm
       \/ Consumer!Crash
       \/ Consumer!Rejoin
    /\ UNCHANGED produced

Next == ProducerStep \/ ConsumerStep

Spec == Init /\ [][Next]_vars

\* Both programs are scheduled: the writer goroutines of the API and the loop of
\* the personalizer.
FairSpec ==
    /\ Spec
    /\ \A p \in Partition : WF_vars(Producer!Write(p) /\ UNCHANGED consumed)
    /\ WF_vars(UNCHANGED <<topic, produced>> /\ Consumer!Loop)

-----------------------------------------------------------------------------
(* Properties of the two together. *)

\* Where copies of a request ended up in the topic.
Copies(r) == UNION { {p} \X { i \in DOMAIN topic[p] : topic[p][i] = r } : p \in Partition }

\* Nothing is under way: the writer is empty and every message is committed.
Quiet ==
    /\ \A p \in Partition : queue[p] = <<>> /\ committed[p] = Len(topic[p])
    /\ pc = "read"

Clicks(ip, k, v) == { r \in Request : request[r] = "recorded" /\ EventOf[r].ip = ip /\ EventOf[r][k] = v }

Mishaps == dropped \union lost \union { r \in Request : Copies(r) \cap refused # {} }

\* What the user was told is what the profile shows: once everything is quiet each
\* recorded click is in every counter of its profile, unless a log line (dropped,
\* refused), a crash of the API or somebody's reset explains why not.
ClicksCounted ==
    Quiet =>
        \A ip \in IP : wipes[ip] = 0 =>
            \A k \in Consumer!HashKeys, v \in Value :
                Cardinality(Clicks(ip, k, v) \ Mishaps) <= profile[ip].hash[k][v]

\* Even with no fault of the personalizer's own a click may be counted more than
\* once, because the writer's retries leave copies in the topic; but never more
\* often than there are attempts.
OvercountBounded ==
    faults = 0 =>
        \A ip \in IP : \A k \in Consumer!HashKeys, v \in Value :
            profile[ip].hash[k][v]
              <= MaxAttempts * Cardinality({ r \in Request : EventOf[r].ip = ip /\ EventOf[r][k] = v })

\* Every recorded click is settled in the end: counted, or lost with a reason.
ClicksSettle ==
    \A r \in Request :
        request[r] = "recorded" ~>
            r \in dropped \union lost \/ Copies(r) \cap (counted \union refused) # {}
=============================================================================
