---------------------------- MODULE Personalizer ----------------------------
(***************************************************************************)
(* cmd/personalizer: one process reads search events from a Kafka topic,   *)
(* adds each to the Redis profile of its IP with a pipeline of commands,   *)
(* and then commits the message's offset (internal/kafka/consumer.go,      *)
(* internal/personalization/profile.go).                                   *)
(*                                                                         *)
(* Redis runs the commands of the pipeline one after another and other     *)
(* clients' commands fall in between.  A pipeline can be cut after any     *)
(* prefix; the Redis client then sends it again or gives up.  A crash of   *)
(* this process does not stop commands it has already sent: a behaviour in *)
(* which Redis runs them first and the crash follows is a behaviour of     *)
(* this module.                                                            *)
(***************************************************************************)
EXTENDS Profile, FiniteSets

CONSTANTS
    Partition,   \* partitions of topic search.queries
    Message,     \* what producers may put there
    Malformed,   \* a value json.Unmarshal rejects
    MaxRetries,  \* times the Redis client re-sends a pipeline (go-redis MaxRetries)
    FaultKinds,  \* the faults this instance may meet
    MaxFaults,   \* bound: faults in one behaviour
    MaxLog,      \* bound: messages in one partition
    MaxWipes     \* bound: resets and key expiries of one profile

Faults == {"crash", "sigterm", "break", "commit", "rejoin"}

ASSUME PersonalizerAssumption ==
    /\ Malformed \notin SearchEvent
    /\ Message \subseteq SearchEvent \union {Malformed}
    /\ MaxRetries \in Nat
    /\ FaultKinds \subseteq Faults
    /\ MaxFaults \in Nat
    /\ MaxLog \in Nat
    /\ MaxWipes \in Nat

VARIABLES
    log,        \* log[p]: the messages of partition p
    committed,  \* committed[p]: messages of p the group has committed
    pos,        \* pos[p]: messages of p the reader has delivered to the loop
    pc,         \* where the consumer loop is
    hand,       \* position <<p, o>> of the message being processed, or Nothing
    next,       \* the command of the pipeline that Redis runs next
    tries,      \* times the pipeline has been sent again
    cancelled,  \* the signal handler has cancelled the loop's context
    profile,    \* profile[ip]: the four Redis keys of that IP
    counted,    \* history: positions whose UpdateProfile returned nil
    refused,    \* history: positions whose UpdateProfile returned an error
    faults,     \* faults so far
    wipes,      \* wipes[ip]: resets and expiries of that profile so far
    reset,      \* history: reset[ip], how far the loop was at that profile's last reset
    expired     \* history: expired[ip], the keys that have expired since

consumer == <<pos, pc, hand, next, tries, cancelled>>
redis == <<profile, wipes, reset, expired>>
vars == <<log, committed, consumer, redis, counted, refused, faults>>

Nothing == <<>>
Locations == {"down", "read", "update", "commit"}

\* The loop uses an event that decodes and carries an IP and a query.
Useful == { m \in Message : m # Malformed /\ m.ip # Empty /\ m.query # Empty }

InHand == log[hand[1]][hand[2]]
Pipeline == UpdateCommands(InHand)

Greater(a, b) == IF a > b THEN a ELSE b

\* The messages that are committed, and those that the loop has begun with (a rejoin may
\* have moved the reader behind either).
HowFar ==
    [done |-> committed,
     begun |-> [p \in Partition |->
                  LET n == Greater(pos[p], committed[p])
                  IN  IF hand # Nothing /\ hand[1] = p THEN Greater(hand[2], n) ELSE n]]

NotYet == [done |-> [p \in Partition |-> 0], begun |-> [p \in Partition |-> 0]]

Init ==
    /\ log = [p \in Partition |-> <<>>]
    /\ committed = [p \in Partition |-> 0]
    /\ pos = [p \in Partition |-> 0]
    /\ pc = "down"
    /\ hand = Nothing
    /\ next = 1
    /\ tries = 0
    /\ cancelled = FALSE
    /\ profile = [ip \in IP |-> NoProfile]
    /\ counted = {}
    /\ refused = {}
    /\ faults = 0
    /\ wipes = [ip \in IP |-> 0]
    /\ reset = [ip \in IP |-> NotYet]
    /\ expired = [ip \in IP |-> {}]

-----------------------------------------------------------------------------
(* The environment: producers, and the other users of the profile keys. *)

Publish(p, m) ==
    /\ Len(log[p]) < MaxLog
    /\ log' = [log EXCEPT ![p] = Append(@, m)]
    /\ UNCHANGED <<committed, consumer, redis, counted, refused, faults>>

\* What if the DEL left one of the four keys?
ResetForgetsOne(ip) ==
    /\ wipes[ip] < MaxWipes
    /\ profile' = [profile EXCEPT ![ip] = [NoProfile EXCEPT !.hash["countries"] =
                                                          profile[ip].hash["countries"]]]
    /\ wipes' = [wipes EXCEPT ![ip] = @ + 1]
    /\ reset' = [reset EXCEPT ![ip] = HowFar]
    /\ expired' = [expired EXCEPT ![ip] = {}]
    /\ UNCHANGED <<log, committed, consumer, counted, refused, faults>>
\* ResetProfile: one DEL of the four keys.
Reset(ip) ==
    /\ wipes[ip] < MaxWipes
    /\ profile' = [profile EXCEPT ![ip] = NoProfile]
    /\ wipes' = [wipes EXCEPT ![ip] = @ + 1]
    /\ reset' = [reset EXCEPT ![ip] = HowFar]
    /\ expired' = [expired EXCEPT ![ip] = {}]
    /\ UNCHANGED <<log, committed, consumer, counted, refused, faults>>

\* Redis removes a key whose time to live has run out.
ExpireKey(ip, k) ==
    /\ k \in profile[ip].ttl
    /\ wipes[ip] < MaxWipes
    /\ profile' = [profile EXCEPT ![ip] = DropKey(@, k)]
    /\ wipes' = [wipes EXCEPT ![ip] = @ + 1]
    /\ expired' = [expired EXCEPT ![ip] = @ \union {k}]
    /\ UNCHANGED <<log, committed, consumer, reset, counted, refused, faults>>

Fault(kind) ==
    /\ kind \in FaultKinds
    /\ faults < MaxFaults
    /\ faults' = faults + 1

-----------------------------------------------------------------------------
(* The consumer loop. *)

LetGo ==
    /\ hand' = Nothing
    /\ next' = 1
    /\ tries' = 0

\* What if StartOffset were LastOffset, or the committed offset were not used?
StartAtLast(p) == IF committed[p] = 0 THEN Len(log[p]) ELSE committed[p]
StartAtFirst(p) == 0

\* Where a reader that joins the group begins: at the committed offset, or at
\* the first message of a partition that has none (StartOffset: FirstOffset).
StartAt(p) == committed[p]

\* A (re)started process joins the group.
Start ==
    /\ pc = "down"
    /\ pc' = "read"
    /\ pos' = [p \in Partition |-> StartAt(p)]
    /\ cancelled' = FALSE
    /\ UNCHANGED <<log, committed, hand, next, tries, redis, counted, refused, faults>>

\* What if ReadMessage were kafka-go's own ReadMessage, which commits first?
FetchAutoCommit(p) ==
    /\ pc = "read"
    /\ ~cancelled
    /\ pos[p] < Len(log[p])
    /\ pc' = IF log[p][pos[p] + 1] \in Useful THEN "update" ELSE "commit"
    /\ pos' = [pos EXCEPT ![p] = @ + 1]
    /\ committed' = [committed EXCEPT ![p] = pos[p] + 1]
    /\ hand' = <<p, pos[p] + 1>>
    /\ UNCHANGED <<log, next, tries, cancelled, redis, counted, refused, faults>>

\* ReadMessage returns a message; one without use goes straight to its commit.
\* A cancelled context does not prevent it: FetchMessage may still return a
\* buffered message.
Fetch(p) ==
    /\ pc = "read"
    /\ pos[p] < Len(log[p])
    /\ LET m == log[p][pos[p] + 1] IN
         /\ m \in Useful => ~cancelled
         /\ pc' = IF m \in Useful THEN "update" ELSE "commit"
    /\ pos' = [pos EXCEPT ![p] = @ + 1]
    /\ hand' = <<p, pos[p] + 1>>
    /\ next' = 1
    /\ tries' = 0
    /\ UNCHANGED <<log, committed, cancelled, redis, counted, refused, faults>>

\* The same for a useful message under a cancelled context: the Redis client
\* refuses to send anything, UpdateProfile fails, and the loop goes on reading.
FetchCancelled(p) ==
    /\ pc = "read"
    /\ cancelled
    /\ pos[p] < Len(log[p])
    /\ log[p][pos[p] + 1] \in Useful
    /\ pos' = [pos EXCEPT ![p] = @ + 1]
    /\ refused' = refused \union {<<p, pos[p] + 1>>}
    /\ UNCHANGED <<log, committed, pc, hand, next, tries, cancelled, redis, counted, faults>>

\* Redis runs the next command of the pipeline.
RunCommand ==
    /\ pc = "update"
    /\ next <= Len(Pipeline)
    /\ profile' = [profile EXCEPT ![InHand.ip] = Execute(@, Pipeline[next])]
    /\ next' = next + 1
    /\ UNCHANGED <<log, committed, pos, pc, hand, tries, cancelled, wipes, reset, expired, counted,
                   refused, faults>>

\* All replies are in: UpdateProfile returns nil.
UpdateDone ==
    /\ pc = "update"
    /\ next > Len(Pipeline)
    /\ pc' = "commit"
    /\ counted' = counted \union {hand}
    /\ UNCHANGED <<log, committed, pos, hand, next, tries, cancelled, redis, refused, faults>>

\* The connection breaks after some prefix of the pipeline, or after all of it
\* with the replies lost, and the client sends the whole pipeline again.
Resend ==
    /\ pc = "update"
    /\ Fault("break")
    /\ tries < MaxRetries
    /\ ~cancelled
    /\ tries' = tries + 1
    /\ next' = 1
    /\ UNCHANGED <<log, committed, pos, pc, hand, cancelled, redis, counted, refused>>

\* What if the `continue` were missing?
GiveUpFallsThrough ==
    /\ pc = "update"
    /\ Fault("break")
    /\ pc' = "commit"
    /\ UNCHANGED <<log, committed, pos, hand, next, tries, cancelled, redis, counted, refused>>

\* The connection breaks likewise and the client gives up: UpdateProfile returns
\* an error, which the loop logs before it reads the next message.
GiveUp ==
    /\ pc = "update"
    /\ Fault("break")
    /\ pc' = "read"
    /\ refused' = refused \union {hand}
    /\ LetGo
    /\ UNCHANGED <<log, committed, pos, cancelled, redis, counted>>

\* What if the message's own offset were committed, not the one after it?
CommitOwnOffset == hand[2] - 1
CommitOffset == hand[2]

\* CommitMessage; its error is at most logged.  Under a cancelled context the
\* request may or may not reach the broker.
Commit ==
    /\ pc = "commit"
    /\ pc' = "read"
    /\ LetGo
    /\ \/ /\ committed' = [committed EXCEPT ![hand[1]] = CommitOffset]
          /\ UNCHANGED faults
       \/ /\ ~cancelled
          /\ Fault("commit")
          /\ UNCHANGED committed
       \/ /\ cancelled
          /\ UNCHANGED <<committed, faults>>
    /\ UNCHANGED <<log, pos, cancelled, redis, counted, refused>>

\* ReadMessage returns context.Canceled: the loop ends and the process exits.
Stop ==
    /\ pc = "read"
    /\ cancelled
    /\ pc' = "down"
    /\ UNCHANGED <<log, committed, pos, hand, next, tries, cancelled, redis, counted, refused,
                   faults>>

-----------------------------------------------------------------------------
(* What happens to the process. *)

\* SIGINT or SIGTERM; the second one finds nobody listening.
Sigterm ==
    /\ pc # "down"
    /\ ~cancelled
    /\ Fault("sigterm")
    /\ cancelled' = TRUE
    /\ UNCHANGED <<log, committed, pos, pc, hand, next, tries, redis, counted, refused>>

Crash ==
    /\ pc # "down"
    /\ Fault("crash")
    /\ pc' = "down"
    /\ LetGo
    /\ UNCHANGED <<log, committed, pos, cancelled, redis, counted, refused>>

\* The reader's group generation ends (a missed heartbeat, a broker restart):
\* it joins again, while the loop goes on with the message it has in hand.
Rejoin ==
    /\ pc # "down"
    /\ Fault("rejoin")
    /\ pos' = [p \in Partition |-> StartAt(p)]
    /\ UNCHANGED <<log, committed, pc, hand, next, tries, cancelled, redis, counted, refused>>

-----------------------------------------------------------------------------

Loop ==
    \/ Start
    \/ \E p \in Partition : Fetch(p) \/ FetchCancelled(p)
    \/ RunCommand
    \/ UpdateDone
    \/ Commit
    \/ Stop

Environment ==
    \/ \E p \in Partition, m \in Message : Publish(p, m)
    \/ \E ip \in IP : Reset(ip) \/ \E k \in ProfileKeys : ExpireKey(ip, k)
    \/ Resend
    \/ GiveUp
    \/ Sigterm
    \/ Crash
    \/ Rejoin

Next == Loop \/ Environment

Spec == Init /\ [][Next]_vars

\* The loop is one thread: it is scheduled again and again, and a restart
\* policy brings a stopped process back.
FairSpec == Spec /\ WF_vars(Loop)

-----------------------------------------------------------------------------
(* Properties. *)

TypeOK ==
    /\ log \in [Partition -> Seq(Message)]
    /\ committed \in [Partition -> Nat]
    /\ pos \in [Partition -> Nat]
    /\ pc \in Locations
    /\ hand \in (Partition \X Nat) \union {Nothing}
    /\ next \in Nat \ {0}
    /\ tries \in Nat
    /\ cancelled \in BOOLEAN
    /\ profile \in [IP -> ProfileType]
    /\ counted \subseteq Partition \X Nat
    /\ refused \subseteq Partition \X Nat
    /\ faults \in Nat
    /\ wipes \in [IP -> Nat]

Ledger == INSTANCE EventLedger

\* The loop, its crashes, re-deliveries and shutdowns implement the ledger: no
\* step commits past a message that is neither counted, refused nor useless.
ImplementsLedger == Ledger!Spec

\* The same as a state predicate.  Four actors must agree for it: the reader's
\* position (which a rejoin moves under the loop), the message in hand, the
\* committed offset and the outcome of earlier updates.
CommittedIsSettled ==
    \A p \in Partition : \A o \in 1..committed[p] : Ledger!Settled(p, o)

\* At-least-once delivery: a committed event has been counted.  True only while
\* no update is refused (see refused above).
CommittedIsCounted ==
    \A p \in Partition : \A o \in 1..committed[p] :
        log[p][o] \in Useful => <<p, o>> \in counted

Published == UNION { {p} \X (1..Len(log[p])) : p \in Partition }

\* The published events of an IP with value v in field k.
Carrying(ip, k, v) ==
    { q \in Published :
        LET m == log[q[1]][q[2]] IN m \in Useful /\ m.ip = ip /\ m[k] = v }

Committed(S) == { q \in S : q[2] <= committed[q[1]] }

\* Those behind a position in each partition.
After(S, passed) == { q \in S : q[2] > passed[q[1]] }

\* The counters themselves, whatever crashed, was cut or was delivered twice: a
\* committed event is in every hash of its profile, unless the hash has expired or the
\* profile was reset after the loop had begun with the event, or the event was refused:
\* each time it was delivered, or, where the profile was wiped, perhaps only the last time.
CommittedIsInProfile ==
    \A ip \in IP : \A k \in HashKeys \ expired[ip], v \in Value :
        Cardinality(After(Committed(Carrying(ip, k, v)), reset[ip].begun)
                      \ (IF wipes[ip] = 0 THEN refused \ counted ELSE refused))
          <= profile[ip].hash[k][v]

\* As long as nothing has gone wrong the counters are exact between two messages: no
\* event is counted twice and no uncommitted one is counted; and after a reset only what
\* the loop had not yet committed counts, so that events which are queued at a reset come
\* back and those that are through do not.
CountedOnceIfUndisturbed ==
    faults = 0 /\ pc = "read" =>
        \A ip \in IP, k \in HashKeys, v \in Value :
            LET through == Committed(Carrying(ip, k, v))
                count == profile[ip].hash[k][v]
            IN  /\ count <= Cardinality(After(through, reset[ip].done))
                /\ k \notin expired[ip] =>
                       Cardinality(After(through, reset[ip].begun)) <= count

Updating(ip) == pc = "update" /\ InHand.ip = ip
JustUpdated(ip) == pc = "commit" /\ InHand \in Useful /\ InHand.ip = ip

\* The list of recent queries stays near its limit: a cut between LPUSH and LTRIM
\* leaves one entry too many, further cuts add to it, and the next update that
\* comes through brings the list back to the limit.
RecentBounded ==
    RecentLimit >= 1 =>
        \A ip \in IP :
            LET n == Len(profile[ip].recent) IN
              /\ n <= RecentLimit + faults + (IF Updating(ip) THEN 1 ELSE 0)
              /\ JustUpdated(ip) => n <= RecentLimit

\* No key stays for ever: outside a running update only a fault can have left a
\* key without an expiry, and the next update that comes through repairs it.
NoKeyForever ==
    TTLDays > 0 =>
        \A ip \in IP : \A k \in ProfileKeys :
            KeyExists(profile[ip], k) /\ k \notin profile[ip].ttl =>
                /\ faults > 0 \/ Updating(ip)
                /\ ~JustUpdated(ip)

\* Commits of one partition only move forward, though rejoins and restarts move
\* the reader back (where updates or commits fail this is not so: after a rejoin
\* a refused or uncommitted message is read and committed again).
CommitsMoveForward ==
    [][\A p \in Partition : committed'[p] >= committed[p]]_vars

\* Where no connection breaks, the group catches up with the topic for good, whatever
\* crashes, shutdowns and rejoins happened before.
CommitsCatchUp ==
    \A p \in Partition, o \in 1..MaxLog :
        o <= Len(log[p]) ~> [](o <= committed[p])
=============================================================================
