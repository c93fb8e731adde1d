--------------------------------- MODULE Api ---------------------------------
(***************************************************************************)
(* A request's way through the API: the router and its middleware          *)
(* (internal/api/router.go, middleware), then one of the handlers that     *)
(* read or write toggles and profiles (handler/search.go with              *)
(* personalized=true, analytics.go, toggle.go) or probe the services       *)
(* (health.go).  /events/search is in EventProducer, /recommendations in   *)
(* Recommendations, the limiter's counter in RateLimit, and the search     *)
(* without a profile in SearchCache.                                       *)
(*                                                                         *)
(* Handlers meet only in Redis: other replicas of the API, the             *)
(* personalizer, expiries and outages step in between any two steps of a   *)
(* handler, so an instance with one handler has every interleaving that    *)
(* the handler can tell apart.  A profile is the set of its keys that hold *)
(* anything.                                                               *)
(***************************************************************************)
EXTENDS Integers, Sequences, FiniteSets

CONSTANTS
    Handler,    \* requests that may be at work at the same time
    IP,
    Request,    \* the requests that may come
    Reads,      \* the profile's keys in the order in which GetProfile reads them
    MaxDown     \* bound: services that are down at the same time

Global == "global"
None == "none"
ProfileKeys == { Reads[i] : i \in DOMAIN Reads }
Service == {"postgres", "redis", "typesense"}

Protected == {"toggle global", "toggle ip", "reset"}
Route == Protected \union {"search", "profile", "reset mine", "health", "options"}

ASSUME ApiAssumption ==
    /\ {Global, None} \cap IP = {}
    /\ Request # {}
    /\ Request \subseteq
         [route : Route, query : IP \union {None}, forwarded : IP \union {None}, remote : IP,
          key : {None, "wrong", "right"}, body : IP \union {None},
          valid : BOOLEAN, filtered : BOOLEAN, enabled : BOOLEAN]
    /\ Reads \in Seq(STRING)
    /\ ProfileKeys \cap ({"global", "ip"} \union Service) = {}
    /\ MaxDown \in Nat

VARIABLES
    off,      \* toggles whose key holds "false", of Global and the IPs
    history,  \* history[ip]: the profile keys that hold something
    down,     \* services that do not answer
    request,  \* request[h]: the request at hand
    run,      \* run[h]: how far the handler is, and its local variables
    seen      \* history: seen[h], what held at some moment of the request

stores == <<off, history, down>>
vars == <<stores, request, run, seen>>

-----------------------------------------------------------------------------
(* Requests. *)

\* IPExtract: the query parameter, the first forwarded address, the peer.
ClientIP(r) ==
    IF r.query # None THEN r.query ELSE IF r.forwarded # None THEN r.forwarded ELSE r.remote

\* Whose toggle or profile the handler reads or writes.
Subject(r) ==
    CASE r.route \in {"search", "reset mine"} -> ClientIP(r)
      [] r.route \in {"profile", "reset"} -> r.query
      [] r.route = "toggle ip" -> r.body
      [] OTHER -> Global

\* ShouldBind fails, or the address that the handler needs is not there.
BadRequest(r) ==
    \/ r.route \in {"search", "toggle global", "toggle ip"} /\ ~r.valid
    \/ r.route \in {"profile", "reset", "toggle ip"} /\ Subject(r) = None

FirstStep(r) ==
    CASE r.route = "search" -> "search"
      [] r.route = "profile" -> "profile"
      [] r.route = "health" -> "probe"
      [] OTHER -> "write"

-----------------------------------------------------------------------------
(* What a handler may find, and what it may have found since the request came. *)

Things(r) ==
    CASE r.route = "search" -> ProfileKeys \union {"global", "ip", "redis", "typesense"}
      [] r.route \in {"profile", "reset", "reset mine"} -> ProfileKeys \union {"redis"}
      [] r.route = "health" -> Service
      [] r.route = "toggle global" -> {"global", "redis"}
      [] r.route = "toggle ip" -> {"ip", "redis"}
      [] OTHER -> {}

\* That a toggle is on, a key holds something, a service is up.
Holds(r, thing) ==
    CASE thing = "global" -> Global \notin off
      [] thing = "ip" -> Subject(r) \notin off
      [] thing \in ProfileKeys -> Subject(r) \in IP /\ thing \in history[Subject(r)]
      [] OTHER -> thing \notin down

Found(r) == { <<thing, Holds(r, thing)>> : thing \in Things(r) }

Idle ==
    [step |-> "idle", upto |-> 0, got |-> {}, boosted |-> FALSE, probed |-> {},
     failed |-> {}, code |-> 0, wrote |-> FALSE]

\* The history of a step: what holds after it, while the request is at work.
Witness ==
    seen' = [h \in Handler |-> IF run'[h] = Idle THEN {} ELSE seen[h] \union Found(request[h])']

Init ==
    /\ off = {} /\ history = [c \in IP |-> {}]
    /\ down = {}
    /\ request = [h \in Handler |-> CHOOSE r \in Request : TRUE]
    /\ run = [h \in Handler |-> Idle]
    /\ seen = [h \in Handler |-> {}]

-----------------------------------------------------------------------------
(* The middleware. *)

Up(s) == s \notin down

At(h, step) == run[h].step = step

\* The handler's state becomes new and nothing else changes.
Local(h, new) == run' = [run EXCEPT ![h] = new] /\ UNCHANGED <<stores, request>>

Goto(h, step) == Local(h, [run[h] EXCEPT !.step = step])

\* c.JSON: the first status written is the one that is sent.
Answered(state, status) ==
    [state EXCEPT !.step = "answer", !.code = IF @ = 0 THEN status ELSE @]
Reply(h, status) == Local(h, Answered(run[h], status))

Receive(h, r) ==
    /\ At(h, "idle")
    /\ request' = [request EXCEPT ![h] = r]
    /\ run' = [run EXCEPT ![h].step = "guard"]
    /\ UNCHANGED stores

\* What if AdminAuth answered without c.Abort()?
GuardWithoutAbort(h) ==
    /\ At(h, "guard")
    /\ IF request[h].route = "options" THEN Reply(h, 204)
       ELSE IF request[h].route \in Protected /\ request[h].key # "right"
       THEN Local(h, [run[h] EXCEPT !.step = "bind", !.code = 403])
       ELSE Goto(h, "bind")

\* The CORS handler answers preflights; AdminAuth asks for the key on protected routes.
Guard(h) ==
    /\ At(h, "guard")
    /\ LET r == request[h] IN
       IF r.route = "options" THEN Reply(h, 204)
       ELSE IF r.route \in Protected /\ r.key = None THEN Reply(h, 401)
       ELSE IF r.route \in Protected /\ r.key # "right" THEN Reply(h, 403)
       ELSE Goto(h, "bind")

\* Only /search has the limiter in front, which may refuse while Redis answers.
Limit(h) ==
    /\ At(h, "bind")
    /\ request[h].route = "search" /\ Up("redis")
    /\ Reply(h, 429)

Bind(h) ==
    /\ At(h, "bind")
    /\ IF BadRequest(request[h]) THEN Reply(h, 400) ELSE Goto(h, FirstStep(request[h]))

Done(h) ==
    /\ At(h, "answer")
    /\ Local(h, Idle)

-----------------------------------------------------------------------------
(* GET /search with personalized=true. *)

Search(h) ==
    /\ At(h, "search")
    /\ IF Up("typesense") THEN Goto(h, "global") ELSE Reply(h, 500)

\* What if the flag of the IP alone decided?
PassOver(h) == At(h, "global") /\ Goto(h, "flag")

\* IsPersonalizationEnabled, two GETs; an error is taken for "not false".
ReadGlobal(h) ==
    /\ At(h, "global")
    /\ IF Up("redis") /\ Global \in off THEN Reply(h, 200) ELSE Goto(h, "flag")
ReadFlag(h) ==
    /\ At(h, "flag")
    /\ IF Up("redis") /\ Subject(request[h]) \in off
       THEN Reply(h, 200) ELSE Goto(h, "profile")

\* GetProfile: Redis runs the next read of the pipeline.
ReadKey(h) ==
    /\ At(h, "profile") /\ Up("redis")
    /\ run[h].upto < Len(Reads)
    /\ LET key == Reads[run[h].upto + 1] IN
       Local(h, [run[h] EXCEPT
                   !.upto = @ + 1,
                   !.got = @ \union ({key} \cap history[Subject(request[h])])])

\* GetProfile fails: the search is answered as if personalization were off.
ReadFails(h) ==
    /\ At(h, "profile") /\ ~Up("redis")
    /\ Reply(h, IF request[h].route = "search" THEN 200 ELSE 500)

HasProfile(h) == run[h].got # {}

\* nil without any history; whether a country dominates is left open.
UseProfile(h) ==
    /\ At(h, "profile")
    /\ run[h].upto = Len(Reads)
    /\ IF request[h].route = "profile" THEN Reply(h, IF HasProfile(h) THEN 200 ELSE 404)
       ELSE IF ~HasProfile(h) THEN Reply(h, 200)
       ELSE \/ Goto(h, "rerank")
            \/ "countries" \in run[h].got /\ ~request[h].filtered /\ Goto(h, "local")

\* The search in the dominant country; its error is ignored.
LocalSearch(h) == At(h, "local") /\ Goto(h, "rerank")

Rerank(h) ==
    /\ At(h, "rerank")
    /\ Local(h, Answered([run[h] EXCEPT !.boosted = TRUE], 200))

-----------------------------------------------------------------------------
(* The toggles and the resets: one command, which the client sends again when its *)
(* reply is lost. *)

Write(h) ==
    /\ At(h, "write") /\ Up("redis")
    /\ LET r == request[h] IN
       IF r.route \in {"toggle global", "toggle ip"}
       THEN /\ off' = IF r.enabled THEN off \ {Subject(r)} ELSE off \union {Subject(r)}
            /\ UNCHANGED history
       ELSE history' = [history EXCEPT ![Subject(r)] = {}] /\ UNCHANGED off
    /\ run' = [run EXCEPT ![h].step = "written", ![h].wrote = TRUE]
    /\ UNCHANGED <<down, request>>

\* What if the error of the command were dropped?
WriteLost(h) == At(h, "write") /\ ~Up("redis") /\ Reply(h, 200)
WriteFails(h) == At(h, "write") /\ ~Up("redis") /\ Reply(h, 500)

Written(h) ==
    /\ At(h, "written")
    /\ IF Up("redis") THEN Reply(h, 200) ELSE Goto(h, "write")

-----------------------------------------------------------------------------
(* GET /health: three goroutines and the handler that waits for them. *)

Probe(h, s) ==
    /\ At(h, "probe")
    /\ s \notin run[h].probed
    /\ Local(h, [run[h] EXCEPT
                   !.probed = @ \union {s},
                   !.failed = IF Up(s) THEN @ ELSE @ \union {s}])

HealthCode(h) == IF run[h].failed = {} THEN 200 ELSE 503

\* What if the handler did not wait?
Unjoined(h) == At(h, "probe") /\ Reply(h, HealthCode(h))
\* wg.Wait
Join(h) == At(h, "probe") /\ run[h].probed = Service /\ Reply(h, HealthCode(h))

-----------------------------------------------------------------------------
(* Elsewhere. *)

\* Another replica of the API serves an admin.
SetToggle(t, enabled) ==
    /\ off' = IF enabled THEN off \ {t} ELSE off \union {t}
    /\ UNCHANGED <<history, down, request, run>>

\* The personalizer writes to one key of a profile.
Remember(c, k) ==
    /\ history' = [history EXCEPT ![c] = @ \union {k}]
    /\ UNCHANGED <<off, down, request, run>>

\* A reset elsewhere deletes all keys at once; an expiry deletes one.
Forget(c, keys) ==
    /\ history' = [history EXCEPT ![c] = @ \ keys]
    /\ UNCHANGED <<off, down, request, run>>

GoDown(s) ==
    /\ Cardinality(down) < MaxDown
    /\ down' = down \union {s}
    /\ UNCHANGED <<off, history, request, run>>

ComeBack(s) ==
    /\ down' = down \ {s}
    /\ UNCHANGED <<off, history, request, run>>

-----------------------------------------------------------------------------

Step(h) ==
    \/ Guard(h) \/ Limit(h) \/ Bind(h) \/ Done(h)
    \/ Search(h) \/ ReadGlobal(h) \/ ReadFlag(h) \/ ReadKey(h) \/ ReadFails(h)
    \/ UseProfile(h) \/ LocalSearch(h) \/ Rerank(h)
    \/ Write(h) \/ WriteFails(h) \/ Written(h)
    \/ Join(h) \/ \E s \in Service : Probe(h, s)

Elsewhere ==
    \/ \E t \in {Global} \union IP, enabled \in BOOLEAN : SetToggle(t, enabled)
    \/ \E c \in IP : \E k \in ProfileKeys : Remember(c, k) \/ Forget(c, {k})
    \/ \E c \in IP : Forget(c, ProfileKeys)
    \/ \E s \in Service : GoDown(s) \/ ComeBack(s)

Next ==
    /\ \/ \E h \in Handler : Step(h) \/ \E r \in Request : Receive(h, r)
       \/ Elsewhere
    /\ Witness

Spec == Init /\ [][Next]_vars

-----------------------------------------------------------------------------
(* Properties, of the answer a handler is about to send. *)

Stage ==
    {"idle", "guard", "bind", "search", "global", "flag", "profile", "local", "rerank",
     "write", "written", "probe", "answer"}

Code == {0, 200, 204, 400, 401, 403, 404, 429, 500, 503}

Run ==
    [step : Stage, upto : 0..Len(Reads), got : SUBSET ProfileKeys, boosted : BOOLEAN,
     probed : SUBSET Service, failed : SUBSET Service,
     code : Code, wrote : BOOLEAN]

TypeOK ==
    /\ off \subseteq {Global} \union IP
    /\ history \in [IP -> SUBSET ProfileKeys]
    /\ down \subseteq Service
    /\ request \in [Handler -> Request]
    /\ run \in [Handler -> Run]
    /\ DOMAIN seen = Handler
    /\ \A h \in Handler : seen[h] \subseteq Things(request[h]) \X BOOLEAN

Answers(h, routes, status) ==
    At(h, "answer") /\ request[h].route \in routes /\ run[h].code = status

\* It held, or did not, at some moment of the request.
Was(h, thing) == <<thing, TRUE>> \in seen[h]
WasNot(h, thing) == <<thing, FALSE>> \in seen[h]

AllWereEmpty(h) == \A k \in ProfileKeys : WasNot(h, k)

\* A personalized answer has its reasons: the client had some history at some moment of
\* the request, and each toggle was on at some moment of it unless Redis was down, which
\* the code takes for on.  A plain answer has one of the opposite reasons.
PersonalizedForAReason ==
    \A h \in Handler : Answers(h, {"search"}, 200) =>
        IF run[h].boosted
        THEN /\ \E k \in ProfileKeys : Was(h, k)
             /\ WasNot(h, "redis") \/ (Was(h, "global") /\ Was(h, "ip"))
        ELSE WasNot(h, "redis") \/ WasNot(h, "global") \/ WasNot(h, "ip") \/ AllWereEmpty(h)

\* What the other endpoints say was so: a profile shows of each key what the key held at
\* some moment of the request, "no profile" means that each key was empty at some moment,
\* a reset or a toggle that succeeded has taken effect, though Redis may have lost the
\* first reply, and an error is one of the service's.
AnswersAreTrue ==
    \A h \in Handler :
        LET r == request[h] IN
        /\ Answers(h, {"profile"}, 200) =>
             /\ run[h].got # {}
             /\ \A k \in ProfileKeys : IF k \in run[h].got THEN Was(h, k) ELSE WasNot(h, k)
        /\ Answers(h, {"profile"}, 404) \/ Answers(h, {"reset", "reset mine"}, 200) =>
             AllWereEmpty(h)
        /\ Answers(h, {"toggle global"}, 200) => <<"global", r.enabled>> \in seen[h]
        /\ Answers(h, {"toggle ip"}, 200) => <<"ip", r.enabled>> \in seen[h]
        /\ Answers(h, Route \ {"search"}, 500) => WasNot(h, "redis")
        /\ Answers(h, {"search"}, 500) => WasNot(h, "typesense")

\* A request that is refused has changed nothing: no toggle and no profile changes on a
\* preflight, without the key, without an address or against the limit.
RefusedChangesNothing ==
    \A h \in Handler :
        At(h, "answer") /\ run[h].code \in {204, 400, 401, 403, 404, 429} => ~run[h].wrote

\* The health endpoint speaks of what it saw: a service it calls ok was up at some moment
\* of the request and one it calls an error was down, and it says 200 when all were ok.
HealthIsTrue ==
    \A h \in Handler : At(h, "answer") /\ request[h].route = "health" =>
        /\ \A s \in Service : IF s \in run[h].failed THEN WasNot(h, s) ELSE Was(h, s)
        /\ run[h].code = 200 <=> run[h].failed = {}
=============================================================================
