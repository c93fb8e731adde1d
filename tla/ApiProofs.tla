------------------------------ MODULE ApiProofs ------------------------------
(***************************************************************************)
(* What the API's answers are worth, for any number of requests at work,   *)
(* any addresses, any keys of a profile and any outages.                   *)
(*                                                                         *)
(* Each handler is looked at alone: what it has noted down (run), what it  *)
(* was asked (request) and what has held since (seen).  The invariant      *)
(* Justified relates the three and mentions no store, so whatever the      *)
(* others do only adds to what has held, and Justified stays true.         *)
(***************************************************************************)
EXTENDS Api, TLAPS

Writing == {"toggle global", "toggle ip", "reset", "reset mine"}
Refusals == {204, 400, 401, 403, 404, 429}

\* w has seen that each key was empty; that the write of r was in effect.
EmptyIn(w) == \A k \in ProfileKeys : <<k, FALSE>> \in w
EffectIn(r, w) ==
    IF r.route = "toggle global" THEN <<"global", r.enabled>> \in w
    ELSE IF r.route = "toggle ip" THEN <<"ip", r.enabled>> \in w
    ELSE EmptyIn(w)

\* The toggle was on, or Redis was down when it was asked.
OnIn(toggle, w) == <<"redis", FALSE>> \in w \/ <<toggle, TRUE>> \in w

\* What an answer s to r says is borne out by w.
TrueAnswer(s, r, w) ==
    /\ r.route = "search" /\ s.code = 200 =>
         IF s.boosted
         THEN s.got # {} /\ OnIn("global", w) /\ OnIn("ip", w)
         ELSE \/ EmptyIn(w)
              \/ \E thing \in {"redis", "global", "ip"} : <<thing, FALSE>> \in w
    /\ r.route = "search" /\ s.code = 500 => <<"typesense", FALSE>> \in w
    /\ r.route # "search" /\ s.code = 500 => <<"redis", FALSE>> \in w
    /\ r.route = "profile" /\ s.code = 200 => s.got # {} /\ s.upto = Len(Reads)
    /\ r.route = "profile" /\ s.code = 404 => EmptyIn(w)
    /\ r.route \in Writing /\ s.code = 200 => EffectIn(r, w)
    /\ r.route = "health" =>
         /\ s.probed = Service
         /\ s.code = IF s.failed = {} THEN 200 ELSE 503
    /\ s.code \in Refusals => ~s.wrote

\* Whatever the handler s of r has noted down is borne out by w.
NotesTrue(s, w) ==
    /\ \A k \in s.got : <<k, TRUE>> \in w
    /\ \A i \in 1..s.upto : Reads[i] \in s.got \/ <<Reads[i], FALSE>> \in w
    /\ s.failed \subseteq s.probed
    /\ \A t \in s.probed : <<t, t \notin s.failed>> \in w

\* The way of a request: which routes come to which step, and with what behind them.
OnItsWay(s, r, w) ==
    /\ s.step # "answer" => s.code = 0 /\ ~s.boosted
    /\ s.wrote => r.route \in Writing /\ s.step \in {"write", "written", "answer"}
    /\ s.step = "bind" => r.route # "options"
    /\ s.step \notin {"idle", "guard", "bind", "answer"} => ~BadRequest(r)
    /\ s.step \in {"search", "global", "flag", "local", "rerank"} => r.route = "search"
    /\ s.step = "profile" => r.route \in {"search", "profile"}
    /\ s.step = "probe" => r.route = "health"
    /\ s.step \in {"write", "written"} => r.route \in Writing
    /\ s.step \in {"flag", "profile", "local", "rerank"} /\ r.route = "search" =>
         OnIn("global", w)
    /\ s.step \in {"profile", "local", "rerank"} /\ r.route = "search" => OnIn("ip", w)
    /\ s.step \in {"local", "rerank"} => s.got # {}
    /\ s.step = "written" => EffectIn(r, w)

Justified(s, r, w) ==
    /\ NotesTrue(s, w)
    /\ OnItsWay(s, r, w)
    /\ s.step = "answer" => TrueAnswer(s, r, w)

\* An idle handler remembers nothing; one at work has seen what holds now.
SeesNow(h) ==
    IF At(h, "idle") THEN run[h] = Idle /\ seen[h] = {} ELSE Found(request[h]) \subseteq seen[h]

ApiInv ==
    /\ TypeOK
    /\ \A h \in Handler : SeesNow(h) /\ Justified(run[h], request[h], seen[h])

-----------------------------------------------------------------------------
(* The operators. *)

LEMMA HoldsFacts ==
    ASSUME NEW r
    PROVE  /\ Holds(r, "global") = (Global \notin off)
           /\ Holds(r, "ip") = (Subject(r) \notin off)
           /\ \A k \in ProfileKeys :
                Holds(r, k) = (Subject(r) \in IP /\ k \in history[Subject(r)])
           /\ \A s \in Service : Holds(r, s) = (s \notin down)
BY ApiAssumption DEF ApiAssumption, Holds, Service

LEMMA ThingsFacts ==
    ASSUME NEW r
    PROVE  /\ Things(r) \subseteq ProfileKeys \union {"global", "ip"} \union Service
           /\ r.route = "search" =>
                {"global", "ip", "redis", "typesense"} \union ProfileKeys \subseteq Things(r)
           /\ r.route \in {"profile", "reset", "reset mine"} =>
                {"redis"} \union ProfileKeys \subseteq Things(r)
           /\ r.route = "health" => Service \subseteq Things(r)
           /\ r.route = "toggle global" => {"global", "redis"} \subseteq Things(r)
           /\ r.route = "toggle ip" => {"ip", "redis"} \subseteq Things(r)
BY DEF Things, Service

LEMMA HoldsType ==
    ASSUME NEW r, NEW t \in Things(r)
    PROVE  Holds(r, t) \in BOOLEAN
BY HoldsFacts, ThingsFacts

LEMMA FoundFacts ==
    ASSUME NEW r
    PROVE  /\ Found(r) \subseteq Things(r) \X BOOLEAN
           /\ \A t \in Things(r) : <<t, Holds(r, t)>> \in Found(r)
BY HoldsType DEF Found

\* What has been borne out stays so.
LEMMA JustifiedGrows ==
    ASSUME NEW s, NEW r, NEW w, NEW v, w \subseteq v, Justified(s, r, w)
    PROVE  Justified(s, r, v)
<1>1. NotesTrue(s, v)
  BY DEF Justified, NotesTrue
<1>2. /\ EmptyIn(w) => EmptyIn(v)
      /\ EffectIn(r, w) => EffectIn(r, v)
      /\ \A toggle : OnIn(toggle, w) => OnIn(toggle, v)
  BY DEF EmptyIn, EffectIn, OnIn
<1>3. OnItsWay(s, r, v)
  BY <1>2 DEF Justified, OnItsWay
<1>4. s.step = "answer" => TrueAnswer(s, r, v)
  BY <1>2 DEF Justified, TrueAnswer
<1> QED
  BY <1>1, <1>3, <1>4 DEF Justified

-----------------------------------------------------------------------------
(* One handler's own steps. *)

LEMMA RequestFacts ==
    ASSUME NEW r \in Request
    PROVE  /\ r.route \in Route /\ r.enabled \in BOOLEAN
           /\ r.query \in IP \union {None} /\ r.body \in IP \union {None}
           /\ Subject(r) \in IP \union {None, Global}
           /\ r.route \in {"search", "reset mine"} => Subject(r) \in IP
           /\ r.route \in {"profile", "reset", "toggle ip"} /\ ~BadRequest(r) => Subject(r) \in IP
           /\ r.route = "toggle global" => Subject(r) = Global
<1>1. /\ r.route \in Route /\ r.enabled \in BOOLEAN
      /\ r.query \in IP \union {None} /\ r.body \in IP \union {None}
      /\ r.forwarded \in IP \union {None} /\ r.remote \in IP
  BY ApiAssumption DEF ApiAssumption
<1>2. ClientIP(r) \in IP
  BY <1>1 DEF ClientIP
<1> QED
  BY <1>1, <1>2 DEF Subject, BadRequest, Route, Protected

LEMMA MovedFacts ==
    ASSUME NEW s \in Run, NEW there
    PROVE  LET n == [s EXCEPT !.step = there] IN
           /\ n.step = there
           /\ n.upto = s.upto /\ n.got = s.got /\ n.boosted = s.boosted
           /\ n.probed = s.probed /\ n.failed = s.failed
           /\ n.code = s.code /\ n.wrote = s.wrote
BY DEF Run

LEMMA AnsweredFacts ==
    ASSUME NEW s \in Run, s.code = 0, NEW status
    PROVE  LET n == Answered(s, status) IN
           /\ n.step = "answer" /\ n.code = status
           /\ n.upto = s.upto /\ n.got = s.got /\ n.boosted = s.boosted
           /\ n.probed = s.probed /\ n.failed = s.failed
           /\ n.wrote = s.wrote
BY DEF Run, Answered

\* What the handler finds now has been seen.
SeenIn(r, w) == \A t \in Things(r) : <<t, Holds(r, t)>> \in w

\* An answer is justified by what it says, given the notes before it.
LEMMA AnswerJustified ==
    ASSUME NEW s \in Run, NEW r, NEW w, NEW status, Justified(s, r, w), s.step # "answer",
           TrueAnswer(Answered(s, status), r, w)
    PROVE  Justified(Answered(s, status), r, w)
<1> DEFINE n == Answered(s, status)
<1>1. /\ n.step = "answer" /\ n.code = status
      /\ n.upto = s.upto /\ n.got = s.got /\ n.boosted = s.boosted
      /\ n.probed = s.probed /\ n.failed = s.failed
      /\ n.wrote = s.wrote
  BY AnsweredFacts DEF Justified, OnItsWay
<1>2. NotesTrue(n, w)
  BY <1>1 DEF Justified, NotesTrue
<1>3. OnItsWay(n, r, w)
  BY <1>1 DEF Justified, OnItsWay
<1> QED
  BY <1>2, <1>3 DEF Justified

\* A handler that goes to a step has what the step asks for.
LEMMA MoveJustified ==
    ASSUME NEW s \in Run, NEW r, NEW w, NEW there \in Stage \ {"answer"},
           Justified(s, r, w), s.step # "answer",
           OnItsWay([s EXCEPT !.step = there], r, w)
    PROVE  Justified([s EXCEPT !.step = there], r, w)
<1> DEFINE n == [s EXCEPT !.step = there]
<1>1. /\ n.step = there
      /\ n.upto = s.upto /\ n.got = s.got /\ n.boosted = s.boosted
      /\ n.probed = s.probed /\ n.failed = s.failed
      /\ n.code = s.code /\ n.wrote = s.wrote
  BY MovedFacts
<1>2. NotesTrue(n, w)
  BY <1>1 DEF Justified, NotesTrue
<1> QED
  BY <1>1, <1>2 DEF Justified

LEMMA ReplyKeeps ==
    ASSUME TypeOK, NEW h \in Handler, NEW w, Justified(run[h], request[h], w),
           ~At(h, "answer"), NEW status, Reply(h, status),
           TrueAnswer(Answered(run[h], status), request[h], w)
    PROVE  Justified(run'[h], request[h], w)
<1>1. run[h] \in Run /\ run'[h] = Answered(run[h], status)
  BY DEF TypeOK, Reply, Local
<1> QED
  BY <1>1, AnswerJustified DEF At

LEMMA GotoKeeps ==
    ASSUME TypeOK, NEW h \in Handler, NEW w, Justified(run[h], request[h], w),
           ~At(h, "answer"), NEW there \in Stage \ {"answer"}, Goto(h, there),
           OnItsWay([run[h] EXCEPT !.step = there], request[h], w)
    PROVE  Justified(run'[h], request[h], w)
<1>1. run[h] \in Run /\ run'[h] = [run[h] EXCEPT !.step = there]
  BY DEF TypeOK, Goto, Local
<1> QED
  BY <1>1, MoveJustified DEF At

\* The middleware.
LEMMA FrontKeeps ==
    ASSUME TypeOK, NEW h \in Handler, NEW w, Justified(run[h], request[h], w),
           SeenIn(request[h], w), Guard(h) \/ Limit(h) \/ Bind(h)
    PROVE  Justified(run'[h], request[h], w)
<1> DEFINE s == run[h]
           r == request[h]
<1>1. s \in Run /\ r \in Request
  BY DEF TypeOK
<1>2. NotesTrue(s, w) /\ OnItsWay(s, r, w)
  BY DEF Justified
<1>3. s.step \in {"guard", "bind"} /\ ~s.wrote /\ r.route \in Route
  BY <1>1, <1>2, RequestFacts DEF Guard, Limit, Bind, At, OnItsWay
<1>4. ASSUME NEW status \in {204, 400, 401, 403, 429}, Reply(h, status),
             r.route # "health"
      PROVE  Justified(run'[h], r, w)
  <2>1. s.code = 0
    BY <1>2, <1>3 DEF OnItsWay
  <2>2. Answered(s, status).code = status /\ Answered(s, status).wrote = s.wrote
    BY <1>1, <2>1, AnsweredFacts
  <2>3. TrueAnswer(Answered(s, status), r, w)
    BY <1>3, <1>4, <2>2 DEF TrueAnswer
  <2> QED
    BY <1>3, <1>4, <2>3, ReplyKeeps DEF At
<1>5. ASSUME NEW there \in Stage \ {"answer"}, Goto(h, there),
             OnItsWay([s EXCEPT !.step = there], r, w)
      PROVE  Justified(run'[h], r, w)
  BY <1>3, <1>5, GotoKeeps DEF At
<1>6. CASE Guard(h)
  <2>1. s.step = "guard"
    BY <1>6 DEF Guard, At
  <2>2. CASE r.route = "options"
    <3>1. Reply(h, 204) /\ r.route # "health"
      BY <1>6, <2>2 DEF Guard
    <3> QED
      BY <1>4, <3>1
  <2>3. CASE r.route \in Protected /\ \E status \in {401, 403} : Reply(h, status)
    <3>1. PICK status \in {401, 403} : Reply(h, status)
      BY <2>3
    <3>2. r.route # "health"
      BY <2>3 DEF Protected
    <3> QED
      BY <1>4, <3>1, <3>2
  <2>4. CASE r.route # "options" /\ Goto(h, "bind")
    <3>1. OnItsWay([s EXCEPT !.step = "bind"], r, w)
      BY <1>1, <1>2, <1>3, <2>4, MovedFacts DEF OnItsWay
    <3> QED
      BY <1>5, <2>4, <3>1 DEF Stage
  <2> QED
    BY <1>6, <2>2, <2>3, <2>4 DEF Guard
<1>7. CASE Limit(h)
  BY <1>4, <1>7 DEF Limit
<1>8. CASE Bind(h)
  <2>1. s.step = "bind" /\ r.route # "options"
    BY <1>2, <1>8 DEF Bind, At, OnItsWay
  <2>2. CASE BadRequest(r) /\ Reply(h, 400)
    BY <1>4, <2>2 DEF BadRequest
  <2>3. CASE ~BadRequest(r) /\ Goto(h, FirstStep(r))
    <3>1. /\ FirstStep(r) \in {"search", "profile", "probe", "write"}
          /\ FirstStep(r) = "search" => r.route = "search"
          /\ FirstStep(r) = "profile" => r.route = "profile"
          /\ FirstStep(r) = "probe" => r.route = "health"
          /\ FirstStep(r) = "write" => r.route \in Writing
      BY <1>3, <2>1 DEF FirstStep, Writing, Route, Protected
    <3>2. OnItsWay([s EXCEPT !.step = FirstStep(r)], r, w)
      BY <1>1, <1>2, <1>3, <2>1, <2>3, <3>1, MovedFacts DEF OnItsWay
    <3> QED
      BY <1>5, <2>3, <3>1, <3>2 DEF Stage
  <2> QED
    BY <1>8, <2>2, <2>3 DEF Bind
<1> QED
  BY <1>6, <1>7, <1>8

LEMMA PlainAnswer ==
    ASSUME NEW n, NEW r, NEW w, r.route = "search", n.code = 200, ~n.boosted,
           EmptyIn(w) \/ \E thing \in {"redis", "global", "ip"} : <<thing, FALSE>> \in w
    PROVE  TrueAnswer(n, r, w)
BY DEF TrueAnswer, Refusals, Writing

\* GET /search, as far as the toggles.
LEMMA TogglesKeep ==
    ASSUME TypeOK, NEW h \in Handler, NEW w, Justified(run[h], request[h], w),
           SeenIn(request[h], w), Search(h) \/ ReadGlobal(h) \/ ReadFlag(h)
    PROVE  Justified(run'[h], request[h], w)
<1> DEFINE s == run[h]
           r == request[h]
<1>1. s \in Run /\ r \in Request
  BY DEF TypeOK
<1>2. NotesTrue(s, w) /\ OnItsWay(s, r, w)
  BY DEF Justified
<1>3. /\ s.step \in {"search", "global", "flag"} /\ r.route = "search"
      /\ s.code = 0 /\ ~s.boosted /\ ~s.wrote
  BY <1>2 DEF Search, ReadGlobal, ReadFlag, At, OnItsWay, Writing
<1>4. /\ <<"global", Global \notin off>> \in w
      /\ <<"ip", Subject(r) \notin off>> \in w
      /\ <<"redis", "redis" \notin down>> \in w
      /\ <<"typesense", "typesense" \notin down>> \in w
  BY <1>3, HoldsFacts, ThingsFacts DEF SeenIn, Service
<1>5. ASSUME NEW status, Reply(h, status), TrueAnswer(Answered(s, status), r, w)
      PROVE  Justified(run'[h], r, w)
  BY <1>3, <1>5, ReplyKeeps DEF At
<1>6. ASSUME NEW there \in {"global", "flag", "profile"}, Goto(h, there),
             there \in {"flag", "profile"} => OnIn("global", w),
             there = "profile" => OnIn("ip", w)
      PROVE  Justified(run'[h], r, w)
  <2>1. OnItsWay([s EXCEPT !.step = there], r, w)
    BY <1>1, <1>2, <1>3, <1>6, MovedFacts DEF OnItsWay
  <2> QED
    BY <1>3, <1>6, <2>1, GotoKeeps DEF At, Stage
<1>7. /\ Answered(s, 200).code = 200 /\ ~Answered(s, 200).boosted
      /\ Answered(s, 500).code = 500
  BY <1>1, <1>3, AnsweredFacts
<1>8. CASE Search(h)
  <2>1. CASE Up("typesense") /\ Goto(h, "global")
    BY <1>6, <2>1
  <2>2. CASE ~Up("typesense") /\ Reply(h, 500)
    <3>1. <<"typesense", FALSE>> \in w
      BY <1>4, <2>2 DEF Up
    <3>2. TrueAnswer(Answered(s, 500), r, w)
      BY <1>3, <1>7, <3>1 DEF TrueAnswer, Refusals, Writing
    <3> QED
      BY <1>5, <2>2, <3>2
  <2> QED
    BY <1>8, <2>1, <2>2 DEF Search
<1>9. CASE ReadGlobal(h)
  <2>1. CASE Global \in off /\ Reply(h, 200)
    <3>1. <<"global", FALSE>> \in w
      BY <1>4, <2>1
    <3>2. TrueAnswer(Answered(s, 200), r, w)
      BY <1>3, <1>7, <3>1, PlainAnswer
    <3> QED
      BY <1>5, <2>1, <3>2
  <2>2. CASE ~(Up("redis") /\ Global \in off) /\ Goto(h, "flag")
    <3>1. OnIn("global", w)
      BY <1>4, <2>2 DEF OnIn, Up
    <3> QED
      BY <1>6, <2>2, <3>1
  <2> QED
    BY <1>9, <2>1, <2>2 DEF ReadGlobal
<1>10. CASE ReadFlag(h)
  <2>1. CASE Subject(r) \in off /\ Reply(h, 200)
    <3>1. <<"ip", FALSE>> \in w
      BY <1>4, <2>1
    <3>2. TrueAnswer(Answered(s, 200), r, w)
      BY <1>3, <1>7, <3>1, PlainAnswer
    <3> QED
      BY <1>5, <2>1, <3>2
  <2>2. CASE ~(Up("redis") /\ Subject(r) \in off) /\ Goto(h, "profile")
    <3>1. OnIn("global", w) /\ OnIn("ip", w)
      BY <1>2, <1>3, <1>4, <1>10, <2>2 DEF OnIn, Up, OnItsWay, ReadFlag, At
    <3> QED
      BY <1>6, <2>2, <3>1
  <2> QED
    BY <1>10, <2>1, <2>2 DEF ReadFlag
<1> QED
  BY <1>8, <1>9, <1>10

\* The profile, key by key.
LEMMA ReadKeyKeeps ==
    ASSUME TypeOK, NEW h \in Handler, NEW w, Justified(run[h], request[h], w),
           SeenIn(request[h], w), ReadKey(h)
    PROVE  Justified(run'[h], request[h], w)
<1> DEFINE s == run[h]
           r == request[h]
<1>1. s \in Run /\ r \in Request
  BY DEF TypeOK
<1>2. NotesTrue(s, w) /\ OnItsWay(s, r, w)
  BY DEF Justified
<1> DEFINE key == Reads[s.upto + 1]
           n == [s EXCEPT !.upto = @ + 1, !.got = @ \union ({key} \cap history[Subject(r)])]
<1>3. /\ s.step = "profile" /\ s.code = 0 /\ ~s.boosted /\ ~s.wrote
      /\ r.route \in {"search", "profile"} /\ Subject(r) \in IP
  BY <1>1, <1>2, RequestFacts DEF ReadKey, At, OnItsWay, Writing
<1>4. /\ s.upto \in Nat /\ s.upto < Len(Reads) /\ Len(Reads) \in Nat
      /\ s.upto + 1 \in 1..Len(Reads)
      /\ key \in ProfileKeys
  BY <1>1, ApiAssumption DEF ApiAssumption, ReadKey, Run, ProfileKeys
<1>5. run'[h] = n
  BY DEF TypeOK, ReadKey, Local
<1>6. /\ key \in history[Subject(r)] => <<key, TRUE>> \in w
      /\ key \notin history[Subject(r)] => <<key, FALSE>> \in w
  <2>1. <<key, Holds(r, key)>> \in w
    BY <1>3, <1>4, ThingsFacts DEF SeenIn
  <2>2. Holds(r, key) = (Subject(r) \in IP /\ key \in history[Subject(r)])
    BY <1>4, HoldsFacts
  <2>3. CASE key \in history[Subject(r)]
    <3>1. Holds(r, key) = TRUE
      BY <1>3, <2>2, <2>3
    <3> QED
      BY <2>1, <2>3, <3>1
  <2>4. CASE key \notin history[Subject(r)]
    <3>1. Holds(r, key) = FALSE
      BY <2>2, <2>4
    <3> QED
      BY <2>1, <2>4, <3>1
  <2> QED
    BY <2>3, <2>4
<1>7. /\ n.step = s.step /\ n.upto = s.upto + 1
      /\ n.got = s.got \union ({key} \cap history[Subject(r)])
      /\ n.boosted = s.boosted /\ n.probed = s.probed /\ n.failed = s.failed
      /\ n.code = s.code /\ n.wrote = s.wrote
  BY <1>1 DEF Run
<1> HIDE DEF n
<1>8. ASSUME NEW k \in n.got PROVE <<k, TRUE>> \in w
  <2>1. CASE k \in s.got
    BY <1>2, <2>1 DEF NotesTrue
  <2>2. CASE k = key /\ key \in history[Subject(r)]
    BY <1>6, <2>2
  <2> QED
    BY <1>7, <1>8, <2>1, <2>2
<1>9. ASSUME NEW i \in 1..n.upto PROVE Reads[i] \in n.got \/ <<Reads[i], FALSE>> \in w
  <2>1. i \in 1..s.upto \/ i = s.upto + 1
    BY <1>4, <1>7
  <2>2. CASE i \in 1..s.upto
    BY <1>2, <1>7, <2>2 DEF NotesTrue
  <2>3. CASE i = s.upto + 1 /\ key \in history[Subject(r)]
    BY <1>7, <2>3
  <2>4. CASE i = s.upto + 1 /\ key \notin history[Subject(r)]
    BY <1>6, <2>4
  <2> QED
    BY <2>1, <2>2, <2>3, <2>4
<1>10. NotesTrue(n, w)
  BY <1>2, <1>7, <1>8, <1>9 DEF NotesTrue
<1>11. OnItsWay(n, r, w)
  BY <1>2, <1>3, <1>7 DEF OnItsWay
<1> QED
  BY <1>3, <1>5, <1>7, <1>10, <1>11 DEF Justified

\* What is made of the profile.
LEMMA UseProfileKeeps ==
    ASSUME TypeOK, NEW h \in Handler, NEW w, Justified(run[h], request[h], w),
           SeenIn(request[h], w), ReadFails(h) \/ UseProfile(h) \/ LocalSearch(h) \/ Rerank(h)
    PROVE  Justified(run'[h], request[h], w)
<1> DEFINE s == run[h]
           r == request[h]
<1>1. s \in Run /\ r \in Request
  BY DEF TypeOK
<1>2. NotesTrue(s, w) /\ OnItsWay(s, r, w)
  BY DEF Justified
<1>3. /\ s.step \in {"profile", "local", "rerank"} /\ r.route \in {"search", "profile"}
      /\ s.code = 0 /\ ~s.boosted /\ ~s.wrote /\ ~BadRequest(r)
      /\ r.route = "search" => OnIn("global", w) /\ OnIn("ip", w)
  BY <1>2 DEF ReadFails, UseProfile, LocalSearch, Rerank, At, OnItsWay, Writing
<1>4. \A status : /\ Answered(s, status).code = status /\ ~Answered(s, status).boosted
                  /\ ~Answered(s, status).wrote /\ Answered(s, status).got = s.got
                  /\ Answered(s, status).upto = s.upto
  BY <1>1, <1>3, AnsweredFacts
<1>5. ASSUME NEW status, Reply(h, status), TrueAnswer(Answered(s, status), r, w)
      PROVE  Justified(run'[h], r, w)
  BY <1>3, <1>5, ReplyKeeps DEF At
<1>6. ASSUME NEW there \in {"local", "rerank"}, Goto(h, there), s.got # {}, r.route = "search"
      PROVE  Justified(run'[h], r, w)
  <2>1. OnItsWay([s EXCEPT !.step = there], r, w)
    BY <1>1, <1>2, <1>3, <1>6, MovedFacts DEF OnItsWay
  <2> QED
    BY <1>3, <1>6, <2>1, GotoKeeps DEF At, Stage
<1>7. CASE ReadFails(h)
  <2>1. <<"redis", FALSE>> \in w
    <3>1. <<"redis", "redis" \notin down>> \in w
      BY <1>3, HoldsFacts, ThingsFacts DEF SeenIn, Service
    <3> QED
      BY <1>7, <3>1 DEF ReadFails, Up
  <2>2. CASE r.route = "search"
    <3>1. Reply(h, 200) /\ TrueAnswer(Answered(s, 200), r, w)
      BY <1>4, <1>7, <2>1, <2>2, PlainAnswer DEF ReadFails
    <3> QED
      BY <1>5, <3>1
  <2>3. CASE r.route = "profile"
    <3>1. Reply(h, 500) /\ TrueAnswer(Answered(s, 500), r, w)
      BY <1>4, <1>7, <2>1, <2>3 DEF ReadFails, TrueAnswer, Refusals, Writing
    <3> QED
      BY <1>5, <3>1
  <2> QED
    BY <1>3, <2>2, <2>3
<1>8. CASE UseProfile(h)
  <2>1. s.upto = Len(Reads)
    BY <1>8 DEF UseProfile
  <2>2. ASSUME s.got = {} PROVE EmptyIn(w)
    <3>1. SUFFICES ASSUME NEW i \in DOMAIN Reads PROVE <<Reads[i], FALSE>> \in w
      BY DEF EmptyIn, ProfileKeys
    <3>2. i \in 1..s.upto
      BY <2>1, ApiAssumption DEF ApiAssumption
    <3> QED
      BY <1>2, <2>2, <3>2 DEF NotesTrue
  <2>3. CASE r.route = "profile" /\ s.got # {}
    <3>1. Reply(h, 200) /\ TrueAnswer(Answered(s, 200), r, w)
      BY <1>4, <1>8, <2>1, <2>3 DEF UseProfile, HasProfile, TrueAnswer, Refusals, Writing
    <3> QED
      BY <1>5, <3>1
  <2>4. CASE r.route = "profile" /\ s.got = {}
    <3>1. Reply(h, 404) /\ TrueAnswer(Answered(s, 404), r, w)
      BY <1>4, <1>8, <2>2, <2>4 DEF UseProfile, HasProfile, TrueAnswer, Refusals, Writing
    <3> QED
      BY <1>5, <3>1
  <2>5. CASE r.route = "search" /\ s.got = {}
    <3>1. Reply(h, 200) /\ TrueAnswer(Answered(s, 200), r, w)
      BY <1>4, <1>8, <2>2, <2>5, PlainAnswer DEF UseProfile, HasProfile
    <3> QED
      BY <1>5, <3>1
  <2>6. CASE r.route = "search" /\ s.got # {}
    BY <1>6, <1>8, <2>6 DEF UseProfile, HasProfile
  <2> QED
    BY <1>3, <2>3, <2>4, <2>5, <2>6
<1>9. CASE LocalSearch(h) \/ Rerank(h)
  <2>1. s.got # {} /\ r.route = "search"
    BY <1>2, <1>9 DEF LocalSearch, Rerank, At, OnItsWay
  <2>2. CASE LocalSearch(h)
    BY <1>6, <2>1, <2>2 DEF LocalSearch
  <2>3. CASE Rerank(h)
    <3> DEFINE n == [s EXCEPT !.boosted = TRUE]
               a == Answered(n, 200)
    <3>1. run'[h] = a
      BY <2>3 DEF Rerank, Local, TypeOK
    <3>2. /\ a.step = "answer" /\ a.code = 200 /\ a.boosted = TRUE
          /\ a.upto = s.upto /\ a.got = s.got /\ a.wrote = s.wrote
          /\ a.probed = s.probed /\ a.failed = s.failed
      BY <1>1, <1>3 DEF Run, Answered
    <3> HIDE DEF a
    <3>3. NotesTrue(a, w)
      BY <1>2, <3>2 DEF NotesTrue
    <3>4. OnItsWay(a, r, w)
      BY <1>3, <3>2 DEF OnItsWay
    <3>5. TrueAnswer(a, r, w)
      BY <1>3, <2>1, <3>2 DEF TrueAnswer, Refusals, Writing
    <3> QED
      BY <3>1, <3>3, <3>4, <3>5 DEF Justified
  <2> QED
    BY <1>9, <2>2, <2>3
<1> QED
  BY <1>7, <1>8, <1>9

\* The toggles and the resets: w has seen what holds after the write.
LEMMA WriteKeeps ==
    ASSUME TypeOK, NEW h \in Handler, NEW r, r = request[h],
           NEW w, Justified(run[h], r, w), Write(h),
           \A t \in Things(r) : <<t, Holds(r, t)'>> \in w
    PROVE  Justified(run'[h], r, w)
<1> DEFINE s == run[h]
<1>1. s \in Run /\ r \in Request
  BY DEF TypeOK
<1>2. NotesTrue(s, w) /\ OnItsWay(s, r, w)
  BY DEF Justified
<1> DEFINE n == [s EXCEPT !.step = "written", !.wrote = TRUE]
<1>3. /\ s.step = "write" /\ r.route \in Writing /\ s.code = 0 /\ ~s.boosted /\ ~BadRequest(r)
  BY <1>2 DEF Write, At, OnItsWay
<1>4. run'[h] = n
  BY DEF Write, TypeOK
<1>5. /\ n.step = "written" /\ n.wrote = TRUE /\ n.upto = s.upto /\ n.got = s.got
      /\ n.boosted = s.boosted /\ n.probed = s.probed /\ n.failed = s.failed
      /\ n.code = s.code
  BY <1>1 DEF Run
<1> HIDE DEF n
<1>6. NotesTrue(n, w)
  BY <1>2, <1>5 DEF NotesTrue
<1>7. /\ Holds(r, "global")' = (Global \notin off')
      /\ Holds(r, "ip")' = (Subject(r) \notin off')
      /\ \A k \in ProfileKeys :
           Holds(r, k)' = (Subject(r) \in IP /\ k \in history'[Subject(r)])
  BY ApiAssumption DEF ApiAssumption, Holds, Service
<1>8. r.enabled \in BOOLEAN /\ Subject(r) \in IP \union {Global}
  BY <1>1, <1>3, RequestFacts DEF Writing
<1>9. EffectIn(r, w)
  <2>1. CASE r.route = "toggle global"
    <3>1. <<"global", Holds(r, "global")'>> \in w
      BY <2>1, ThingsFacts
    <3>2. (Global \notin off') = r.enabled
      BY <1>1, <1>8, <2>1, RequestFacts DEF Write
    <3> QED
      BY <1>7, <2>1, <3>1, <3>2 DEF EffectIn
  <2>2. CASE r.route = "toggle ip"
    <3>1. <<"ip", Holds(r, "ip")'>> \in w
      BY <2>2, ThingsFacts
    <3>2. (Subject(r) \notin off') = r.enabled
      BY <1>8, <2>2 DEF Write
    <3> QED
      BY <1>7, <2>2, <3>1, <3>2 DEF EffectIn
  <2>3. CASE r.route \in {"reset", "reset mine"}
    <3>1. SUFFICES ASSUME NEW k \in ProfileKeys PROVE <<k, FALSE>> \in w
      BY <2>3 DEF EffectIn, EmptyIn
    <3>2. <<k, Holds(r, k)'>> \in w
      BY <2>3, ThingsFacts
    <3>3. Holds(r, k)' = FALSE
      BY <1>7, <2>3 DEF Write, TypeOK
    <3> QED
      BY <3>2, <3>3
  <2> QED
    BY <1>3, <2>1, <2>2, <2>3 DEF Writing
<1>10. OnItsWay(n, r, w)
  BY <1>3, <1>5, <1>9 DEF OnItsWay
<1> QED
  BY <1>4, <1>5, <1>6, <1>10 DEF Justified

LEMMA WriteAnswer ==
    ASSUME NEW n, NEW r, NEW w, r.route \in Writing,
           \/ n.code = 500 /\ <<"redis", FALSE>> \in w
           \/ n.code = 200 /\ EffectIn(r, w)
    PROVE  TrueAnswer(n, r, w)
<1>1. r.route \notin {"search", "profile", "health"}
  BY DEF Writing
<1>2. n.code \notin Refusals /\ n.code # 404
  BY DEF Refusals
<1> QED
  BY <1>1, <1>2 DEF TrueAnswer

LEMMA WrittenKeeps ==
    ASSUME TypeOK, NEW h \in Handler, NEW w, Justified(run[h], request[h], w),
           SeenIn(request[h], w), WriteFails(h) \/ Written(h)
    PROVE  Justified(run'[h], request[h], w)
<1> DEFINE s == run[h]
           r == request[h]
<1>1. s \in Run /\ r \in Request
  BY DEF TypeOK
<1>2. NotesTrue(s, w) /\ OnItsWay(s, r, w)
  BY DEF Justified
<1>3. /\ s.step \in {"write", "written"} /\ r.route \in Writing
      /\ s.code = 0 /\ ~s.boosted /\ ~BadRequest(r)
  BY <1>2 DEF WriteFails, Written, At, OnItsWay
<1>4. Answered(s, 200).code = 200 /\ Answered(s, 500).code = 500
  BY <1>1, <1>3, AnsweredFacts
<1>5. ASSUME NEW status, Reply(h, status), TrueAnswer(Answered(s, status), r, w)
      PROVE  Justified(run'[h], r, w)
  BY <1>3, <1>5, ReplyKeeps DEF At
<1>6. CASE WriteFails(h)
  <2>1. <<"redis", FALSE>> \in w
    <3>1. <<"redis", "redis" \notin down>> \in w
      BY <1>3, HoldsFacts, ThingsFacts DEF SeenIn, Service, Writing
    <3> QED
      BY <1>6, <3>1 DEF WriteFails, Up
  <2>2. TrueAnswer(Answered(s, 500), r, w)
    BY <1>3, <1>4, <2>1, WriteAnswer
  <2> QED
    BY <1>5, <1>6, <2>2 DEF WriteFails
<1>7. CASE Written(h) /\ Up("redis")
  <2>1. EffectIn(r, w)
    BY <1>2, <1>7 DEF Written, At, OnItsWay
  <2>2. TrueAnswer(Answered(s, 200), r, w)
    BY <1>3, <1>4, <2>1, WriteAnswer
  <2> QED
    BY <1>5, <1>7, <2>2 DEF Written
<1>8. CASE Written(h) /\ ~Up("redis")
  <2>1. OnItsWay([s EXCEPT !.step = "write"], r, w)
    BY <1>1, <1>2, <1>3, MovedFacts DEF OnItsWay
  <2> QED
    BY <1>3, <1>8, <2>1, GotoKeeps DEF Written, At, Stage
<1> QED
  BY <1>6, <1>7, <1>8

\* The probes and their join.
LEMMA HealthKeeps ==
    ASSUME TypeOK, NEW h \in Handler, NEW w, Justified(run[h], request[h], w),
           SeenIn(request[h], w), Join(h) \/ \E t \in Service : Probe(h, t)
    PROVE  Justified(run'[h], request[h], w)
<1> DEFINE s == run[h]
           r == request[h]
<1>1. s \in Run /\ r \in Request
  BY DEF TypeOK
<1>2. NotesTrue(s, w) /\ OnItsWay(s, r, w)
  BY DEF Justified
<1>3. /\ s.step = "probe" /\ r.route = "health"
      /\ s.code = 0 /\ ~s.boosted /\ ~s.wrote
  BY <1>2 DEF Join, Probe, At, OnItsWay, Writing
<1>4. ASSUME NEW t \in Service, Probe(h, t) PROVE Justified(run'[h], r, w)
  <2> DEFINE n == [s EXCEPT !.probed = @ \union {t},
                            !.failed = IF Up(t) THEN @ ELSE @ \union {t}]
  <2>1. run'[h] = n
    BY <1>4 DEF Probe, Local, TypeOK
  <2>2. /\ n.step = s.step /\ n.upto = s.upto /\ n.got = s.got /\ n.boosted = s.boosted
        /\ n.probed = s.probed \union {t}
        /\ n.failed = IF t \in down THEN s.failed \union {t} ELSE s.failed
        /\ n.code = s.code /\ n.wrote = s.wrote
    BY <1>1 DEF Run, Up
  <2> HIDE DEF n
  <2>3. /\ t \in down => <<t, FALSE>> \in w
        /\ t \notin down => <<t, TRUE>> \in w
    <3>1. <<t, Holds(r, t)>> \in w /\ Holds(r, t) = (t \notin down)
      BY <1>3, HoldsFacts, ThingsFacts DEF SeenIn
    <3>2. CASE t \in down
      BY <3>1, <3>2
    <3>3. CASE t \notin down
      BY <3>1, <3>3
    <3> QED
      BY <3>2, <3>3
  <2>4. ASSUME NEW u \in n.probed PROVE <<u, u \notin n.failed>> \in w
    <3>1. t \notin s.probed /\ s.failed \subseteq s.probed
      BY <1>2, <1>4 DEF Probe, NotesTrue
    <3>2. CASE u \in s.probed
      <4>1. u \notin n.failed <=> u \notin s.failed
        BY <2>2, <3>1, <3>2
      <4>2. <<u, u \notin s.failed>> \in w
        BY <1>2, <3>2 DEF NotesTrue
      <4> QED
        BY <4>1, <4>2
    <3>3. CASE u = t /\ t \in down
      BY <2>2, <2>3, <3>3
    <3>4. CASE u = t /\ t \notin down
      <4>1. u \notin n.failed
        BY <2>2, <3>1, <3>4
      <4> QED
        BY <2>3, <3>4, <4>1
    <3> QED
      BY <2>2, <2>4, <3>2, <3>3, <3>4
  <2>5. NotesTrue(n, w)
    BY <1>2, <2>2, <2>4 DEF NotesTrue
  <2>6. OnItsWay(n, r, w)
    BY <1>2, <1>3, <2>2 DEF OnItsWay
  <2> QED
    BY <1>3, <2>1, <2>2, <2>5, <2>6 DEF Justified
<1>5. CASE Join(h)
  <2> DEFINE code == IF s.failed = {} THEN 200 ELSE 503
  <2>1. Reply(h, code) /\ s.probed = Service
    BY <1>5 DEF Join, HealthCode
  <2>2. /\ Answered(s, code).code = code /\ Answered(s, code).failed = s.failed
        /\ Answered(s, code).probed = s.probed /\ Answered(s, code).wrote = s.wrote
    BY <1>1, <1>3, AnsweredFacts
  <2>3. TrueAnswer(Answered(s, code), r, w)
    BY <1>3, <2>1, <2>2 DEF TrueAnswer, Refusals, Writing
  <2> QED
    BY <1>3, <2>1, <2>3, ReplyKeeps DEF At
<1> QED
  BY <1>4, <1>5

-----------------------------------------------------------------------------
(* All steps. *)

LEMMA InitApi == Init => ApiInv
<1> SUFFICES ASSUME Init PROVE ApiInv
  OBVIOUS
<1>1. (CHOOSE r \in Request : TRUE) \in Request
  BY ApiAssumption DEF ApiAssumption
<1>2. Idle \in Run
  BY ApiAssumption DEF ApiAssumption, Idle, Run, Stage, Code
<1>3. TypeOK
  BY <1>1, <1>2 DEF Init, TypeOK
<1>4. ASSUME NEW h \in Handler PROVE SeesNow(h) /\ Justified(run[h], request[h], seen[h])
  <2>1. run[h] = Idle /\ seen[h] = {}
    BY DEF Init
  <2>2. NotesTrue(Idle, {}) /\ (\A r : OnItsWay(Idle, r, {})) /\ Idle.step # "answer"
    BY DEF NotesTrue, OnItsWay, Idle
  <2> QED
    BY <2>1, <2>2 DEF SeesNow, At, Justified, Idle
<1> QED
  BY <1>3, <1>4 DEF ApiInv

\* A handler that works stays with its request.
LEMMA AtWork ==
    ASSUME TypeOK, NEW h \in Handler, Step(h), ~Done(h)
    PROVE  /\ run[h].step # "idle" /\ run'[h].step # "idle"
           /\ request' = request
           /\ \A i \in Handler \ {h} : run'[i] = run[i]
           /\ Write(h) \/ UNCHANGED stores
<1> DEFINE s == run[h]
<1>1. s \in Run
  BY DEF TypeOK
<1>2. ASSUME NEW there, Goto(h, there), there # "idle", s.step # "idle"
      PROVE  /\ run'[h].step # "idle" /\ request' = request
             /\ \A i \in Handler \ {h} : run'[i] = run[i]
             /\ UNCHANGED stores
  BY <1>1, <1>2, MovedFacts DEF Goto, Local, TypeOK
<1>3. ASSUME NEW status, Reply(h, status), s.step # "idle"
      PROVE  /\ run'[h].step # "idle" /\ request' = request
             /\ \A i \in Handler \ {h} : run'[i] = run[i]
             /\ UNCHANGED stores
  <2>1. Answered(s, status).step = "answer"
    BY <1>1 DEF Run, Answered
  <2> QED
    BY <1>3, <2>1 DEF Reply, Local, TypeOK
<1>4. CASE Guard(h) \/ Limit(h) \/ Search(h) \/ ReadGlobal(h) \/ ReadFlag(h) \/ ReadFails(h)
        \/ LocalSearch(h) \/ WriteFails(h) \/ Written(h) \/ Join(h)
  <2>1. s.step # "idle"
    BY <1>4 DEF Guard, Limit, Search, ReadGlobal, ReadFlag, ReadFails, LocalSearch, WriteFails,
                Written, Join, At
  <2>2. \/ \E status : Reply(h, status)
        \/ \E there : there # "idle" /\ Goto(h, there)
    BY <1>4 DEF Guard, Limit, Search, ReadGlobal, ReadFlag, ReadFails, LocalSearch, WriteFails,
                Written, Join
  <2> QED
    BY <1>2, <1>3, <2>1, <2>2
<1>5. CASE Bind(h)
  <2>1. s.step # "idle"
    BY <1>5 DEF Bind, At
  <2>2. FirstStep(request[h]) # "idle"
    BY DEF FirstStep
  <2> QED
    BY <1>2, <1>3, <1>5, <2>1, <2>2 DEF Bind
<1>6. CASE UseProfile(h)
  <2>1. s.step # "idle"
    BY <1>6 DEF UseProfile, At
  <2> QED
    BY <1>2, <1>3, <1>6, <2>1 DEF UseProfile
<1>7. CASE ReadKey(h)
  BY <1>1, <1>7 DEF ReadKey, At, Local, TypeOK, Run
<1>8. CASE Rerank(h)
  BY <1>1, <1>8 DEF Rerank, Answered, At, Local, TypeOK, Run
<1>9. CASE Write(h)
  BY <1>1, <1>9 DEF Write, At, TypeOK, Run
<1>10. ASSUME NEW t \in Service, Probe(h, t)
       PROVE  /\ run[h].step # "idle" /\ run'[h].step # "idle"
              /\ request' = request
              /\ \A i \in Handler \ {h} : run'[i] = run[i]
              /\ UNCHANGED stores
  BY <1>1, <1>10 DEF Probe, At, Local, TypeOK, Run
<1> QED
  BY <1>4, <1>5, <1>6, <1>7, <1>8, <1>9, <1>10 DEF Step

LEMMA StepJustified ==
    ASSUME ApiInv, NEW h \in Handler, Step(h), ~Done(h), Witness
    PROVE  (SeesNow(h) /\ Justified(run[h], request[h], seen[h]))'
<1> DEFINE r == request[h]
           w == seen'[h]
<1>1. /\ TypeOK /\ Justified(run[h], r, seen[h])
      /\ run'[h].step # "idle" /\ request'[h] = r
      /\ Write(h) \/ UNCHANGED stores
  BY AtWork DEF ApiInv
<1>2. w = seen[h] \union Found(request[h])'
  BY <1>1 DEF Witness, Idle
<1>3. Justified(run[h], r, w)
  BY <1>1, <1>2, JustifiedGrows
<1>4. SeesNow(h)'
  BY <1>1, <1>2 DEF SeesNow, At
<1>5. Justified(run'[h], r, w)
  <2>1. CASE Write(h)
    <3>1. PICK q : q = r
      OBVIOUS
    <3>2. \A t \in Things(q) : <<t, Holds(q, t)'>> \in w
      BY <1>1, <1>2, <3>1 DEF Found
    <3> QED
      BY <1>1, <1>3, <2>1, <3>1, <3>2, WriteKeeps
  <2>2. CASE UNCHANGED stores
    <3>1. Found(request[h])' = Found(r)
      BY <1>1, <2>2 DEF Found, Holds, Things, Subject, stores
    <3>2. SeenIn(r, w)
      BY <1>2, <3>1, FoundFacts DEF SeenIn
    <3> QED
      BY <1>1, <1>3, <2>1, <3>2, FrontKeeps, TogglesKeep, ReadKeyKeeps, UseProfileKeeps,
         WrittenKeeps, HealthKeeps DEF Step
  <2> QED
    BY <1>1, <2>1, <2>2
<1> QED
  BY <1>1, <1>4, <1>5

\* What the others do only adds to what has held.
LEMMA OthersJustified ==
    ASSUME ApiInv, NEW h \in Handler, Witness, run'[h] = run[h], request'[h] = request[h]
    PROVE  (SeesNow(h) /\ Justified(run[h], request[h], seen[h]))'
<1>1. SeesNow(h) /\ Justified(run[h], request[h], seen[h])
  BY DEF ApiInv
<1>2. CASE At(h, "idle")
  <2>1. run'[h] = Idle /\ seen'[h] = seen[h]
    BY <1>1, <1>2 DEF SeesNow, Witness
  <2> QED
    BY <1>1, <1>2, <2>1 DEF SeesNow, At
<1>3. CASE ~At(h, "idle")
  <2>1. seen'[h] = seen[h] \union Found(request[h])'
    BY <1>3 DEF Witness, At, Idle
  <2>2. Justified(run[h], request[h], seen'[h])
    BY <1>1, <2>1, JustifiedGrows
  <2> QED
    BY <1>3, <2>1, <2>2 DEF SeesNow, At
<1> QED
  BY <1>2, <1>3

\* The ways in which a handler's record changes, besides moving on.
LEMMA RunFields ==
    ASSUME NEW s \in Run
    PROVE  /\ s.step \in Stage /\ s.upto \in 0..Len(Reads) /\ s.got \subseteq ProfileKeys
           /\ s.boosted \in BOOLEAN /\ s.probed \subseteq Service /\ s.failed \subseteq Service
           /\ s.code \in Code /\ s.wrote \in BOOLEAN
BY DEF Run

LEMMA AnsweredInRun ==
    ASSUME NEW s \in Run, NEW status \in Code
    PROVE  Answered(s, status) \in Run
<1> PICK n : n = Answered(s, status)
  OBVIOUS
<1>1. /\ n.step = "answer" /\ n.code \in {s.code, status} /\ n.upto = s.upto /\ n.got = s.got
      /\ n.boosted = s.boosted /\ n.probed = s.probed /\ n.failed = s.failed
      /\ n.wrote = s.wrote
  BY DEF Run, Answered
<1>2. n =
        [step |-> n.step, upto |-> n.upto, got |-> n.got, boosted |-> n.boosted,
         probed |-> n.probed, failed |-> n.failed, code |-> n.code, wrote |-> n.wrote]
  BY DEF Run, Answered
<1>3. n.code \in Code
  BY <1>1, RunFields
<1> QED
  BY <1>1, <1>2, <1>3, RunFields DEF Run, Stage

LEMMA BoostedInRun ==
    ASSUME NEW s \in Run
    PROVE  [s EXCEPT !.boosted = TRUE] \in Run
BY DEF Run

LEMMA WroteInRun ==
    ASSUME NEW s \in Run
    PROVE  [s EXCEPT !.step = "written", !.wrote = TRUE] \in Run
<1> PICK n : n = [s EXCEPT !.step = "written", !.wrote = TRUE]
  OBVIOUS
<1>1. /\ n.step = "written" /\ n.code = s.code /\ n.upto = s.upto /\ n.got = s.got
      /\ n.boosted = s.boosted /\ n.probed = s.probed /\ n.failed = s.failed
      /\ n.wrote = TRUE
  BY DEF Run
<1>2. n =
        [step |-> n.step, upto |-> n.upto, got |-> n.got, boosted |-> n.boosted,
         probed |-> n.probed, failed |-> n.failed, code |-> n.code, wrote |-> n.wrote]
  BY DEF Run
<1> QED
  BY <1>1, <1>2, RunFields DEF Run, Stage

LEMMA ReadInRun ==
    ASSUME NEW s \in Run, NEW upto \in 0..Len(Reads), NEW got \in SUBSET ProfileKeys,
           NEW n, n = [s EXCEPT !.upto = upto, !.got = got]
    PROVE  n \in Run
<1>1. /\ n.step = s.step /\ n.code = s.code /\ n.upto = upto /\ n.got = got
      /\ n.boosted = s.boosted /\ n.probed = s.probed /\ n.failed = s.failed
      /\ n.wrote = s.wrote
  BY DEF Run
<1>2. n =
        [step |-> n.step, upto |-> n.upto, got |-> n.got, boosted |-> n.boosted,
         probed |-> n.probed, failed |-> n.failed, code |-> n.code, wrote |-> n.wrote]
  BY DEF Run
<1> QED
  BY <1>1, <1>2, RunFields DEF Run

LEMMA ProbedInRun ==
    ASSUME NEW s \in Run, NEW probed \in SUBSET Service, NEW failed \in SUBSET Service,
           NEW n, n = [s EXCEPT !.probed = probed, !.failed = failed]
    PROVE  n \in Run
<1>1. /\ n.step = s.step /\ n.code = s.code /\ n.upto = s.upto /\ n.got = s.got
      /\ n.boosted = s.boosted /\ n.probed = probed /\ n.failed = failed
      /\ n.wrote = s.wrote
  BY DEF Run
<1>2. n =
        [step |-> n.step, upto |-> n.upto, got |-> n.got, boosted |-> n.boosted,
         probed |-> n.probed, failed |-> n.failed, code |-> n.code, wrote |-> n.wrote]
  BY DEF Run
<1> QED
  BY <1>1, <1>2, RunFields DEF Run

LEMMA LocalTypes ==
    ASSUME TypeOK, NEW h \in Handler, NEW new \in Run, Local(h, new)
    PROVE  run' \in [Handler -> Run] /\ UNCHANGED <<stores, request>>
BY DEF TypeOK, Local

\* All of TypeOK but what has been seen.
LEMMA StateTypes ==
    ASSUME ApiInv, NEW h \in Handler, Step(h)
    PROVE  /\ off' \subseteq {Global} \union IP
           /\ history' \in [IP -> SUBSET ProfileKeys]
           /\ down' \subseteq Service
           /\ request' = request
           /\ run' \in [Handler -> Run]
<1> DEFINE s == run[h]
           r == request[h]
<1> USE ApiAssumption DEF ApiAssumption
<1>1. /\ TypeOK /\ s \in Run /\ r \in Request /\ OnItsWay(s, r, seen[h])
  BY DEF ApiInv, TypeOK, Justified
<1>2. ASSUME NEW new \in Run, Local(h, new)
      PROVE  /\ off' \subseteq {Global} \union IP
             /\ history' \in [IP -> SUBSET ProfileKeys]
             /\ down' \subseteq Service
             /\ request' = request
             /\ run' \in [Handler -> Run]
  BY <1>1, <1>2, LocalTypes DEF TypeOK, stores
<1>3. \A there \in Stage : Goto(h, there) => \E new \in Run : Local(h, new)
  BY <1>1 DEF Goto, Run
<1>4. \A status \in Code : Reply(h, status) => \E new \in Run : Local(h, new)
  BY <1>1, AnsweredInRun DEF Reply
<1>5. CASE Guard(h) \/ Limit(h) \/ Bind(h) \/ Search(h) \/ ReadGlobal(h) \/ ReadFlag(h)
  <2>1. \E new \in Run : Local(h, new)
    BY <1>3, <1>4, <1>5 DEF Guard, Limit, Bind, Search, ReadGlobal, ReadFlag, FirstStep, Stage,
                            Code
  <2> QED
    BY <1>2, <2>1
<1>6. CASE ReadFails(h) \/ UseProfile(h) \/ LocalSearch(h) \/ WriteFails(h) \/ Written(h)
           \/ Join(h)
  <2>1. \E new \in Run : Local(h, new)
    BY <1>3, <1>4, <1>6 DEF ReadFails, UseProfile, LocalSearch, WriteFails, Written, Join,
                            HealthCode, Stage, Code
  <2> QED
    BY <1>2, <2>1
<1>7. CASE Done(h)
  <2>1. Idle \in Run
    BY DEF Idle, Run, Stage, Code
  <2> QED
    BY <1>2, <1>7, <2>1 DEF Done
<1>8. CASE ReadKey(h)
  <2> DEFINE key == Reads[s.upto + 1]
             new == [s EXCEPT !.upto = @ + 1, !.got = @ \union ({key} \cap history[Subject(r)])]
  <2>1. s.upto + 1 \in 1..Len(Reads) /\ Len(Reads) \in Nat
    BY <1>1, <1>8 DEF ReadKey, Run
  <2>2. key \in ProfileKeys /\ s.upto + 1 \in 0..Len(Reads)
    BY <2>1 DEF ProfileKeys
  <2>3. s.got \union ({key} \cap history[Subject(r)]) \subseteq ProfileKeys
    BY <1>1, <2>2, RunFields
  <2>4. new = [s EXCEPT !.upto = s.upto + 1, !.got = s.got \union ({key} \cap history[Subject(r)])]
    OBVIOUS
  <2>5. new \in Run
    BY <1>1, <2>2, <2>3, <2>4, ReadInRun
  <2> QED
    BY <1>2, <1>8, <2>5 DEF ReadKey
<1>9. CASE Rerank(h)
  <2>1. Answered([s EXCEPT !.boosted = TRUE], 200) \in Run
    BY <1>1, BoostedInRun, AnsweredInRun DEF Code
  <2> QED
    BY <1>2, <1>9, <2>1 DEF Rerank
<1>10. CASE Write(h)
  <2>1. r.route \in Writing /\ ~BadRequest(r)
    BY <1>1, <1>10 DEF Write, At, OnItsWay
  <2>2. Subject(r) \in IP \union {Global}
    BY <1>1, <2>1, RequestFacts DEF Writing
  <2>3. off' \subseteq {Global} \union IP /\ history' \in [IP -> SUBSET ProfileKeys]
    BY <1>1, <1>10, <2>2 DEF Write, TypeOK
  <2>4. run' \in [Handler -> Run]
    <3>1. [s EXCEPT !.step = "written", !.wrote = TRUE] \in Run
      BY <1>1, WroteInRun
    <3>2. run' = [run EXCEPT ![h] = [s EXCEPT !.step = "written", !.wrote = TRUE]]
      BY <1>1, <1>10 DEF Write, TypeOK
    <3> QED
      BY <1>1, <3>1, <3>2 DEF TypeOK
  <2> QED
    BY <1>1, <1>10, <2>3, <2>4 DEF Write, TypeOK
<1>11. ASSUME NEW t \in Service, Probe(h, t)
       PROVE  \E new \in Run : Local(h, new)
  <2>1. [s EXCEPT !.probed = @ \union {t},
                  !.failed = IF Up(t) THEN @ ELSE @ \union {t}] \in Run
    <3>1. /\ s.probed \union {t} \subseteq Service
          /\ (IF Up(t) THEN s.failed ELSE s.failed \union {t}) \subseteq Service
      BY <1>1, RunFields
    <3> QED
      BY <1>1, <3>1, ProbedInRun
  <2> QED
    BY <1>11, <2>1 DEF Probe
<1> QED
  BY <1>2, <1>5, <1>6, <1>7, <1>8, <1>9, <1>10, <1>11 DEF Step

LEMMA ElsewhereTypes ==
    ASSUME TypeOK, Elsewhere
    PROVE  /\ off' \subseteq {Global} \union IP
           /\ history' \in [IP -> SUBSET ProfileKeys]
           /\ down' \subseteq Service
           /\ UNCHANGED <<request, run>>
BY DEF TypeOK, Elsewhere, SetToggle, Remember, Forget, GoDown, ComeBack

LEMMA ReceiveKeeps ==
    ASSUME ApiInv, NEW h \in Handler, NEW r \in Request, Receive(h, r), Witness
    PROVE  (SeesNow(h) /\ Justified(run[h], request[h], seen[h]))'
<1> DEFINE n == [Idle EXCEPT !.step = "guard"]
           w == seen'[h]
<1>1. run[h] = Idle /\ run'[h] = n /\ request'[h] = r
  BY DEF Receive, ApiInv, TypeOK, SeesNow
<1>2. /\ n.step = "guard" /\ n.upto = 0 /\ n.got = {} /\ n.boosted = FALSE /\ n.probed = {}
      /\ n.failed = {} /\ n.code = 0 /\ n.wrote = FALSE /\ n # Idle
  BY DEF Idle
<1> HIDE DEF n
<1>3. Found(request[h])' \subseteq w
  BY <1>1, <1>2 DEF Witness
<1>4. NotesTrue(n, w) /\ OnItsWay(n, r, w)
  BY <1>2 DEF NotesTrue, OnItsWay
<1> QED
  BY <1>1, <1>2, <1>3, <1>4 DEF SeesNow, At, Justified

LEMMA ApiInvariant == ApiInv /\ [Next]_vars => ApiInv'
<1> SUFFICES ASSUME ApiInv, [Next]_vars PROVE ApiInv'
  OBVIOUS
<1>1. TypeOK /\ \A h \in Handler : SeesNow(h) /\ Justified(run[h], request[h], seen[h])
  BY DEF ApiInv
<1>2. ASSUME Witness, request' \in [Handler -> Request], run' \in [Handler -> Run],
             \A h \in Handler : run'[h] # Idle => request'[h] = request[h] \/ seen[h] = {}
      PROVE  /\ DOMAIN seen' = Handler
             /\ \A h \in Handler : seen'[h] \subseteq Things(request'[h]) \X BOOLEAN
  <2>1. DOMAIN seen' = Handler
    BY <1>2 DEF Witness
  <2>2. ASSUME NEW h \in Handler PROVE seen'[h] \subseteq Things(request'[h]) \X BOOLEAN
    <3>1. CASE run'[h] = Idle
      BY <1>2, <3>1 DEF Witness
    <3>2. CASE run'[h] # Idle
      <4>1. seen'[h] = seen[h] \union Found(request[h])'
        BY <1>2, <3>2 DEF Witness
      <4>2. Found(request[h])' \subseteq Things(request'[h]) \X BOOLEAN
        <5>1. \A t \in Things(request'[h]) : Holds(request[h], t)' \in BOOLEAN
          BY ThingsFacts, ApiAssumption DEF ApiAssumption, Holds, Service
        <5>2. Found(request[h])' =
                { <<t, Holds(request[h], t)'>> : t \in Things(request'[h]) }
          BY DEF Found, Things
        <5> QED
          BY <5>1, <5>2
      <4>3. seen[h] \subseteq Things(request'[h]) \X BOOLEAN
        BY <1>1, <1>2, <3>2 DEF TypeOK
      <4> QED
        BY <4>1, <4>2, <4>3
    <3> QED
      BY <3>1, <3>2
  <2> QED
    BY <2>1, <2>2
<1>3. ASSUME NEW h \in Handler, Step(h), Witness PROVE ApiInv'
  <2>1. TypeOK'
    <3>1. \A i \in Handler : run'[i] # Idle => request'[i] = request[i] \/ seen[i] = {}
      BY <1>3, StateTypes
    <3> QED
      BY <1>1, <1>2, <1>3, <3>1, StateTypes DEF TypeOK
  <2>2. ASSUME NEW i \in Handler \ {h}
        PROVE  (SeesNow(i) /\ Justified(run[i], request[i], seen[i]))'
    <3>1. run'[i] = run[i] /\ request'[i] = request[i]
      BY <1>1, <1>3, AtWork, StateTypes DEF Done, Local, TypeOK
    <3> QED
      BY <1>3, <3>1, OthersJustified
  <2>3. (SeesNow(h) /\ Justified(run[h], request[h], seen[h]))'
    <3>1. CASE ~Done(h)
      BY <1>3, <3>1, StepJustified
    <3>2. CASE Done(h)
      <4>1. run'[h] = Idle /\ seen'[h] = {}
        BY <1>1, <1>3, <3>2 DEF Done, Local, TypeOK, Witness
      <4>2. NotesTrue(Idle, {}) /\ (\A r : OnItsWay(Idle, r, {})) /\ Idle.step = "idle"
        BY DEF NotesTrue, OnItsWay, Idle
      <4> QED
        BY <4>1, <4>2 DEF SeesNow, At, Justified
    <3> QED
      BY <3>1, <3>2
  <2> QED
    BY <2>1, <2>2, <2>3 DEF ApiInv
<1>4. ASSUME NEW h \in Handler, NEW r \in Request, Receive(h, r), Witness PROVE ApiInv'
  <2>1. /\ run[h] = Idle /\ seen[h] = {}
        /\ request' = [request EXCEPT ![h] = r]
        /\ run' = [run EXCEPT ![h].step = "guard"]
        /\ UNCHANGED stores
    BY <1>1, <1>4 DEF Receive, SeesNow
  <2>2. run' \in [Handler -> Run] /\ request' \in [Handler -> Request]
    <3>1. [run[h] EXCEPT !.step = "guard"] \in Run
      BY <1>1 DEF TypeOK, Run, Stage
    <3> QED
      BY <1>1, <2>1, <3>1 DEF TypeOK
  <2>3. \A i \in Handler \ {h} : run'[i] = run[i] /\ request'[i] = request[i]
    BY <1>1, <2>1 DEF TypeOK
  <2>4. TypeOK'
    BY <1>1, <1>2, <1>4, <2>1, <2>2, <2>3 DEF TypeOK, stores
  <2>5. ASSUME NEW i \in Handler
        PROVE  (SeesNow(i) /\ Justified(run[i], request[i], seen[i]))'
    BY <1>4, <2>3, ReceiveKeeps, OthersJustified
  <2> QED
    BY <2>4, <2>5 DEF ApiInv
<1>5. CASE Elsewhere /\ Witness
  <2>1. TypeOK'
    BY <1>1, <1>2, <1>5, ElsewhereTypes DEF TypeOK
  <2>2. ASSUME NEW i \in Handler
        PROVE  (SeesNow(i) /\ Justified(run[i], request[i], seen[i]))'
    BY <1>1, <1>5, ElsewhereTypes, OthersJustified
  <2> QED
    BY <2>1, <2>2 DEF ApiInv
<1>6. CASE UNCHANGED vars
  <2>1. TypeOK'
    BY <1>1, <1>6 DEF vars, stores, TypeOK
  <2>2. ASSUME NEW i \in Handler
        PROVE  (SeesNow(i) /\ Justified(run[i], request[i], seen[i]))'
    <3>1. Found(request[i])' = Found(request[i])
      BY <1>6 DEF vars, stores, Found, Holds, Things, Subject
    <3> QED
      BY <1>1, <1>6, <3>1 DEF vars, SeesNow, At
  <2> QED
    BY <2>1, <2>2 DEF ApiInv
<1> QED
  BY <1>3, <1>4, <1>5, <1>6 DEF Next

LEMMA ApiInvHolds == Spec => []ApiInv
<1>1. Init => ApiInv
  BY InitApi
<1> QED
  BY <1>1, ApiInvariant, PTL DEF Spec

-----------------------------------------------------------------------------

\* The state of the handlers, Redis and the services stays well-typed.
THEOREM TypeCorrect == Spec => []TypeOK
<1>1. ApiInv => TypeOK
  BY DEF ApiInv
<1> QED
  BY <1>1, ApiInvHolds, PTL

\* Whatever changes in Redis while a search is at work, a personalized answer and a plain
\* one have their reason (search.go, toggle.go, profile.go).
THEOREM AnswersHaveReasons == Spec => []PersonalizedForAReason
<1>1. ApiInv => PersonalizedForAReason
  <2> SUFFICES ASSUME ApiInv, NEW h \in Handler, Answers(h, {"search"}, 200)
               PROVE  IF run[h].boosted
                      THEN /\ \E k \in ProfileKeys : Was(h, k)
                           /\ WasNot(h, "redis") \/ (Was(h, "global") /\ Was(h, "ip"))
                      ELSE WasNot(h, "redis") \/ WasNot(h, "global") \/ WasNot(h, "ip")
                           \/ AllWereEmpty(h)
    BY DEF PersonalizedForAReason
  <2>1. /\ TrueAnswer(run[h], request[h], seen[h]) /\ NotesTrue(run[h], seen[h])
        /\ run[h] \in Run /\ request[h].route = "search" /\ run[h].code = 200
    BY DEF ApiInv, Justified, Answers, At, TypeOK
  <2>2. CASE run[h].boosted
    <3>1. run[h].got # {} /\ OnIn("global", seen[h]) /\ OnIn("ip", seen[h])
      BY <2>1, <2>2 DEF TrueAnswer
    <3>2. PICK k : k \in run[h].got
      BY <3>1
    <3>3. k \in ProfileKeys /\ Was(h, k)
      BY <2>1, <3>2 DEF NotesTrue, Run, Was
    <3> QED
      BY <2>2, <3>1, <3>3 DEF OnIn, Was, WasNot
  <2>3. CASE ~run[h].boosted
    BY <2>1, <2>3 DEF TrueAnswer, EmptyIn, AllWereEmpty, WasNot
  <2> QED
    BY <2>2, <2>3
<1> QED
  BY <1>1, ApiInvHolds, PTL

\* A profile, "no profile", a reset, a toggle and an error are true at some moment of
\* their request (analytics.go, toggle.go).
THEOREM AnswersHold == Spec => []AnswersAreTrue
<1>1. ApiInv => AnswersAreTrue
  <2> SUFFICES ASSUME ApiInv, NEW h \in Handler, At(h, "answer")
               PROVE  LET r == request[h] IN
                      /\ Answers(h, {"profile"}, 200) =>
                           /\ run[h].got # {}
                           /\ \A k \in ProfileKeys :
                                IF k \in run[h].got THEN Was(h, k) ELSE WasNot(h, k)
                      /\ Answers(h, {"profile"}, 404) \/ Answers(h, {"reset", "reset mine"}, 200)
                           => AllWereEmpty(h)
                      /\ Answers(h, {"toggle global"}, 200) => <<"global", r.enabled>> \in seen[h]
                      /\ Answers(h, {"toggle ip"}, 200) => <<"ip", r.enabled>> \in seen[h]
                      /\ Answers(h, Route \ {"search"}, 500) => WasNot(h, "redis")
                      /\ Answers(h, {"search"}, 500) => WasNot(h, "typesense")
    BY DEF AnswersAreTrue, Answers
  <2>1. /\ TrueAnswer(run[h], request[h], seen[h]) /\ NotesTrue(run[h], seen[h])
        /\ run[h] \in Run
    BY DEF ApiInv, Justified, At, TypeOK
  <2>2. ASSUME Answers(h, {"profile"}, 200)
        PROVE  /\ run[h].got # {}
               /\ \A k \in ProfileKeys : IF k \in run[h].got THEN Was(h, k) ELSE WasNot(h, k)
    <3>1. run[h].got # {} /\ run[h].upto = Len(Reads)
      BY <2>1, <2>2 DEF Answers, TrueAnswer
    <3>2. \A i \in DOMAIN Reads : Reads[i] \in run[h].got \/ WasNot(h, Reads[i])
      <4>1. DOMAIN Reads = 1..run[h].upto
        BY <3>1, ApiAssumption DEF ApiAssumption
      <4> QED
        BY <2>1, <4>1 DEF NotesTrue, WasNot
    <3> QED
      BY <2>1, <3>1, <3>2 DEF NotesTrue, ProfileKeys, Was
  <2>3. Answers(h, {"profile"}, 404) \/ Answers(h, {"reset", "reset mine"}, 200)
          => AllWereEmpty(h)
    BY <2>1 DEF Answers, TrueAnswer, Writing, EffectIn, EmptyIn, AllWereEmpty, WasNot
  <2>4. /\ Answers(h, {"toggle global"}, 200) => <<"global", request[h].enabled>> \in seen[h]
        /\ Answers(h, {"toggle ip"}, 200) => <<"ip", request[h].enabled>> \in seen[h]
    BY <2>1 DEF Answers, TrueAnswer, Writing, EffectIn
  <2>5. /\ Answers(h, Route \ {"search"}, 500) => WasNot(h, "redis")
        /\ Answers(h, {"search"}, 500) => WasNot(h, "typesense")
    BY <2>1 DEF Answers, TrueAnswer, WasNot
  <2> QED
    BY <2>2, <2>3, <2>4, <2>5
<1> QED
  BY <1>1, ApiInvHolds, PTL

\* A refused request has changed neither a toggle nor a profile (adminauth.go, router.go).
THEOREM RefusalsAreClean == Spec => []RefusedChangesNothing
<1>1. ApiInv => RefusedChangesNothing
  BY DEF ApiInv, Justified, TrueAnswer, Refusals, RefusedChangesNothing, At
<1> QED
  BY <1>1, ApiInvHolds, PTL

\* Each status that /health reports was so at some moment of its request (health.go).
THEOREM HealthIsSo == Spec => []HealthIsTrue
<1>1. ApiInv => HealthIsTrue
  <2> SUFFICES ASSUME ApiInv, NEW h \in Handler, At(h, "answer"), request[h].route = "health"
               PROVE  /\ \A s \in Service :
                           IF s \in run[h].failed THEN WasNot(h, s) ELSE Was(h, s)
                      /\ run[h].code = 200 <=> run[h].failed = {}
    BY DEF HealthIsTrue
  <2>1. /\ TrueAnswer(run[h], request[h], seen[h]) /\ NotesTrue(run[h], seen[h])
    BY DEF ApiInv, Justified, At
  <2>2. ASSUME NEW s \in Service
        PROVE  IF s \in run[h].failed THEN WasNot(h, s) ELSE Was(h, s)
    <3>1. <<s, s \notin run[h].failed>> \in seen[h]
      BY <2>1 DEF TrueAnswer, NotesTrue
    <3>2. CASE s \in run[h].failed
      BY <3>1, <3>2 DEF WasNot
    <3>3. CASE s \notin run[h].failed
      BY <3>1, <3>3 DEF Was
    <3> QED
      BY <3>2, <3>3
  <2>3. run[h].code = 200 <=> run[h].failed = {}
    BY <2>1 DEF TrueAnswer
  <2> QED
    BY <2>2, <2>3
<1> QED
  BY <1>1, ApiInvHolds, PTL
=============================================================================
