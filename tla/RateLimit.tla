------------------------------ MODULE RateLimit ------------------------------
(***************************************************************************)
(* The per-IP request limiter of GET /api/v1/search                        *)
(* (internal/api/middleware/ratelimit.go).  Each request runs one Lua      *)
(* script in Redis: INCR the counter of its IP, and EXPIRE it when the     *)
(* count is 1.  The handler then compares the count with the limit.        *)
(*                                                                         *)
(* Many handlers run at once, a reply may come long after its script ran,  *)
(* the Redis client sends a script again when a reply is lost, and any     *)
(* error lets the request through ("fail open").                           *)
(*                                                                         *)
(* Time is a clock of ticks; Window ticks are VELOCITY_WINDOW_SECONDS.     *)
(***************************************************************************)
EXTENDS Integers, FiniteSets

CONSTANTS
    IP,          \* client addresses
    Request,     \* handlers that may be at work at the same time
    Window,      \* VELOCITY_WINDOW_SECONDS, any integer
    Limit,       \* VELOCITY_LIMIT, any integer
    MaxRetries,  \* times the Redis client sends a script again
    MaxCount,    \* bound: counts from here on are not told apart
    MaxFaults    \* bound: lost replies, and losses of Redis's data

ASSUME RateLimitAssumption ==
    /\ Window \in Int
    /\ Limit \in Int
    /\ MaxRetries \in Nat
    /\ MaxCount \in Nat \ {0}
    /\ MaxCount > Limit
    /\ MaxFaults \in Nat

VARIABLES
    count,    \* count[ip]: the key velocity:ip; 0 when it does not exist
    ttl,      \* ttl[ip]: ticks until that key expires; 0 when it will not
    step,     \* step[r]: idle, asked (the script is under way), counted (so is the reply)
    from,     \* from[r]: the IP of the request
    result,   \* result[r]: what its script returned
    sends,    \* sends[r]: times its script has been sent again
    since,    \* since[r]: ticks since its script ran (at most Window)
    served,   \* history: served[ip][a]: requests served whose script ran a ticks ago
    broken,   \* lost replies so far
    forgets   \* times Redis has lost its data so far

handler == <<step, from, result, sends, since>>
vars == <<count, ttl, handler, served, broken, forgets>>

Ages == 0..(Window - 1)
Nobody == [a \in Ages |-> 0]

Init ==
    /\ count = [ip \in IP |-> 0]
    /\ ttl = [ip \in IP |-> 0]
    /\ step = [r \in Request |-> "idle"]
    /\ from \in [Request -> IP]
    /\ result = [r \in Request |-> 0]
    /\ sends = [r \in Request |-> 0]
    /\ since = [r \in Request |-> 0]
    /\ served = [ip \in IP |-> Nobody]
    /\ broken = 0
    /\ forgets = 0

-----------------------------------------------------------------------------

Ask(r, ip) ==
    /\ step[r] = "idle"
    /\ step' = [step EXCEPT ![r] = "asked"]
    /\ from' = [from EXCEPT ![r] = ip]
    /\ UNCHANGED <<count, ttl, result, sends, since, served, broken, forgets>>

\* INCR, up to the bound: every count above the limit is refused alike.
Incremented(n) == IF n < MaxCount THEN n + 1 ELSE n

\* What if the EXPIRE never came, or if every hit extended the window?
HitNoExpire(ip) ==
    /\ count' = [count EXCEPT ![ip] = Incremented(@)]
    /\ UNCHANGED ttl
HitExtends(ip) ==
    /\ count' = [count EXCEPT ![ip] = Incremented(@)]
    /\ ttl' = [ttl EXCEPT ![ip] = Window]

\* The script: INCR; if the count is 1, EXPIRE, which deletes the key at once
\* when the window is not positive.
Hit(ip) ==
    \/ /\ count[ip] = 0
       /\ Window > 0
       /\ count' = [count EXCEPT ![ip] = Incremented(0)]
       /\ ttl' = [ttl EXCEPT ![ip] = Window]
    \/ /\ count[ip] = 0
       /\ Window <= 0
       /\ UNCHANGED <<count, ttl>>
    \/ /\ count[ip] > 0
       /\ count' = [count EXCEPT ![ip] = Incremented(@)]
       /\ UNCHANGED ttl

\* Redis runs the script of r.
RunScript(r) ==
    /\ step[r] = "asked"
    /\ Hit(from[r])
    /\ step' = [step EXCEPT ![r] = "counted"]
    /\ result' = [result EXCEPT ![r] = Incremented(count[from[r]])]
    /\ since' = [since EXCEPT ![r] = 0]
    /\ UNCHANGED <<from, sends, served, broken, forgets>>

Release(r) ==
    /\ step' = [step EXCEPT ![r] = "idle"]
    /\ result' = [result EXCEPT ![r] = 0]
    /\ sends' = [sends EXCEPT ![r] = 0]
    /\ since' = [since EXCEPT ![r] = 0]
    /\ UNCHANGED from

\* What if one request too many were let through?
AllowedOneMore(n) == n <= Limit + 1
Allowed(n) == n <= Limit

\* The reply arrives and the count is within the limit: the search goes on.
Serve(r) ==
    /\ step[r] = "counted"
    /\ Allowed(result[r])
    /\ served' = IF since[r] \in Ages
                 THEN [served EXCEPT ![from[r]][since[r]] = @ + 1]
                 ELSE served
    /\ Release(r)
    /\ UNCHANGED <<count, ttl, broken, forgets>>

\* The reply arrives and the count is over the limit: 429.
Refuse(r) ==
    /\ step[r] = "counted"
    /\ ~Allowed(result[r])
    /\ Release(r)
    /\ UNCHANGED <<count, ttl, served, broken, forgets>>

LoseReply ==
    /\ broken + forgets < MaxFaults
    /\ broken' = broken + 1
    /\ UNCHANGED <<count, ttl, served, forgets>>

\* The connection breaks before or after the script ran, and the client sends it
\* again: a hit may count twice.
Resend(r) ==
    /\ step[r] \in {"asked", "counted"}
    /\ sends[r] < MaxRetries
    /\ LoseReply
    /\ step' = [step EXCEPT ![r] = "asked"]
    /\ sends' = [sends EXCEPT ![r] = @ + 1]
    /\ result' = [result EXCEPT ![r] = 0]
    /\ since' = [since EXCEPT ![r] = 0]
    /\ UNCHANGED from

\* The connection breaks likewise, or the request's context ends, and Run returns
\* an error: the request goes on uncounted.
FailOpen(r) ==
    /\ step[r] \in {"asked", "counted"}
    /\ LoseReply
    /\ Release(r)

-----------------------------------------------------------------------------
(* Redis and the clock. *)

\* Redis comes back without its data.
Forget ==
    /\ broken + forgets < MaxFaults
    /\ forgets' = forgets + 1
    /\ count' = [ip \in IP |-> 0]
    /\ ttl' = [ip \in IP |-> 0]
    /\ UNCHANGED <<handler, served, broken>>

\* One tick passes: keys expire, and what was served long ago is forgotten.
Tick ==
    /\ count' = [ip \in IP |-> IF ttl[ip] = 1 THEN 0 ELSE count[ip]]
    /\ ttl' = [ip \in IP |-> IF ttl[ip] > 0 THEN ttl[ip] - 1 ELSE 0]
    /\ since' = [r \in Request |->
                   IF step[r] = "counted" /\ since[r] < Window THEN since[r] + 1 ELSE since[r]]
    /\ served' = [ip \in IP |-> [a \in Ages |-> IF a = 0 THEN 0 ELSE served[ip][a - 1]]]
    /\ UNCHANGED <<step, from, result, sends, broken, forgets>>

-----------------------------------------------------------------------------

Handle(r) == RunScript(r) \/ Serve(r) \/ Refuse(r)

Next ==
    \/ \E r \in Request :
         \/ \E ip \in IP : Ask(r, ip)
         \/ Handle(r)
         \/ Resend(r)
         \/ FailOpen(r)
    \/ Forget
    \/ Tick

Spec == Init /\ [][Next]_vars

\* Time passes, whatever the handlers do.
FairSpec == Spec /\ WF_vars(Tick)

-----------------------------------------------------------------------------
(* Properties. *)

TypeOK ==
    /\ count \in [IP -> Nat]
    /\ ttl \in [IP -> Nat]
    /\ step \in [Request -> {"idle", "asked", "counted"}]
    /\ from \in [Request -> IP]
    /\ result \in [Request -> Nat]
    /\ sends \in [Request -> 0..MaxRetries]
    /\ since \in [Request -> Nat]
    /\ served \in [IP -> [Ages -> Nat]]
    /\ broken \in Nat
    /\ forgets \in Nat

\* A counter without an expiry would refuse its IP for ever (the race that the
\* comment above the script describes): there is none, at any moment.
EveryCounterExpires == \A ip \in IP : count[ip] > 0 <=> ttl[ip] > 0

\* What an IP has been granted in its open window, from the counter alone.
Granted ==
    [ip \in IP |->
        IF Limit <= 0 THEN 0 ELSE IF count[ip] <= Limit THEN count[ip] ELSE Limit]

Fixed == INSTANCE FixedWindow WITH used <- Granted, left <- ttl

\* The script, the clock and the handlers implement a fixed window.
ImplementsFixedWindow == Fixed!Spec

\* A tally as a set: one token, its age and a number, for each request that the tally has
\* at an age below n.
Tokens(tally, n) == UNION { {a} \X (1..tally[a]) : a \in 0..(n - 1) }

\* Requests whose script ran less than n ticks ago and whose handler has not looked at
\* the reply yet, although it will let them through.
Underway(ip, n) ==
    { r \in Request :
        step[r] = "counted" /\ from[r] = ip /\ Allowed(result[r]) /\ since[r] < n }

\* The requests of an IP that were let through and whose script ran less than n ticks ago.
LetThrough(ip, n) == Cardinality(Tokens(served[ip], n)) + Cardinality(Underway(ip, n))

\* In any stretch of Window ticks an IP is served less than the limits of the two
\* windows that end and begin in it, together; another limit is added each time
\* Redis forgot.
BurstBounded ==
    Limit >= 1 => \A ip \in IP : LetThrough(ip, Window) < (2 + forgets) * Limit

\* An IP is over its limit only if that many of its requests were let through in the
\* last Window ticks; each lost reply may have wasted one.
RefusedOnlyWhenFull ==
    \A ip \in IP : count[ip] > Limit => LetThrough(ip, Window) >= Limit - broken

\* An IP over its limit gets a new window, however hard it goes on asking.
RefusalsEnd == \A ip \in IP : count[ip] > Limit ~> count[ip] = 0
=============================================================================
