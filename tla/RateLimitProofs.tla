--------------------------- MODULE RateLimitProofs ---------------------------
(***************************************************************************)
(* RateLimit for any number of clients and handlers, any window, limit and *)
(* number of retries: no counter is ever without an expiry, and the        *)
(* limiter implements a fixed window.                                      *)
(*                                                                         *)
(* The first invariant relates the two halves of the key, which one script *)
(* sets: there is a count exactly when there is time left.  The second     *)
(* relates the count to the requests let through, by their age: n ticks    *)
(* after a window opened those younger than n are fewer than its grants,   *)
(* those up to n no fewer but for lost replies, and what is left of older  *)
(* windows is less than a limit for each of them.                          *)
(***************************************************************************)
EXTENDS RateLimit, FiniteSetTheorems, TLAPS

KeyInv ==
    /\ count \in [IP -> Nat]
    /\ ttl \in [IP -> Nat]
    /\ from \in [Request -> IP]
    /\ EveryCounterExpires

LEMMA IncrementedType ==
    ASSUME NEW n \in Nat
    PROVE  Incremented(n) \in Nat /\ Incremented(n) >= n /\ Incremented(n) <= n + 1
           /\ (n = 0 => Incremented(n) = 1)
  BY RateLimitAssumption DEF RateLimitAssumption, Incremented

LEMMA HitKeepsKey ==
    ASSUME KeyInv, NEW i \in IP, Hit(i)
    PROVE  /\ count' \in [IP -> Nat]
           /\ ttl' \in [IP -> Nat]
           /\ \A ip \in IP : count'[ip] > 0 <=> ttl'[ip] > 0
  <1> USE RateLimitAssumption DEF RateLimitAssumption, KeyInv, EveryCounterExpires
  <1>1. count[i] \in Nat /\ Incremented(0) = 1 /\ Incremented(count[i]) \in Nat
        /\ (count[i] > 0 => Incremented(count[i]) > 0)
    BY IncrementedType
  <1>2. QED
    BY <1>1 DEF Hit

\* A step moves the key of one IP, of all, or of none.
LEMMA StepOfKeys ==
    ASSUME KeyInv, [Next]_vars
    PROVE  \/ \E ip \in IP : Hit(ip)
           \/ Forget
           \/ Tick
           \/ UNCHANGED <<count, ttl>>
  BY DEF KeyInv, Next, vars, Handle, Ask, RunScript, Serve, Refuse, Resend, FailOpen, LoseReply

LEMMA KeyInvariant == Spec => []KeyInv
  <1> USE RateLimitAssumption DEF RateLimitAssumption
  <1>1. Init => KeyInv
    BY DEF Init, KeyInv, EveryCounterExpires
  <1>2. KeyInv /\ [Next]_vars => KeyInv'
    <2> SUFFICES ASSUME KeyInv, [Next]_vars PROVE KeyInv'
      OBVIOUS
    <2>1. from' \in [Request -> IP]
      BY DEF KeyInv, Next, vars, handler, Handle, Ask, RunScript, Serve, Refuse, Resend, FailOpen,
             LoseReply, Release, Forget, Tick
    <2>2. ASSUME NEW ip \in IP, Hit(ip) PROVE KeyInv'
      BY <2>1, <2>2, HitKeepsKey DEF KeyInv, EveryCounterExpires
    <2>3. CASE Forget
      BY <2>1, <2>3 DEF KeyInv, EveryCounterExpires, Forget
    <2>4. CASE Tick
      BY <2>1, <2>4 DEF KeyInv, EveryCounterExpires, Tick
    <2>5. CASE UNCHANGED <<count, ttl>>
      BY <2>1, <2>5 DEF KeyInv, EveryCounterExpires
    <2>6. QED
      BY <2>2, <2>3, <2>4, <2>5, StepOfKeys
  <1>3. QED
    BY <1>1, <1>2, PTL DEF Spec

LEMMA TypeStep == TypeOK /\ KeyInv /\ [Next]_vars => TypeOK'
  <1> USE RateLimitAssumption DEF RateLimitAssumption
  <1> SUFFICES ASSUME TypeOK, KeyInv, [Next]_vars PROVE TypeOK'
    OBVIOUS
  <1> USE DEF TypeOK
  <1>1. \A n \in Nat : Incremented(n) \in Nat
    BY IncrementedType
  <1>2. ASSUME NEW r \in Request, NEW ip \in IP, Ask(r, ip) PROVE TypeOK'
    BY <1>2 DEF Ask
  <1>3. ASSUME NEW r \in Request, RunScript(r) PROVE TypeOK'
    <2>1. count' \in [IP -> Nat] /\ ttl' \in [IP -> Nat]
      BY <1>3, HitKeepsKey DEF RunScript
    <2>2. QED
      BY <1>1, <1>3, <2>1 DEF RunScript
  <1>4. ASSUME NEW r \in Request, Serve(r) PROVE TypeOK'
    <2>1. served' \in [IP -> [Ages -> Nat]]
      <3>1. CASE since[r] \in Ages
        <4>1. served[from[r]] \in [Ages -> Nat] /\ served[from[r]][since[r]] \in Nat
          BY <3>1
        <4>2. QED
          BY <1>4, <3>1, <4>1 DEF Serve
      <3>2. CASE since[r] \notin Ages
        BY <1>4, <3>2 DEF Serve
      <3>3. QED
        BY <3>1, <3>2
    <2>2. QED
      BY <1>4, <2>1 DEF Serve, Release
  <1>5. ASSUME NEW r \in Request, Refuse(r) PROVE TypeOK'
    BY <1>5 DEF Refuse, Release
  <1>6. ASSUME NEW r \in Request, Resend(r) PROVE TypeOK'
    BY <1>6 DEF Resend, LoseReply
  <1>7. ASSUME NEW r \in Request, FailOpen(r) PROVE TypeOK'
    BY <1>7 DEF FailOpen, LoseReply, Release
  <1>8. CASE Forget
    BY <1>8 DEF Forget, handler
  <1>9. CASE Tick
    <2>1. count' \in [IP -> Nat] /\ ttl' \in [IP -> Nat]
      BY <1>9 DEF Tick
    <2>2. since' \in [Request -> Nat]
      BY <1>9 DEF Tick
    <2>3. served' \in [IP -> [Ages -> Nat]]
      <3>1. \A a \in Ages : a = 0 \/ a - 1 \in Ages
        BY DEF Ages
      <3>2. \A ip \in IP : [a \in Ages |-> IF a = 0 THEN 0 ELSE served[ip][a - 1]] \in [Ages -> Nat]
        BY <3>1
      <3>3. QED
        BY <1>9, <3>2 DEF Tick
    <2>4. QED
      BY <1>9, <2>1, <2>2, <2>3 DEF Tick
  <1>10. CASE UNCHANGED vars
    BY <1>10 DEF vars, handler
  <1>11. QED
    BY <1>2, <1>3, <1>4, <1>5, <1>6, <1>7, <1>8, <1>9, <1>10 DEF Next, Handle

\* Type correctness; the age of a reply and the number of its sends stay in bounds.
THEOREM TypeCorrect == Spec => []TypeOK
  <1> USE RateLimitAssumption DEF RateLimitAssumption
  <1>1. Init => TypeOK
    BY DEF Init, TypeOK, Nobody
  <1>2. TypeOK /\ KeyInv /\ [Next]_vars => TypeOK'
    BY TypeStep
  <1>3. QED
    BY <1>1, <1>2, KeyInvariant, PTL DEF Spec

\* No IP is shut out for ever by a counter that lost its expiry.
THEOREM CountersExpire == Spec => []EveryCounterExpires
  <1>1. KeyInv => EveryCounterExpires
    BY DEF KeyInv
  <1>2. QED
    BY <1>1, KeyInvariant, PTL

\* The script, the clock and the handlers implement a fixed window, for every limit
\* and window, the ones that are zero or negative included.
THEOREM FixedWindowImplemented == Spec => ImplementsFixedWindow
  <1> USE RateLimitAssumption DEF RateLimitAssumption
  <1>1. Init => Fixed!Init
    BY DEF Init, Fixed!Init, Granted
  <1>2. KeyInv /\ [Next]_vars => [Fixed!Next]_(Fixed!window)
    <2> SUFFICES ASSUME KeyInv, [Next]_vars PROVE [Fixed!Next]_(Fixed!window)
      OBVIOUS
    <2> USE DEF KeyInv, EveryCounterExpires
    <2>1. ASSUME NEW i \in IP, Hit(i) PROVE [Fixed!Next]_(Fixed!window)
      <3>1. /\ count[i] \in Nat
            /\ Incremented(count[i]) \in Nat
            /\ Incremented(count[i]) >= count[i]
            /\ Incremented(count[i]) <= count[i] + 1
            /\ Incremented(0) = 1
        BY IncrementedType
      <3>2. CASE count[i] = 0 /\ Window > 0
        <4>1. count' = [count EXCEPT ![i] = 1] /\ ttl' = [ttl EXCEPT ![i] = Window]
          BY <2>1, <3>1, <3>2 DEF Hit
        <4>2. Granted' = [Granted EXCEPT ![i] = IF Limit >= 1 THEN 1 ELSE 0]
          <5>1. Granted[i] = 0 /\ Granted'[i] = IF Limit >= 1 THEN 1 ELSE 0
            BY <3>2, <4>1 DEF Granted
          <5>2. \A ip \in IP \ {i} : count'[ip] = count[ip]
            BY <4>1
          <5>3. \A ip \in IP \ {i} : Granted'[ip] = Granted[ip]
            BY <5>2 DEF Granted
          <5>4. DOMAIN Granted = IP /\ DOMAIN Granted' = IP
            BY DEF Granted
          <5>5. Granted = [ip \in IP |-> Granted[ip]] /\ Granted' = [ip \in IP |-> Granted'[ip]]
            BY DEF Granted
          <5>6. QED
            BY <5>1, <5>3, <5>4, <5>5
        <4>3. ttl[i] = 0
          BY <3>2
        <4>4. Fixed!Open(i)
          BY <3>2, <4>1, <4>2, <4>3 DEF Fixed!Open
        <4>5. QED
          BY <4>4 DEF Fixed!Next
      <3>3. CASE count[i] = 0 /\ Window <= 0
        BY <2>1, <3>1, <3>3 DEF Hit, Fixed!window, Granted
      <3>4. CASE count[i] > 0
        <4>1. count' = [count EXCEPT ![i] = Incremented(@)] /\ UNCHANGED ttl
          BY <2>1, <3>1, <3>4 DEF Hit
        <4>2. CASE Incremented(count[i]) = count[i] \/ count[i] >= Limit
          <5>1. \A ip \in IP : (IF Limit <= 0 THEN 0 ELSE IF count'[ip] <= Limit THEN count'[ip] ELSE Limit)
                              = (IF Limit <= 0 THEN 0 ELSE IF count[ip] <= Limit THEN count[ip] ELSE Limit)
            BY <3>1, <3>4, <4>1, <4>2
          <5>2. Granted' = Granted
            BY <5>1 DEF Granted
          <5>3. QED
            BY <4>1, <5>2 DEF Fixed!window
        <4>3. CASE Incremented(count[i]) = count[i] + 1 /\ count[i] < Limit
          <5>1. Granted' = [Granted EXCEPT ![i] = @ + 1]
            <6>1. Granted'[i] = Granted[i] + 1
              BY <3>1, <3>4, <4>1, <4>3 DEF Granted
            <6>2. \A ip \in IP \ {i} : count'[ip] = count[ip]
              BY <4>1
            <6>3. \A ip \in IP \ {i} : Granted'[ip] = Granted[ip]
              BY <6>2 DEF Granted
            <6>4. Granted = [ip \in IP |-> Granted[ip]] /\ Granted' = [ip \in IP |-> Granted'[ip]]
              BY DEF Granted
            <6>5. QED
              BY <6>1, <6>3, <6>4
          <5>2. Granted[i] < Limit /\ ttl[i] > 0
            BY <3>1, <3>4, <4>3 DEF Granted
          <5>3. Fixed!Grant(i)
            BY <4>1, <5>1, <5>2 DEF Fixed!Grant
          <5>4. QED
            BY <5>3 DEF Fixed!Next
        <4>4. QED
          BY <3>1, <4>2, <4>3
      <3>5. QED
        BY <3>1, <3>2, <3>3, <3>4
    <2>2. CASE Forget
      <3>1. Fixed!Forget
        BY <2>2 DEF Forget, Fixed!Forget, Granted
      <3>2. QED
        BY <3>1 DEF Fixed!Next
    <2>3. CASE Tick
      <3>1. \A ip \in IP : ttl[ip] \in Nat /\ count[ip] \in Nat /\ (count[ip] > 0 <=> ttl[ip] > 0)
        OBVIOUS
      <3>2. /\ count' = [ip \in IP |-> IF ttl[ip] = 1 THEN 0 ELSE count[ip]]
            /\ ttl' = [ip \in IP |-> IF ttl[ip] > 0 THEN ttl[ip] - 1 ELSE 0]
        BY <2>3 DEF Tick
      <3>3. Granted' = [ip \in IP |-> IF ttl[ip] > 1 THEN Granted[ip] ELSE 0]
        BY <3>1, <3>2 DEF Granted
      <3>4. Fixed!Tick
        BY <3>2, <3>3 DEF Fixed!Tick
      <3>5. QED
        BY <3>4 DEF Fixed!Next
    <2>4. CASE UNCHANGED <<count, ttl>>
      BY <2>4 DEF Fixed!window, Granted
    <2>5. QED
      BY <2>1, <2>2, <2>3, <2>4, StepOfKeys
  <1>3. QED
    BY <1>1, <1>2, KeyInvariant, PTL DEF Spec, ImplementsFixedWindow, Fixed!Spec

-----------------------------------------------------------------------------
(* Tallies and tokens. *)

LEMMA TokensMember ==
    ASSUME NEW tally, NEW n, NEW x
    PROVE  x \in Tokens(tally, n)
             <=> x = <<x[1], x[2]>> /\ x[1] \in 0..(n - 1) /\ x[2] \in 1..tally[x[1]]
  BY DEF Tokens

LEMMA TokensFinite ==
    ASSUME NEW n \in Int, NEW tally, \A a \in 0..(n - 1) : tally[a] \in Nat
    PROVE  IsFiniteSet(Tokens(tally, n)) /\ Cardinality(Tokens(tally, n)) \in Nat
  <1> DEFINE of == [a \in 0..(n - 1) |-> {a} \X (1..tally[a])]
             all == { of[a] : a \in 0..(n - 1) }
  <1>1. ASSUME NEW a \in 0..(n - 1) PROVE IsFiniteSet(of[a])
    <2>1. 1 \in Int /\ tally[a] \in Int
      OBVIOUS
    <2>2. IsFiniteSet(1..tally[a]) /\ IsFiniteSet({a})
      BY <2>1, FS_Interval, FS_Singleton
    <2>3. IsFiniteSet({a} \X (1..tally[a]))
      BY <2>2, FS_Product
    <2>4. QED
      BY <2>3
  <1>2. of \in Surjection(0..(n - 1), all)
    BY DEF Surjection
  <1>3. IsFiniteSet(0..(n - 1))
    BY FS_Interval
  <1> HIDE DEF of
  <1>4. IsFiniteSet(all)
    BY <1>2, <1>3, FS_Surjection
  <1>5. IsFiniteSet(UNION all)
    BY <1>1, <1>4, FS_UNION
  <1>6. UNION all = Tokens(tally, n)
    BY DEF of, Tokens
  <1>7. QED
    BY <1>5, <1>6, FS_CardinalityType

\* One more request at age a is one more token, if tokens of that age are looked at.
LEMMA TokenAdded ==
    ASSUME NEW n \in Int, n <= Window, NEW tally \in [Ages -> Nat], NEW a \in Ages
    PROVE  LET more == [tally EXCEPT ![a] = @ + 1]
           IN  Cardinality(Tokens(more, n))
                 = Cardinality(Tokens(tally, n)) + (IF a < n THEN 1 ELSE 0)
  <1> DEFINE more == [tally EXCEPT ![a] = @ + 1]
             new == <<a, tally[a] + 1>>
  <1> USE RateLimitAssumption DEF RateLimitAssumption
  <1>1. /\ 0..(n - 1) \subseteq Ages /\ tally[a] \in Nat /\ more[a] = tally[a] + 1
        /\ \A b \in Ages \ {a} : more[b] = tally[b]
    BY DEF Ages
  <1>2. a \in 0..(n - 1) <=> a < n
    BY DEF Ages
  <1>3. CASE ~(a < n)
    <2>1. \A b \in 0..(n - 1) : more[b] = tally[b]
      BY <1>1, <1>2, <1>3
    <2> HIDE DEF more
    <2>2. Tokens(more, n) = Tokens(tally, n)
      BY <2>1 DEF Tokens
    <2>3. Cardinality(Tokens(tally, n)) \in Nat
      BY <1>1, TokensFinite
    <2>4. QED
      BY <1>3, <2>2, <2>3 DEF more
  <1>4. CASE a < n
    <2> HIDE DEF more
    <2>1. ASSUME NEW x PROVE x \in Tokens(more, n) <=> x \in Tokens(tally, n) \/ x = new
      <3>1. CASE x[1] = a
        <4>1. x[2] \in 1..(tally[a] + 1) <=> x[2] \in 1..tally[a] \/ x[2] = tally[a] + 1
          BY <1>1
        <4>2. QED
          BY <1>1, <1>2, <1>4, <3>1, <4>1, TokensMember
      <3>2. CASE x[1] # a
        BY <1>1, <3>2, TokensMember
      <3>3. QED
        BY <3>1, <3>2
    <2>2. Tokens(more, n) = Tokens(tally, n) \union {new}
      BY <2>1
    <2>3. new \notin Tokens(tally, n)
      BY <1>1, TokensMember
    <2>4. IsFiniteSet(Tokens(tally, n)) /\ Cardinality(Tokens(tally, n)) \in Nat
      BY <1>1, TokensFinite
    <2> HIDE DEF new
    <2>5. Cardinality(Tokens(tally, n) \union {new}) = Cardinality(Tokens(tally, n)) + 1
      BY <2>3, <2>4, FS_AddElement
    <2>6. QED
      BY <1>4, <2>2, <2>5 DEF more
  <1>5. QED
    BY <1>3, <1>4

\* A tick makes every token one tick older.
LEMMA TokensAge ==
    ASSUME NEW n \in Nat, n < Window, NEW tally \in [Ages -> Nat]
    PROVE  LET older == [a \in Ages |-> IF a = 0 THEN 0 ELSE tally[a - 1]]
           IN  Cardinality(Tokens(older, n + 1)) = Cardinality(Tokens(tally, n))
  <1> DEFINE older == [a \in Ages |-> IF a = 0 THEN 0 ELSE tally[a - 1]]
             S == Tokens(tally, n)
             T == Tokens(older, n + 1)
             f == [x \in S |-> <<x[1] + 1, x[2]>>]
  <1> USE RateLimitAssumption DEF RateLimitAssumption
  <1>1. \A a \in 0..(n - 1) : a + 1 \in 0..n /\ older[a + 1] = tally[a]
    BY DEF Ages
  <1>2. older[0] = 0 /\ \A a \in 1..n : a - 1 \in 0..(n - 1) /\ older[a] = tally[a - 1]
    BY DEF Ages
  <1> HIDE DEF older
  <1>3. \A x \in S : /\ x = <<x[1], x[2]>> /\ x[1] \in 0..(n - 1) /\ x[2] \in 1..tally[x[1]]
                    /\ f[x] = <<x[1] + 1, x[2]>>
    BY TokensMember
  <1>4. ASSUME NEW x \in S PROVE f[x] \in T
    <2>1. f[x][1] = x[1] + 1 /\ f[x][2] = x[2] /\ f[x] = <<f[x][1], f[x][2]>>
      BY <1>3
    <2>2. f[x][1] \in 0..((n + 1) - 1) /\ f[x][2] \in 1..older[f[x][1]]
      BY <1>1, <1>3, <2>1
    <2>3. QED
      BY <2>1, <2>2, TokensMember
  <1>5. ASSUME NEW x \in S, NEW y \in S, f[x] = f[y] PROVE x = y
    BY <1>3, <1>5
  <1>6. ASSUME NEW z \in T PROVE \E x \in S : f[x] = z
    <2>1. z = <<z[1], z[2]>> /\ z[1] \in 0..n /\ z[2] \in 1..older[z[1]]
      BY TokensMember
    <2>2. z[1] \in 1..n
      BY <1>2, <2>1
    <2> DEFINE x == <<z[1] - 1, z[2]>>
    <2>3. x \in S
      <3>1. x[1] \in 0..(n - 1) /\ x[2] \in 1..tally[x[1]] /\ x = <<x[1], x[2]>>
        BY <1>2, <2>1, <2>2
      <3>2. QED
        BY <3>1, TokensMember
    <2>4. f[x] = z
      BY <2>1, <2>2, <2>3
    <2>5. QED
      BY <2>3, <2>4
  <1>7. IsFiniteSet(S)
    BY TokensFinite DEF Ages
  <1> HIDE DEF S, T
  <1>8. f \in Bijection(S, T)
    <2>1. f \in [S -> T]
      BY <1>4
    <2>2. f \in Injection(S, T)
      BY <1>5, <2>1 DEF Injection, IsInjective
    <2>3. f \in Surjection(S, T)
      BY <1>6, <2>1 DEF Surjection
    <2>4. QED
      BY <2>2, <2>3 DEF Bijection
  <1>9. ExistsBijection(S, T)
    BY <1>8 DEF ExistsBijection
  <1>10. Cardinality(T) = Cardinality(S)
    BY <1>7, <1>9, FS_Bijection
  <1>11. QED
    BY <1>10 DEF S, T, older

-----------------------------------------------------------------------------
(* What a step does to the number of requests let through. *)

\* At every moment only finitely many replies wait for their handlers.
Few == IsFiniteSet({ r \in Request : step[r] = "counted" })

LEMMA UnderwayFinite ==
    ASSUME Few, NEW ip, NEW n
    PROVE  IsFiniteSet(Underway(ip, n)) /\ Cardinality(Underway(ip, n)) \in Nat
  <1>1. Underway(ip, n) \in SUBSET { r \in Request : step[r] = "counted" }
    BY DEF Underway
  <1>2. QED
    BY <1>1, FS_Subset, FS_CardinalityType DEF Few

LEMMA LetThroughType ==
    ASSUME TypeOK, Few, NEW ip \in IP, NEW n \in Int, n <= Window
    PROVE  /\ LetThrough(ip, n) \in Nat
           /\ n <= 0 => LetThrough(ip, n) = 0
           /\ \A m \in Int : m <= n => LetThrough(ip, m) <= LetThrough(ip, n)
  <1> USE RateLimitAssumption DEF RateLimitAssumption
  <1>1. ASSUME NEW m \in Int, m <= n
        PROVE  /\ IsFiniteSet(Tokens(served[ip], m)) /\ Cardinality(Tokens(served[ip], m)) \in Nat
               /\ IsFiniteSet(Underway(ip, m)) /\ Cardinality(Underway(ip, m)) \in Nat
    <2>1. \A a \in 0..(m - 1) : served[ip][a] \in Nat
      BY <1>1 DEF TypeOK, Ages
    <2>2. QED
      BY <2>1, TokensFinite, UnderwayFinite
  <1>2. ASSUME n <= 0 PROVE LetThrough(ip, n) = 0
    <2>1. Tokens(served[ip], n) = {}
      BY <1>2 DEF Tokens
    <2>2. Underway(ip, n) = {}
      BY <1>2 DEF Underway, TypeOK
    <2>3. QED
      BY <2>1, <2>2, FS_EmptySet DEF LetThrough
  <1>3. ASSUME NEW m \in Int, m <= n PROVE LetThrough(ip, m) <= LetThrough(ip, n)
    <2>1. Tokens(served[ip], m) \in SUBSET Tokens(served[ip], n)
      BY <1>3, TokensMember
    <2>2. Underway(ip, m) \in SUBSET Underway(ip, n)
      BY <1>3 DEF Underway, TypeOK
    <2>3. /\ Cardinality(Tokens(served[ip], m)) <= Cardinality(Tokens(served[ip], n))
          /\ Cardinality(Underway(ip, m)) <= Cardinality(Underway(ip, n))
      BY <1>1, <2>1, <2>2, FS_Subset
    <2>4. QED
      BY <1>1, <1>3, <2>3 DEF LetThrough
  <1>4. QED
    BY <1>1, <1>2, <1>3 DEF LetThrough

\* In the next state as well.
Sound ==
    TypeOK /\ Few => \A ip \in IP, n \in Int :
        n <= Window => LetThrough(ip, n) \in Nat /\ (n <= 0 => LetThrough(ip, n) = 0)

LEMMA NextSound == Sound'
  <1>1. Sound
    BY LetThroughType DEF Sound
  <1>2. QED
    BY <1>1, PTL

\* A script whose count is within the limit lets one more request through.
LEMMA RunScriptLets ==
    ASSUME TypeOK, Few, NEW r \in Request, RunScript(r), NEW ip \in IP, NEW n \in Int, n <= Window
    PROVE  LetThrough(ip, n)' = LetThrough(ip, n)
             + (IF ip = from[r] /\ n > 0 /\ Allowed(Incremented(count[from[r]])) THEN 1 ELSE 0)
  <1> DEFINE lets == ip = from[r] /\ n > 0 /\ Allowed(Incremented(count[from[r]]))
  <1>1. /\ step[r] = "asked" /\ step' = [step EXCEPT ![r] = "counted"] /\ UNCHANGED <<from, served>>
        /\ result' = [result EXCEPT ![r] = Incremented(count[from[r]])]
        /\ since' = [since EXCEPT ![r] = 0]
    BY DEF RunScript
  <1>2. r \notin Underway(ip, n)
    BY <1>1 DEF Underway
  <1>3. Underway(ip, n)' = Underway(ip, n) \union (IF lets THEN {r} ELSE {})
    <2>1. ASSUME NEW q \in Request
          PROVE  q \in Underway(ip, n)' <=> (IF q = r THEN lets ELSE q \in Underway(ip, n))
      BY <1>1, <2>1 DEF TypeOK, Underway, Allowed
    <2>2. Underway(ip, n) \subseteq Request /\ Underway(ip, n)' \subseteq Request
      BY DEF Underway
    <2> HIDE DEF lets
    <2>3. QED
      BY <1>2, <2>1, <2>2
  <1>4. IsFiniteSet(Underway(ip, n)) /\ Cardinality(Underway(ip, n)) \in Nat
    BY UnderwayFinite
  <1>5. Cardinality(Underway(ip, n) \union {r}) = Cardinality(Underway(ip, n)) + 1
    BY <1>2, <1>4, FS_AddElement
  <1>6. Cardinality(Underway(ip, n)') = Cardinality(Underway(ip, n)) + (IF lets THEN 1 ELSE 0)
    <2>1. CASE lets
      BY <1>3, <1>5, <2>1
    <2>2. CASE ~lets
      <3>1. Underway(ip, n)' = Underway(ip, n)
        BY <1>3, <2>2
      <3>2. QED
        BY <1>4, <2>2, <3>1
    <2>3. QED
      BY <2>1, <2>2
  <1>7. Cardinality(Tokens(served[ip], n)) \in Nat
    BY TokensFinite, RateLimitAssumption DEF TypeOK, Ages
  <1> HIDE DEF lets
  <1>8. LetThrough(ip, n)' = LetThrough(ip, n) + (IF lets THEN 1 ELSE 0)
    BY <1>1, <1>4, <1>6, <1>7 DEF LetThrough
  <1>9. QED
    BY <1>8 DEF lets

\* Serving moves a request from one half of the sum to the other.
LEMMA ServeLets ==
    ASSUME TypeOK, Few, NEW r \in Request, Serve(r), NEW ip \in IP, NEW n \in Int, n <= Window
    PROVE  LetThrough(ip, n)' = LetThrough(ip, n)
  <1> USE RateLimitAssumption DEF RateLimitAssumption
  <1> DEFINE moves == ip = from[r] /\ since[r] < n
             D == Underway(ip, n)
  <1>1. /\ step[r] = "counted" /\ Allowed(result[r]) /\ step' = [step EXCEPT ![r] = "idle"]
        /\ result' = [result EXCEPT ![r] = 0] /\ since' = [since EXCEPT ![r] = 0]
        /\ UNCHANGED from
        /\ served' = IF since[r] \in Ages
                     THEN [served EXCEPT ![from[r]][since[r]] = @ + 1]
                     ELSE served
    BY DEF Serve, Release
  <1>2. r \in D <=> moves
    BY <1>1 DEF Underway
  <1>3. Underway(ip, n)' = D \ {r}
    <2>1. ASSUME NEW q \in Request PROVE q \in Underway(ip, n)' <=> q \in D \ {r}
      BY <1>1, <2>1 DEF TypeOK, Underway, Allowed
    <2>2. D \subseteq Request /\ Underway(ip, n)' \subseteq Request
      BY DEF Underway
    <2>3. QED
      BY <2>1, <2>2
  <1>4. IsFiniteSet(D) /\ Cardinality(D) \in Nat
    BY UnderwayFinite
  <1> HIDE DEF D
  <1>5. Cardinality(D \ {r}) = Cardinality(D) - (IF moves THEN 1 ELSE 0)
    <2>1. CASE moves
      BY <1>2, <1>4, <2>1, FS_RemoveElement
    <2>2. CASE ~moves
      <3>1. D \ {r} = D
        BY <1>2, <2>2
      <3>2. QED
        BY <1>4, <2>2, <3>1
    <2>3. QED
      BY <2>1, <2>2
  <1>6. Cardinality(Tokens(served[ip], n)) \in Nat
    BY TokensFinite DEF TypeOK, Ages
  <1>7. Cardinality(Tokens(served'[ip], n))
          = Cardinality(Tokens(served[ip], n)) + (IF moves THEN 1 ELSE 0)
    <2>1. served[ip] \in [Ages -> Nat] /\ since[r] \in Nat
      BY DEF TypeOK
    <2>2. CASE ip = from[r] /\ since[r] \in Ages
      <3>1. served'[ip] = [served[ip] EXCEPT ![since[r]] = @ + 1]
        BY <1>1, <2>2 DEF TypeOK
      <3>2. QED
        BY <2>1, <2>2, <3>1, TokenAdded
    <2>3. CASE ~(ip = from[r] /\ since[r] \in Ages)
      <3>1. served'[ip] = served[ip]
        BY <1>1, <2>3 DEF TypeOK
      <3>2. ~moves
        BY <2>1, <2>3 DEF Ages
      <3>3. QED
        BY <1>6, <3>1, <3>2
    <2>4. QED
      BY <2>2, <2>3
  <1> HIDE DEF moves
  <1>8. QED
    BY <1>3, <1>4, <1>5, <1>6, <1>7 DEF LetThrough, D

\* A lost reply wastes one request at most.
LEMMA LossLets ==
    ASSUME TypeOK, Few, NEW r \in Request, Resend(r) \/ FailOpen(r),
           NEW ip \in IP, NEW n \in Int, n <= Window
    PROVE  /\ LetThrough(ip, n)' \in Nat
           /\ LetThrough(ip, n)' <= LetThrough(ip, n)
           /\ LetThrough(ip, n)' >= LetThrough(ip, n) - 1
  <1> USE RateLimitAssumption DEF RateLimitAssumption
  <1> DEFINE D == Underway(ip, n)
  <1>1. /\ step' \in {[step EXCEPT ![r] = "asked"], [step EXCEPT ![r] = "idle"]}
        /\ result' = [result EXCEPT ![r] = 0] /\ since' = [since EXCEPT ![r] = 0]
        /\ UNCHANGED <<from, served>>
    BY DEF Resend, FailOpen, LoseReply, Release
  <1>2. Underway(ip, n)' = D \ {r}
    <2>1. ASSUME NEW q \in Request PROVE q \in Underway(ip, n)' <=> q \in D \ {r}
      BY <1>1, <2>1 DEF TypeOK, Underway, Allowed
    <2>2. D \subseteq Request /\ Underway(ip, n)' \subseteq Request
      BY DEF Underway
    <2>3. QED
      BY <2>1, <2>2
  <1>3. IsFiniteSet(D) /\ Cardinality(D) \in Nat
    BY UnderwayFinite
  <1>4. Cardinality(Tokens(served[ip], n)) \in Nat
    BY TokensFinite DEF TypeOK, Ages
  <1> HIDE DEF D
  <1>5. /\ Cardinality(D \ {r}) \in {Cardinality(D), Cardinality(D) - 1}
        /\ Cardinality(D \ {r}) \in Nat
    <2>1. /\ IsFiniteSet(D \ {r})
          /\ Cardinality(D \ {r}) = IF r \in D THEN Cardinality(D) - 1 ELSE Cardinality(D)
      BY <1>3, FS_RemoveElement
    <2>2. QED
      BY <2>1, FS_CardinalityType
  <1>6. QED
    BY <1>1, <1>2, <1>3, <1>4, <1>5 DEF LetThrough, D

\* A tick makes everything one tick older.
LEMMA TickLets ==
    ASSUME TypeOK, Few, Tick, NEW ip \in IP, NEW n \in Nat, n < Window
    PROVE  LetThrough(ip, n + 1)' = LetThrough(ip, n)
  <1> USE RateLimitAssumption DEF RateLimitAssumption
  <1>1. served'[ip] = [a \in Ages |-> IF a = 0 THEN 0 ELSE served[ip][a - 1]]
    BY DEF Tick
  <1>2. Cardinality(Tokens(served'[ip], n + 1)) = Cardinality(Tokens(served[ip], n))
    BY <1>1, TokensAge DEF TypeOK
  <1>3. Underway(ip, n + 1)' = Underway(ip, n)
    <2>1. ASSUME NEW q \in Request PROVE q \in Underway(ip, n + 1)' <=> q \in Underway(ip, n)
      <3>1. /\ step' = step /\ from' = from /\ result' = result /\ since[q] \in Nat
            /\ since'[q] = IF step[q] = "counted" /\ since[q] < Window
                          THEN since[q] + 1
                          ELSE since[q]
        BY DEF Tick, TypeOK
      <3>2. step[q] = "counted" => (since'[q] < n + 1 <=> since[q] < n)
        BY <3>1
      <3>3. QED
        BY <3>1, <3>2 DEF Underway, Allowed
    <2>2. QED
      BY <2>1 DEF Underway
  <1>4. QED
    BY <1>2, <1>3 DEF LetThrough

\* The other steps leave the number alone.
LEMMA OthersLet ==
    ASSUME TypeOK,
           \/ \E r \in Request : Refuse(r) \/ \E i \in IP : Ask(r, i)
           \/ Forget
           \/ UNCHANGED vars,
           NEW ip \in IP, NEW n \in Int
    PROVE  LetThrough(ip, n)' = LetThrough(ip, n)
  <1>1. served' = served
    BY DEF Refuse, Ask, Forget, vars
  <1>2. Underway(ip, n)' = Underway(ip, n)
    <2>1. ASSUME NEW q \in Request PROVE q \in Underway(ip, n)' <=> q \in Underway(ip, n)
      BY DEF TypeOK, Refuse, Ask, Forget, Release, handler, vars, Underway, Allowed
    <2>2. QED
      BY <2>1 DEF Underway
  <1>3. QED
    BY <1>1, <1>2 DEF LetThrough
-----------------------------------------------------------------------------
(* What the counters say of the requests let through. *)

\* n ticks after an open window began: the request that opened it is n ticks old, so that
\* the younger ones are fewer than the grants; and of the grants only a lost reply can
\* have cost one.
OpenWindow(ip) ==
    \A n \in Nat :
        count[ip] > 0 /\ n + ttl[ip] = Window =>
            /\ LetThrough(ip, n) <= Granted[ip] - 1
            /\ LetThrough(ip, n + 1) >= Granted[ip] - broken

\* What is left of earlier windows is less than a limit, and one more for each loss of
\* Redis's data.
Earlier == (1 + forgets) * Limit
LastWindow(ip) == LetThrough(ip, Window) <= Granted[ip] + Earlier - 1

CountInv ==
    /\ Few
    /\ \A ip \in IP : ttl[ip] = 0 \/ ttl[ip] <= Window
    /\ Limit >= 1 => \A ip \in IP : OpenWindow(ip) /\ LastWindow(ip)

LEMMA FewStep == TypeOK /\ Few /\ [Next]_vars => Few'
  <1> DEFINE S == { r \in Request : step[r] = "counted" }
  <1> SUFFICES ASSUME TypeOK, Few, [Next]_vars PROVE Few'
    OBVIOUS
  <1>1. ASSUME NEW r \in Request, { q \in Request : step'[q] = "counted" } \subseteq S \union {r}
        PROVE  Few'
    <2>1. IsFiniteSet(S \union {r})
      BY FS_AddElement DEF Few
    <2>2. QED
      BY <1>1, <2>1, FS_Subset DEF Few
  <1>2. CASE { q \in Request : step'[q] = "counted" } \subseteq S
    BY <1>2, FS_Subset DEF Few
  <1>3. ASSUME NEW r \in Request, RunScript(r) PROVE Few'
    <2>1. { q \in Request : step'[q] = "counted" } \subseteq S \union {r}
      BY <1>3 DEF RunScript
    <2>2. QED
      BY <1>1, <2>1
  <1>4. ASSUME NEW r \in Request,
               step' \in {[step EXCEPT ![r] = "asked"], [step EXCEPT ![r] = "idle"]}
        PROVE  Few'
    <2>1. { q \in Request : step'[q] = "counted" } \subseteq S
      BY <1>4 DEF TypeOK
    <2>2. QED
      BY <1>2, <2>1
  <1>5. CASE UNCHANGED step
    BY <1>5 DEF Few
  <1>6. QED
    BY <1>3, <1>4, <1>5
    DEF Next, vars, handler, Handle, Ask, Serve, Refuse, Resend, FailOpen, LoseReply, Release,
        Forget, Tick

LEMMA WindowStep ==
    ASSUME KeyInv, \A ip \in IP : ttl[ip] = 0 \/ ttl[ip] <= Window, [Next]_vars
    PROVE  \A ip \in IP : ttl'[ip] = 0 \/ ttl'[ip] <= Window
  <1> USE RateLimitAssumption DEF RateLimitAssumption, KeyInv
  <1>1. ASSUME NEW i \in IP, Hit(i) PROVE \A ip \in IP : ttl'[ip] = 0 \/ ttl'[ip] <= Window
    BY <1>1 DEF Hit
  <1>2. CASE Forget
    BY <1>2 DEF Forget
  <1>3. CASE Tick
    BY <1>3 DEF Tick
  <1>4. CASE UNCHANGED <<count, ttl>>
    BY <1>4
  <1>5. QED
    BY <1>1, <1>2, <1>3, <1>4, StepOfKeys

\* The grants of a window when one more script has run.
LEMMA GrantedStep ==
    ASSUME Limit >= 1, KeyInv, NEW i \in IP, Hit(i)
    PROVE  /\ \A ip \in IP \ {i} : /\ Granted'[ip] = Granted[ip] /\ count'[ip] = count[ip]
                                  /\ ttl'[ip] = ttl[ip]
           /\ Allowed(Incremented(count[i])) <=> count[i] < Limit
           /\ count[i] > 0 => /\ count'[i] > 0 /\ ttl'[i] = ttl[i]
                              /\ Granted'[i] = Granted[i] + (IF count[i] < Limit THEN 1 ELSE 0)
           /\ count[i] = 0 /\ Window > 0 => ttl'[i] = Window /\ Granted[i] = 0 /\ Granted'[i] = 1
           /\ count[i] = 0 /\ Window <= 0 => count'[i] = 0 /\ Granted'[i] = Granted[i]
  <1> USE RateLimitAssumption DEF RateLimitAssumption, KeyInv
  <1>1. /\ count[i] \in Nat
        /\ Incremented(count[i]) = IF count[i] < MaxCount THEN count[i] + 1 ELSE count[i]
        /\ Incremented(0) = 1
    BY DEF Incremented
  <1>2. \A ip \in IP \ {i} : count'[ip] = count[ip] /\ ttl'[ip] = ttl[ip]
    BY DEF Hit
  <1>3. \A ip \in IP \ {i} : Granted'[ip] = Granted[ip]
    BY <1>2 DEF Granted
  <1>4. /\ Granted[i] = (IF count[i] <= Limit THEN count[i] ELSE Limit)
        /\ Granted'[i] = (IF count'[i] <= Limit THEN count'[i] ELSE Limit)
    BY DEF Granted
  <1>5. Allowed(Incremented(count[i])) <=> count[i] < Limit
    BY <1>1 DEF Allowed
  <1>6. CASE count[i] > 0
    <2>1. count'[i] = Incremented(count[i]) /\ ttl'[i] = ttl[i]
      BY <1>6 DEF Hit
    <2>2. QED
      BY <1>1, <1>2, <1>3, <1>4, <1>5, <1>6, <2>1
  <1>7. CASE count[i] = 0 /\ Window > 0
    <2>1. count'[i] = 1 /\ ttl'[i] = Window
      BY <1>1, <1>7 DEF Hit
    <2>2. QED
      BY <1>1, <1>2, <1>3, <1>4, <1>5, <1>7, <2>1
  <1>8. CASE count[i] = 0 /\ Window <= 0
    <2>1. count'[i] = 0
      BY <1>1, <1>8 DEF Hit
    <2>2. QED
      BY <1>1, <1>2, <1>3, <1>4, <1>5, <1>8, <2>1
  <1>9. QED
    BY <1>1, <1>6, <1>7, <1>8

LEMMA CountStep ==
    ASSUME TypeOK, KeyInv, CountInv, TypeOK', Few', [Next]_vars, Limit >= 1, NEW ip \in IP
    PROVE  OpenWindow(ip)' /\ LastWindow(ip)'
  <1> USE RateLimitAssumption DEF RateLimitAssumption
  <1>1. /\ count[ip] \in Nat /\ ttl[ip] \in Nat /\ (count[ip] > 0 <=> ttl[ip] > 0)
        /\ broken \in Nat /\ forgets \in Nat /\ (ttl[ip] = 0 \/ ttl[ip] <= Window)
    BY DEF TypeOK, KeyInv, EveryCounterExpires, CountInv
  <1>2. Granted[ip] \in 0..Limit /\ Granted[ip] = (IF count[ip] <= Limit THEN count[ip] ELSE Limit)
    BY <1>1 DEF Granted
  <1>3. Earlier \in Nat /\ Earlier >= Limit
    <2>1. \A a, b \in Nat : (1 + a) * b \in Nat /\ (1 + a) * b >= b
      OBVIOUS
    <2>2. QED
      BY <1>1, <2>1 DEF Earlier
  <1>4. /\ OpenWindow(ip) /\ LastWindow(ip) /\ Few
    BY DEF CountInv
  <1>5. ASSUME NEW n \in Int, n <= Window
        PROVE  /\ LetThrough(ip, n) \in Nat
               /\ \A m \in Int : m <= n => LetThrough(ip, m) <= LetThrough(ip, n)
    BY <1>4, <1>5, LetThroughType
  <1>6. \A n \in Int : n <= Window =>
            LetThrough(ip, n)' \in Nat /\ (n <= 0 => LetThrough(ip, n)' = 0)
    BY NextSound DEF Sound
  \* Nothing moves but a request from one half of the sum to the other.
  <1>7. ASSUME \A n \in Int : n <= Window => LetThrough(ip, n)' = LetThrough(ip, n),
               Granted'[ip] = Granted[ip], UNCHANGED <<broken, forgets>>,
               count'[ip] = count[ip], ttl'[ip] = ttl[ip]
        PROVE  OpenWindow(ip)' /\ LastWindow(ip)'
    <2>1. LastWindow(ip)'
      BY <1>4, <1>7 DEF LastWindow, Earlier
    <2>2. ASSUME NEW n \in Nat, count'[ip] > 0, n + ttl'[ip] = Window
          PROVE  /\ LetThrough(ip, n)' <= Granted'[ip] - 1
                 /\ LetThrough(ip, n + 1)' >= Granted'[ip] - broken'
      <3>1. n <= Window /\ n + 1 <= Window
        BY <1>1, <1>7, <2>2
      <3>2. QED
        BY <1>4, <1>7, <2>2, <3>1 DEF OpenWindow
    <2>3. QED
      BY <2>1, <2>2 DEF OpenWindow
  <1>8. ASSUME NEW r \in Request, RunScript(r) PROVE OpenWindow(ip)' /\ LastWindow(ip)'
    <2> DEFINE i == from[r]
    <2>1. i \in IP /\ Hit(i) /\ UNCHANGED <<broken, forgets>>
      BY <1>8 DEF RunScript, KeyInv
    <2>2. \A n \in Int : n <= Window =>
             LetThrough(ip, n)' = LetThrough(ip, n)
               + (IF ip = i /\ n > 0 /\ Allowed(Incremented(count[i])) THEN 1 ELSE 0)
      BY <1>4, <1>8, RunScriptLets
    <2>3. /\ \A j \in IP \ {i} : /\ Granted'[j] = Granted[j] /\ count'[j] = count[j]
                                  /\ ttl'[j] = ttl[j]
          /\ Allowed(Incremented(count[i])) <=> count[i] < Limit
          /\ count[i] > 0 => /\ count'[i] > 0 /\ ttl'[i] = ttl[i]
                             /\ Granted'[i] = Granted[i] + (IF count[i] < Limit THEN 1 ELSE 0)
          /\ count[i] = 0 /\ Window > 0 => ttl'[i] = Window /\ Granted[i] = 0 /\ Granted'[i] = 1
          /\ count[i] = 0 /\ Window <= 0 => count'[i] = 0 /\ Granted'[i] = Granted[i]
      BY <2>1, GrantedStep
    <2> HIDE DEF i
    <2>4. CASE ip # i
      <3>1. \A n \in Int : n <= Window => LetThrough(ip, n)' = LetThrough(ip, n)
        BY <1>5, <2>2, <2>4
      <3>2. QED
        BY <1>7, <2>1, <2>3, <2>4, <3>1
    <2>5. CASE ip = i /\ count[i] > 0
      <3> DEFINE d == IF count[i] < Limit THEN 1 ELSE 0
      <3>1. \A n \in Int : n <= Window /\ n > 0 => LetThrough(ip, n)' = LetThrough(ip, n) + d
        BY <2>2, <2>3, <2>5
      <3>2. \A n \in Int : n <= Window => LetThrough(ip, n)' <= LetThrough(ip, n) + d
        BY <1>5, <2>2, <2>3, <2>5
      <3>3. Granted'[ip] = Granted[ip] + d /\ ttl'[ip] = ttl[ip] /\ d \in 0..1
        BY <2>3, <2>5
      <3> HIDE DEF d
      <3>4. LetThrough(ip, Window)' \in Nat
        BY <1>6
      <3>5. LastWindow(ip)'
        BY <1>2, <1>3, <1>4, <1>5, <2>1, <3>2, <3>3, <3>4 DEF LastWindow, Earlier
      <3>6. ASSUME NEW n \in Nat, n + ttl'[ip] = Window
            PROVE  /\ LetThrough(ip, n)' <= Granted'[ip] - 1
                   /\ LetThrough(ip, n + 1)' >= Granted'[ip] - broken'
        <4>1. n <= Window /\ n + 1 <= Window /\ n + 1 > 0 /\ n \in Int /\ n + 1 \in Int
          BY <1>1, <2>5, <3>3, <3>6
        <4>2. LetThrough(ip, n) <= Granted[ip] - 1 /\ LetThrough(ip, n + 1) >= Granted[ip] - broken
          BY <1>4, <2>5, <3>3, <3>6 DEF OpenWindow
        <4>3. LetThrough(ip, n)' <= LetThrough(ip, n) + d
          BY <3>2, <4>1
        <4>4. LetThrough(ip, n + 1)' = LetThrough(ip, n + 1) + d
          BY <3>1, <4>1
        <4>5. LetThrough(ip, n)' \in Nat /\ LetThrough(ip, n) \in Nat
              /\ LetThrough(ip, n + 1) \in Nat
          BY <1>5, <1>6, <4>1
        <4>6. QED
          BY <1>1, <1>2, <2>1, <3>3, <4>2, <4>3, <4>4, <4>5
      <3>7. QED
        BY <3>5, <3>6 DEF OpenWindow
    <2>6. CASE ip = i /\ count[i] = 0 /\ Window > 0
      <3>1. Granted[ip] = 0 /\ Granted'[ip] = 1 /\ ttl'[ip] = Window
        BY <2>3, <2>6
      <3>2. \A n \in Int : n <= Window /\ n > 0 => LetThrough(ip, n)' = LetThrough(ip, n) + 1
        BY <2>2, <2>3, <2>6
      <3>3. LastWindow(ip)'
        <4>1. LetThrough(ip, Window)' = LetThrough(ip, Window) + 1 /\ LetThrough(ip, Window) \in Nat
          BY <1>5, <2>6, <3>2
        <4>2. LetThrough(ip, Window) <= Earlier - 1
          BY <1>3, <1>4, <3>1, <4>1 DEF LastWindow
        <4>3. Earlier' = Earlier
          BY <2>1 DEF Earlier
        <4>4. QED
          BY <1>3, <3>1, <4>1, <4>2, <4>3 DEF LastWindow
      <3>4. LetThrough(ip, 0)' = 0
        BY <1>6, <2>6
      <3>5. LetThrough(ip, 1)' >= 1
        BY <1>5, <2>6, <3>2
      <3>6. ASSUME NEW n \in Nat, n + ttl'[ip] = Window
            PROVE  /\ LetThrough(ip, n)' <= Granted'[ip] - 1
                   /\ LetThrough(ip, n + 1)' >= Granted'[ip] - broken'
        <4>1. n = 0
          BY <3>1, <3>6
        <4>2. LetThrough(ip, 1)' \in Nat
          BY <1>6, <2>6
        <4>3. LetThrough(ip, n)' <= Granted'[ip] - 1
          BY <3>1, <3>4, <4>1
        <4>4. LetThrough(ip, n + 1)' >= Granted'[ip] - broken'
          BY <1>1, <2>1, <3>1, <3>5, <4>1, <4>2
        <4>5. QED
          BY <4>3, <4>4
      <3>7. QED
        BY <3>3, <3>6 DEF OpenWindow
    <2>7. CASE ip = i /\ count[i] = 0 /\ Window <= 0
      <3>1. LetThrough(ip, Window)' = LetThrough(ip, Window)
        BY <1>5, <2>2, <2>7
      <3>2. LastWindow(ip)'
        BY <1>4, <2>1, <2>3, <2>7, <3>1 DEF LastWindow, Earlier
      <3>3. QED
        BY <2>3, <2>7, <3>2 DEF OpenWindow
    <2>8. QED
      BY <1>1, <2>4, <2>5, <2>6, <2>7
  <1>9. ASSUME NEW r \in Request, Serve(r) PROVE OpenWindow(ip)' /\ LastWindow(ip)'
    <2>1. \A n \in Int : n <= Window => LetThrough(ip, n)' = LetThrough(ip, n)
      BY <1>4, <1>9, ServeLets
    <2>2. Granted' = Granted /\ UNCHANGED <<count, ttl, broken, forgets>>
      BY <1>9 DEF Serve, Granted
    <2>3. QED
      BY <1>7, <2>1, <2>2
  <1>10. ASSUME NEW r \in Request, Resend(r) \/ FailOpen(r) PROVE OpenWindow(ip)' /\ LastWindow(ip)'
    <2>1. ASSUME NEW n \in Int, n <= Window
          PROVE  /\ LetThrough(ip, n)' \in Nat
                 /\ LetThrough(ip, n)' <= LetThrough(ip, n)
                 /\ LetThrough(ip, n)' >= LetThrough(ip, n) - 1
      BY <1>4, <1>10, <2>1, LossLets
    <2>2. Granted' = Granted /\ broken' = broken + 1 /\ UNCHANGED <<count, ttl, forgets>>
      BY <1>10 DEF Resend, FailOpen, LoseReply, Granted
    <2>3. LastWindow(ip)'
      BY <1>2, <1>3, <1>4, <1>5, <2>1, <2>2 DEF LastWindow, Earlier
    <2>4. ASSUME NEW n \in Nat, count[ip] > 0, n + ttl[ip] = Window
          PROVE  /\ LetThrough(ip, n)' <= Granted[ip] - 1
                 /\ LetThrough(ip, n + 1)' >= Granted[ip] - (broken + 1)
      <3>1. n <= Window /\ n + 1 <= Window /\ n \in Int /\ n + 1 \in Int
        BY <1>1, <2>4
      <3>2. LetThrough(ip, n) <= Granted[ip] - 1 /\ LetThrough(ip, n + 1) >= Granted[ip] - broken
        BY <1>4, <2>4 DEF OpenWindow
      <3>3. LetThrough(ip, n) \in Nat /\ LetThrough(ip, n + 1) \in Nat
        BY <1>5, <3>1
      <3>4. /\ LetThrough(ip, n)' \in Nat /\ LetThrough(ip, n)' <= LetThrough(ip, n)
            /\ LetThrough(ip, n + 1)' \in Nat /\ LetThrough(ip, n + 1)' >= LetThrough(ip, n + 1) - 1
        BY <2>1, <3>1
      <3>5. QED
        BY <1>1, <1>2, <3>2, <3>3, <3>4
    <2>5. QED
      BY <2>2, <2>3, <2>4 DEF OpenWindow
  <1>11. CASE Tick
    <2>1. /\ count'[ip] = (IF ttl[ip] = 1 THEN 0 ELSE count[ip])
          /\ ttl'[ip] = (IF ttl[ip] > 0 THEN ttl[ip] - 1 ELSE 0)
          /\ UNCHANGED <<broken, forgets>>
      BY <1>11 DEF Tick
    <2>2. Granted'[ip] = (IF count'[ip] <= Limit THEN count'[ip] ELSE Limit)
      BY DEF Granted
    <2>3. Earlier' = Earlier
      BY <2>1 DEF Earlier
    <2>4. ASSUME NEW n \in Nat, n < Window PROVE LetThrough(ip, n + 1)' = LetThrough(ip, n)
      BY <1>4, <1>11, <2>4, TickLets
    <2>5. CASE Window <= 0
      <3>1. LetThrough(ip, Window)' = 0
        BY <1>6, <2>5
      <3>2. ttl[ip] = 0 /\ count[ip] = 0
        BY <1>1, <2>5
      <3>3. count'[ip] = 0 /\ Granted'[ip] = 0
        BY <2>1, <2>2, <3>2
      <3>4. LastWindow(ip)'
        BY <1>3, <2>3, <3>1, <3>3 DEF LastWindow
      <3>5. QED
        BY <3>3, <3>4 DEF OpenWindow
    <2>6. CASE Window > 0
      <3>1. LetThrough(ip, Window)' = LetThrough(ip, Window - 1)
        <4>1. Window - 1 \in Nat /\ Window - 1 < Window /\ (Window - 1) + 1 = Window
          BY <2>6
        <4> QED
          BY <2>4, <4>1
      <3>2. /\ LetThrough(ip, Window - 1) \in Nat /\ LetThrough(ip, Window) \in Nat
            /\ LetThrough(ip, Window - 1) <= LetThrough(ip, Window)
        BY <1>5
      <3>3. CASE ttl[ip] = 1
        <4>1. LetThrough(ip, Window - 1) <= Granted[ip] - 1
          BY <1>1, <1>4, <2>6, <3>3 DEF OpenWindow
        <4>2. count'[ip] = 0 /\ Granted'[ip] = 0
          BY <2>1, <2>2, <3>3
        <4>3. LastWindow(ip)'
          BY <1>2, <1>3, <2>3, <3>1, <3>2, <4>1, <4>2 DEF LastWindow
        <4>4. QED
          BY <4>2, <4>3 DEF OpenWindow
      <3>4. CASE ttl[ip] # 1
        <4>1. count'[ip] = count[ip] /\ Granted'[ip] = Granted[ip]
          BY <1>2, <2>1, <2>2, <3>4
        <4>2. LastWindow(ip)'
          BY <1>2, <1>3, <1>4, <2>3, <3>1, <3>2, <4>1 DEF LastWindow
        <4>3. ASSUME NEW n \in Nat, count[ip] > 0, n + ttl'[ip] = Window
              PROVE  /\ LetThrough(ip, n)' <= Granted[ip] - 1
                     /\ LetThrough(ip, n + 1)' >= Granted[ip] - broken
          <5>1. ttl[ip] > 1 /\ ttl'[ip] = ttl[ip] - 1 /\ ttl[ip] <= Window
            BY <1>1, <2>1, <3>4, <4>3
          <5>2. /\ n - 1 \in Nat /\ (n - 1) + ttl[ip] = Window /\ n - 1 < Window /\ n < Window
                /\ (n - 1) + 1 = n
            BY <1>1, <4>3, <5>1
          <5>3. LetThrough(ip, n - 1) <= Granted[ip] - 1
                /\ LetThrough(ip, (n - 1) + 1) >= Granted[ip] - broken
            BY <1>4, <4>3, <5>2 DEF OpenWindow
          <5>4. /\ LetThrough(ip, (n - 1) + 1)' = LetThrough(ip, n - 1)
                /\ LetThrough(ip, n + 1)' = LetThrough(ip, n)
            BY <2>4, <5>2
          <5>5. QED
            BY <5>2, <5>3, <5>4
        <4>4. QED
          BY <2>1, <4>1, <4>2, <4>3 DEF OpenWindow
      <3>5. QED
        BY <3>3, <3>4
    <2>7. QED
      BY <2>5, <2>6
  <1>12. CASE Forget
    <2>1. count'[ip] = 0 /\ forgets' = forgets + 1
      BY <1>12 DEF Forget
    <2>2. Granted'[ip] = 0
      BY <2>1 DEF Granted
    <2>3. Earlier' = Earlier + Limit
      <3>1. \A a, b \in Nat : (1 + (a + 1)) * b = (1 + a) * b + b
        OBVIOUS
      <3>2. QED
        BY <1>1, <2>1, <3>1 DEF Earlier
    <2>4. LetThrough(ip, Window)' = LetThrough(ip, Window) /\ LetThrough(ip, Window) \in Nat
      BY <1>5, <1>12, OthersLet
    <2>5. LetThrough(ip, Window) <= Granted[ip] + Earlier - 1
      BY <1>4 DEF LastWindow
    <2>6. LastWindow(ip)'
      BY <1>2, <1>3, <2>2, <2>3, <2>4, <2>5 DEF LastWindow
    <2>7. QED
      BY <2>1, <2>6 DEF OpenWindow
  <1>13. CASE \/ \E r \in Request : Refuse(r) \/ \E i \in IP : Ask(r, i)
              \/ UNCHANGED vars
    <2>1. \A n \in Int : LetThrough(ip, n)' = LetThrough(ip, n)
      BY <1>13, OthersLet
    <2>2. UNCHANGED <<count, ttl, broken, forgets>>
      BY <1>13 DEF Refuse, Ask, vars
    <2>3. Granted' = Granted
      BY <2>2 DEF Granted
    <2>4. QED
      BY <1>7, <2>1, <2>2, <2>3
  <1>14. QED
    BY <1>8, <1>9, <1>10, <1>11, <1>12, <1>13 DEF Next, Handle

LEMMA CountInvariant == Spec => []CountInv
  <1> USE RateLimitAssumption DEF RateLimitAssumption
  <1>1. Init => CountInv
    <2> SUFFICES ASSUME Init PROVE CountInv
      OBVIOUS
    <2>1. /\ count = [ip \in IP |-> 0] /\ ttl = [ip \in IP |-> 0] /\ forgets = 0
          /\ served = [ip \in IP |-> Nobody] /\ step = [r \in Request |-> "idle"]
      BY DEF Init
    <2>2. Few
      <3>1. { r \in Request : step[r] = "counted" } = {}
        BY <2>1
      <3>2. QED
        BY <3>1, FS_EmptySet DEF Few
    <2>3. ASSUME NEW ip \in IP, Limit >= 1 PROVE OpenWindow(ip) /\ LastWindow(ip)
      <3>1. \A a \in 0..(Window - 1) : 1..served[ip][a] = {}
        BY <2>1 DEF Nobody, Ages
      <3>2. Tokens(served[ip], Window) = {}
        BY <3>1 DEF Tokens
      <3>3. Underway(ip, Window) = {}
        BY <2>1 DEF Underway
      <3>4. LetThrough(ip, Window) = 0
        BY <3>2, <3>3, FS_EmptySet DEF LetThrough
      <3>5. Granted[ip] = 0
        BY <2>1, <2>3 DEF Granted
      <3>6. Earlier = Limit
        BY <2>1 DEF Earlier
      <3>7. LastWindow(ip)
        BY <2>3, <3>4, <3>5, <3>6 DEF LastWindow
      <3>8. QED
        BY <2>1, <3>7 DEF OpenWindow
    <2>4. QED
      BY <2>1, <2>2, <2>3 DEF CountInv
  <1>2. TypeOK /\ KeyInv /\ CountInv /\ [Next]_vars => CountInv'
    <2> SUFFICES ASSUME TypeOK, KeyInv, CountInv, [Next]_vars PROVE CountInv'
      OBVIOUS
    <2>1. TypeOK'
      BY TypeStep
    <2>2. Few'
      BY FewStep DEF CountInv
    <2>3. \A ip \in IP : ttl'[ip] = 0 \/ ttl'[ip] <= Window
      BY WindowStep DEF CountInv
    <2>4. Limit >= 1 => \A ip \in IP : OpenWindow(ip)' /\ LastWindow(ip)'
      BY <2>1, <2>2, CountStep
    <2>5. QED
      BY <2>2, <2>3, <2>4 DEF CountInv
  <1>3. QED
    BY <1>1, <1>2, TypeCorrect, KeyInvariant, PTL DEF Spec

\* In any stretch of Window ticks an IP is served less than two limits, and one more for
\* each time Redis forgot: whatever the handlers, the retries and the late replies do.
THEOREM BurstsAreBounded == Spec => []BurstBounded
  <1> USE RateLimitAssumption DEF RateLimitAssumption
  <1>1. TypeOK /\ CountInv => BurstBounded
    <2> SUFFICES ASSUME TypeOK, CountInv, Limit >= 1, NEW ip \in IP
                 PROVE  LetThrough(ip, Window) < (2 + forgets) * Limit
      BY DEF BurstBounded
    <2>1. LetThrough(ip, Window) <= Granted[ip] + Earlier - 1
      BY DEF CountInv, LastWindow
    <2>2. Granted[ip] \in Nat /\ Granted[ip] <= Limit
      BY DEF Granted, TypeOK
    <2>3. Earlier \in Nat /\ (2 + forgets) * Limit = Earlier + Limit
      <3>1. \A a, b \in Nat : (1 + a) * b \in Nat /\ (2 + a) * b = (1 + a) * b + b
        OBVIOUS
      <3>2. QED
        BY <3>1 DEF Earlier, TypeOK
    <2>4. LetThrough(ip, Window) \in Nat
      BY LetThroughType DEF CountInv
    <2>5. QED
      BY <2>1, <2>2, <2>3, <2>4
  <1>2. QED
    BY <1>1, TypeCorrect, CountInvariant, PTL

\* An IP over its limit has had its limit in the last Window ticks, but for what lost
\* replies have wasted: nobody else's requests and no earlier window refuse it.
THEOREM RefusalsAreDeserved == Spec => []RefusedOnlyWhenFull
  <1> USE RateLimitAssumption DEF RateLimitAssumption
  <1>1. TypeOK /\ KeyInv /\ CountInv => RefusedOnlyWhenFull
    <2> SUFFICES ASSUME TypeOK, KeyInv, CountInv, NEW ip \in IP, count[ip] > Limit
                 PROVE  LetThrough(ip, Window) >= Limit - broken
      BY DEF RefusedOnlyWhenFull
    <2>1. LetThrough(ip, Window) \in Nat
      BY LetThroughType DEF CountInv
    <2>2. broken \in Nat /\ ttl[ip] \in Nat /\ count[ip] \in Nat
      BY DEF TypeOK
    <2>3. CASE Limit <= 0
      BY <2>1, <2>2, <2>3
    <2>4. CASE Limit >= 1
      <3>1. ttl[ip] > 0 /\ ttl[ip] <= Window
        BY <2>2, <2>4 DEF KeyInv, EveryCounterExpires, CountInv
      <3> DEFINE n == Window - ttl[ip]
      <3>2. n \in Nat /\ n + ttl[ip] = Window /\ n + 1 <= Window
        BY <2>2, <3>1
      <3>3. Granted[ip] = Limit
        BY <2>2, <2>4 DEF Granted
      <3>4. OpenWindow(ip)
        BY <2>4 DEF CountInv
      <3> HIDE DEF n
      <3>5. LetThrough(ip, n + 1) >= Limit - broken
        BY <2>2, <2>4, <3>2, <3>3, <3>4 DEF OpenWindow
      <3>6. LetThrough(ip, n + 1) \in Nat /\ LetThrough(ip, n + 1) <= LetThrough(ip, Window)
        BY <3>2, LetThroughType DEF CountInv
      <3>7. QED
        BY <2>1, <2>2, <3>5, <3>6
    <2>5. QED
      BY <2>3, <2>4
  <1>2. QED
    BY <1>1, TypeCorrect, KeyInvariant, CountInvariant, PTL
=============================================================================
