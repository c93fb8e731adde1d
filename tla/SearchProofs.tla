---------------------------- MODULE SearchProofs ----------------------------
(***************************************************************************)
(* What a client is shown of the index: the pages of a personalized search *)
(* (Ranking), the cached pages of any other (SearchCache), and the         *)
(* sections of the recommendations (Recommendations).  The three have no   *)
(* state in common; what they are proved with they partly have.            *)
(***************************************************************************)
EXTENDS Ranking, SearchCache, Recommendations, FiniteSetTheorems, SequenceTheorems, TLAPS

(* The personalized search, for any places, profiles, limits and pages. *)

LEMMA MinOfTwo == \A a, b \in Int : Min({a, b}) = IF a <= b THEN a ELSE b
<1> TAKE a, b \in Int
<1>1. \A x \in {a, b} : (\A y \in {a, b} : x <= y) <=> x = (IF a <= b THEN a ELSE b)
  OBVIOUS
<1>2. (IF a <= b THEN a ELSE b) \in {a, b}
  OBVIOUS
<1> QED  BY <1>1, <1>2 DEF Min

LEMMA MaxOfTwo == \A a, b \in Int : Max({a, b}) = IF a >= b THEN a ELSE b
<1> TAKE a, b \in Int
<1>1. \A x \in {a, b} : (\A y \in {a, b} : x >= y) <=> x = (IF a >= b THEN a ELSE b)
  OBVIOUS
<1>2. (IF a >= b THEN a ELSE b) \in {a, b}
  OBVIOUS
<1> QED  BY <1>1, <1>2 DEF Max

\* A part of a sequence.
LEMMA SliceFacts ==
    ASSUME NEW S, NEW s \in Seq(S), NEW from \in Nat \ {0}, NEW to \in Nat
    PROVE  LET last == IF to <= Len(s) THEN to ELSE Len(s)
           IN  /\ Slice(s, from, to) \in Seq(S)
               /\ Len(Slice(s, from, to)) = IF from <= last THEN last - from + 1 ELSE 0
               /\ \A i \in DOMAIN Slice(s, from, to) :
                     from + i - 1 \in DOMAIN s /\ Slice(s, from, to)[i] = s[from + i - 1]
<1> DEFINE last == IF to <= Len(s) THEN to ELSE Len(s)
<1>1. Len(s) \in Nat /\ DOMAIN s = 1..Len(s)
  OBVIOUS
<1>2. last \in Nat /\ last <= Len(s)
  BY <1>1
<1>3. Slice(s, from, to) = SubSeq(s, from, last)
  BY <1>1, MinOfTwo DEF Slice
<1> HIDE DEF last
<1>4. \A i \in from..last : i \in DOMAIN s /\ s[i] \in S
  BY <1>1, <1>2
<1>5. /\ SubSeq(s, from, last) \in Seq(S)
      /\ Len(SubSeq(s, from, last)) = IF from <= last THEN last - from + 1 ELSE 0
      /\ \A i \in 1..last - from + 1 : SubSeq(s, from, last)[i] = s[from + i - 1]
  BY <1>2, <1>4, SubSeqProperties
<1>6. ASSUME NEW i \in DOMAIN SubSeq(s, from, last)
      PROVE  from + i - 1 \in DOMAIN s /\ SubSeq(s, from, last)[i] = s[from + i - 1]
  <2>1. i \in 1..last - from + 1
    BY <1>2, <1>5
  <2> QED  BY <1>1, <1>2, <1>5, <2>1
<1> QED  BY <1>3, <1>5, <1>6 DEF last

LEMMA SliceElements ==
    ASSUME NEW S, NEW s \in Seq(S), NEW from \in Nat \ {0}, NEW to \in Nat
    PROVE  ToSet(Slice(s, from, to)) = { s[i] : i \in DOMAIN s \cap (from..to) }
<1> DEFINE last == IF to <= Len(s) THEN to ELSE Len(s)
           t == Slice(s, from, to)
<1>1. Len(s) \in Nat /\ DOMAIN s = 1..Len(s) /\ last \in Nat
  OBVIOUS
<1>2. /\ t \in Seq(S) /\ Len(t) = IF from <= last THEN last - from + 1 ELSE 0
      /\ \A i \in DOMAIN t : from + i - 1 \in DOMAIN s /\ t[i] = s[from + i - 1]
  BY SliceFacts
<1> HIDE DEF t
<1>3. DOMAIN t = 1..Len(t)
  BY <1>2
<1>4. ASSUME NEW i \in DOMAIN t
      PROVE  t[i] \in { s[j] : j \in DOMAIN s \cap (from..to) }
  <2>1. from + i - 1 \in DOMAIN s \cap (from..to)
    BY <1>1, <1>2, <1>3
  <2> QED  BY <1>2, <2>1
<1>5. ASSUME NEW j \in DOMAIN s \cap (from..to)
      PROVE  s[j] \in ToSet(t)
  <2>1. j - from + 1 \in DOMAIN t
    BY <1>1, <1>2, <1>3
  <2>2. t[j - from + 1] = s[from + (j - from + 1) - 1] /\ from + (j - from + 1) - 1 = j
    BY <1>1, <1>2, <2>1
  <2> QED  BY <2>1, <2>2 DEF ToSet
<1>6. ToSet(t) \subseteq { s[j] : j \in DOMAIN s \cap (from..to) }
  BY <1>4 DEF ToSet
<1>7. { s[j] : j \in DOMAIN s \cap (from..to) } \subseteq ToSet(t)
  BY <1>5
<1> QED  BY <1>6, <1>7 DEF t

LEMMA SliceInjective ==
    ASSUME NEW S, NEW s \in Seq(S), IsInjective(s), NEW from \in Nat \ {0}, NEW to \in Nat
    PROVE  IsInjective(Slice(s, from, to))
<1> DEFINE t == Slice(s, from, to)
<1>1. /\ t \in Seq(S)
      /\ \A i \in DOMAIN t : from + i - 1 \in DOMAIN s /\ t[i] = s[from + i - 1]
  BY SliceFacts
<1> HIDE DEF t
<1>2. ASSUME NEW i \in DOMAIN t, NEW j \in DOMAIN t, t[i] = t[j]
      PROVE  i = j
  <2>1. from + i - 1 = from + j - 1
    BY <1>1, <1>2 DEF IsInjective
  <2>2. i \in Nat /\ j \in Nat
    BY <1>1
  <2> QED  BY <2>1, <2>2
<1> QED  BY <1>2 DEF IsInjective, t

\* In a finite set that is ordered each n is the rank of one element: below[x] are those
\* before x.
LEMMA EveryRank ==
    ASSUME NEW S, IsFiniteSet(S), NEW below \in [S -> SUBSET S],
           \A x \in S : x \notin below[x],
           \A x, y \in S : x # y =>
              \/ x \in below[y] /\ below[x] \subseteq below[y]
              \/ y \in below[x] /\ below[y] \subseteq below[x]
    PROVE  /\ Cardinality(S) \in Nat
           /\ \A x, y \in S : Cardinality(below[x]) = Cardinality(below[y]) => x = y
           /\ \A n \in 1..Cardinality(S) : \E x \in S : Cardinality(below[x]) = n - 1
<1> DEFINE m == Cardinality(S)
           T == 0..m - 1
           r == [x \in S |-> Cardinality(below[x])]
<1>1. m \in Nat
  BY FS_CardinalityType
<1>2. ASSUME NEW x \in S
      PROVE  IsFiniteSet(below[x]) /\ Cardinality(below[x]) \in T
  <2>1. IsFiniteSet(below[x]) /\ Cardinality(below[x]) <= m
    BY FS_Subset
  <2>2. Cardinality(below[x]) # m
    BY FS_Subset
  <2>3. Cardinality(below[x]) \in Nat
    BY <2>1, FS_CardinalityType
  <2> QED  BY <1>1, <2>1, <2>2, <2>3
<1>3. ASSUME NEW x \in S, NEW y \in S, x \in below[y], below[x] \subseteq below[y]
      PROVE  Cardinality(below[x]) # Cardinality(below[y])
  <2>1. IsFiniteSet(below[y])
    BY <1>2
  <2>2. below[x] # below[y]
    BY <1>3
  <2> QED  BY <1>3, <2>1, <2>2, FS_Subset
<1>4. \A x, y \in S : Cardinality(below[x]) = Cardinality(below[y]) => x = y
  BY <1>3
<1>5. IsFiniteSet(T) /\ Cardinality(T) = m
  BY <1>1, FS_Interval
<1>6. r \in Injection(S, T)
  <2>1. r \in [S -> T]
    BY <1>2
  <2>2. IsInjective(r)
    BY <1>4 DEF IsInjective
  <2> QED  BY <2>1, <2>2 DEF Injection
<1> HIDE DEF r, T, m
<1>7. r \in Surjection(S, T)
  BY <1>5, <1>6, FS_Injection DEF m
<1>8. \A t \in T : \E x \in S : r[x] = t
  BY <1>7 DEF Surjection
<1>9. \A n \in 1..m : n - 1 \in T
  BY <1>1 DEF T
<1>10. \A n \in 1..m : \E x \in S : Cardinality(below[x]) = n - 1
  BY <1>8, <1>9 DEF r
<1> QED  BY <1>1, <1>4, <1>10 DEF m

\* A page of the index shows no place twice.
LEMMA ByPopulationFacts ==
    ASSUME NEW P, IsFiniteSet(P), P \subseteq Place
    PROVE  /\ ByPopulation(P) \in Seq(P)
           /\ IsInjective(ByPopulation(P))
<1> DEFINE below == [p \in P |-> { q \in P : Before(q, p) }]
           m == Cardinality(P)
<1>1. /\ \A p \in P : p.id \in Int /\ p.population \in Int
      /\ \A p, q \in P : p.id = q.id => p = q
  BY RankingAssumption
<1>2. below \in [P -> SUBSET P]
  OBVIOUS
<1>3. \A p \in P : p \notin below[p]
  BY <1>1 DEF Before
<1>4. ASSUME NEW p \in P, NEW q \in P, Before(p, q)
      PROVE  p \in below[q] /\ below[p] \subseteq below[q]
  <2>1. ASSUME NEW o \in P, Before(o, p) PROVE Before(o, q)
    BY <1>1, <1>4, <2>1 DEF Before
  <2> QED  BY <1>4, <2>1
<1>5. \A p, q \in P : p # q => Before(p, q) \/ Before(q, p)
  BY <1>1 DEF Before
<1>6. \A p, q \in P : p # q =>
         \/ p \in below[q] /\ below[p] \subseteq below[q]
         \/ q \in below[p] /\ below[q] \subseteq below[p]
  BY <1>4, <1>5
<1>7. \A p \in P : below[p] = { q \in P : Before(q, p) }
  OBVIOUS
<1> HIDE DEF below
<1>8. /\ m \in Nat
      /\ \A p, q \in P : Cardinality(below[p]) = Cardinality(below[q]) => p = q
      /\ \A n \in 1..m : \E p \in P : Cardinality(below[p]) = n - 1
  BY <1>2, <1>3, <1>6, EveryRank
<1> DEFINE s == ByPopulation(P)
<1>9. s = [n \in 1..m |-> CHOOSE p \in P : Cardinality({ q \in P : Before(q, p) }) = n - 1]
  BY DEF ByPopulation
<1>10. ASSUME NEW n \in 1..m
       PROVE  s[n] \in P /\ Cardinality(below[s[n]]) = n - 1
  <2>1. \E p \in P : Cardinality({ q \in P : Before(q, p) }) = n - 1
    BY <1>7, <1>8
  <2>2. s[n] = CHOOSE p \in P : Cardinality({ q \in P : Before(q, p) }) = n - 1
    BY <1>9
  <2>3. s[n] \in P /\ Cardinality({ q \in P : Before(q, s[n]) }) = n - 1
    BY <2>1, <2>2
  <2> QED  BY <1>7, <2>3
<1>11. s \in [1..m -> P]
  BY <1>9, <1>10
<1> HIDE DEF s, m
<1>12. s \in Seq(P)
  BY <1>8, <1>11
<1>13. \A i, j \in 1..m : s[i] = s[j] => i = j
  BY <1>10
<1>14. IsInjective(s)
  BY <1>11, <1>13 DEF IsInjective
<1> QED  BY <1>12, <1>14 DEF s

Kept(s, t) == { i \in DOMAIN s : s[i] \notin ToSet(t) }

\* The elements of s that are not in t are all left, once if they were once in s, and no
\* more of them are gone than t has elements.
LEMMA WithoutFacts ==
    ASSUME NEW S, NEW s \in Seq(S), NEW t \in Seq(S), IsInjective(s)
    PROVE  /\ Without(s, t) \in Seq(S)
           /\ IsInjective(Without(s, t))
           /\ ToSet(Without(s, t)) = ToSet(s) \ ToSet(t)
           /\ Len(Without(s, t)) + Len(t) >= Len(s)
<1> DEFINE K == Kept(s, t)
           m == Cardinality(K)
           below == [i \in K |-> { j \in K : j < i }]
           w == Without(s, t)
<1>1. Len(s) \in Nat /\ DOMAIN s = 1..Len(s) /\ Len(t) \in Nat /\ DOMAIN t = 1..Len(t)
  OBVIOUS
<1>2. IsFiniteSet(1..Len(s)) /\ Cardinality(1..Len(s)) = Len(s)
      /\ IsFiniteSet(1..Len(t)) /\ Cardinality(1..Len(t)) = Len(t)
  <2>1. \A n \in Nat : IsFiniteSet(1..n) /\ Cardinality(1..n) = n
    <3> TAKE n \in Nat
    <3>1. IsFiniteSet(1..n) /\ Cardinality(1..n) = IF 1 > n THEN 0 ELSE n - 1 + 1
      BY FS_Interval
    <3> QED  BY <3>1
  <2> QED  BY <1>1, <2>1
<1>3. K \subseteq 1..Len(s) /\ \A i \in K : i \in Int
  BY <1>1 DEF Kept
<1>4. IsFiniteSet(K) /\ m \in Nat
  BY <1>2, <1>3, FS_Subset, FS_CardinalityType
<1> HIDE DEF K
<1>5. /\ below \in [K -> SUBSET K]
      /\ \A x \in K : x \notin below[x]
      /\ \A x, y \in K : x # y =>
            \/ x \in below[y] /\ below[x] \subseteq below[y]
            \/ y \in below[x] /\ below[y] \subseteq below[x]
  <2>1. below \in [K -> SUBSET K]
    OBVIOUS
  <2>2. ASSUME NEW x \in K, NEW y \in K, x < y
        PROVE  x \in below[y] /\ below[x] \subseteq below[y]
    <3>1. \A z \in K : z < x => z < y
      BY <1>3, <2>2
    <3> QED  BY <2>2, <3>1
  <2>3. \A x \in K : x \notin below[x]
    BY <1>3
  <2>4. \A x, y \in K : x # y => x < y \/ y < x
    BY <1>3
  <2> QED  BY <2>1, <2>2, <2>3, <2>4
<1>6. \A i \in K : below[i] = { j \in K : j < i }
  OBVIOUS
<1> HIDE DEF below
<1>7. /\ \A x, y \in K : Cardinality(below[x]) = Cardinality(below[y]) => x = y
      /\ \A n \in 1..m : \E x \in K : Cardinality(below[x]) = n - 1
  BY <1>4, <1>5, EveryRank
<1> DEFINE at == [n \in 1..m |-> CHOOSE i \in K : Cardinality({ j \in K : j < i }) = n - 1]
<1>8. w = [n \in 1..m |-> s[at[n]]]
  BY DEF Without, K, Kept
<1>9. ASSUME NEW n \in 1..m
      PROVE  at[n] \in K /\ Cardinality(below[at[n]]) = n - 1
  <2>1. \E i \in K : Cardinality({ j \in K : j < i }) = n - 1
    BY <1>6, <1>7
  <2>2. at[n] = CHOOSE i \in K : Cardinality({ j \in K : j < i }) = n - 1
    OBVIOUS
  <2>3. at[n] \in K /\ Cardinality({ j \in K : j < at[n] }) = n - 1
    BY <2>1, <2>2
  <2> QED  BY <1>6, <2>3
<1> HIDE DEF at, w
<1>10. /\ \A i, j \in 1..m : at[i] = at[j] => i = j
  BY <1>9
<1>11. ASSUME NEW i \in K
       PROVE  \E n \in 1..m : at[n] = i
  <2>1. Cardinality(below[i]) \in 0..m - 1
    <3>1. IsFiniteSet(below[i]) /\ Cardinality(below[i]) <= m
      BY <1>4, <1>5, FS_Subset
    <3>2. Cardinality(below[i]) # m
      BY <1>4, <1>5, FS_Subset
    <3>3. Cardinality(below[i]) \in Nat
      BY <3>1, FS_CardinalityType
    <3> QED  BY <1>4, <3>1, <3>2, <3>3
  <2> DEFINE n == Cardinality(below[i]) + 1
  <2>2. n \in 1..m /\ Cardinality(below[at[n]]) = Cardinality(below[i]) /\ at[n] \in K
    BY <1>4, <1>9, <2>1
  <2> QED  BY <1>7, <2>2
<1>12. \A i \in K : i \in DOMAIN s /\ s[i] \in S /\ s[i] \notin ToSet(t)
  BY <1>1 DEF K, Kept
<1>13. w \in Seq(S) /\ Len(w) = m /\ DOMAIN w = 1..m /\ \A n \in 1..m : w[n] = s[at[n]]
  <2>1. w \in [1..m -> S]
    BY <1>8, <1>9, <1>12
  <2> QED  BY <1>4, <1>8, <2>1
<1>14. IsInjective(w)
  <2>1. \A i, j \in 1..m : w[i] = w[j] => i = j
    BY <1>9, <1>10, <1>12, <1>13 DEF IsInjective
  <2> QED  BY <1>13, <2>1 DEF IsInjective
<1>15. ToSet(w) = ToSet(s) \ ToSet(t)
  <2>1. ToSet(w) \subseteq ToSet(s) \ ToSet(t)
    BY <1>9, <1>12, <1>13 DEF ToSet
  <2>2. ASSUME NEW i \in DOMAIN s, s[i] \notin ToSet(t)
        PROVE  s[i] \in ToSet(w)
    <3>1. i \in K
      BY <2>2 DEF K, Kept
    <3>2. PICK n \in 1..m : at[n] = i
      BY <1>11, <3>1
    <3> QED  BY <1>13, <3>2 DEF ToSet
  <2>3. ToSet(s) \ ToSet(t) \subseteq ToSet(w)
    BY <2>2 DEF ToSet
  <2> QED  BY <2>1, <2>3
<1>16. m + Len(t) >= Len(s)
  <2> DEFINE D == (1..Len(s)) \ K
             f == [i \in D |-> CHOOSE j \in 1..Len(t) : t[j] = s[i]]
  <2>1. ASSUME NEW i \in D
        PROVE  f[i] \in 1..Len(t) /\ t[f[i]] = s[i]
    <3>1. \E j \in 1..Len(t) : t[j] = s[i]
      BY <1>1 DEF K, Kept, ToSet
    <3> QED  BY <3>1
  <2>2. f \in [D -> 1..Len(t)]
    BY <2>1
  <2>3. \A i, j \in D : f[i] = f[j] => i = j
    BY <1>1, <2>1 DEF IsInjective
  <2>4. f \in Injection(D, 1..Len(t))
    BY <2>2, <2>3 DEF Injection, IsInjective
  <2>5. Cardinality(D) = Len(s) - Cardinality((1..Len(s)) \cap K)
    BY <1>2, FS_Difference
  <2>6. (1..Len(s)) \cap K = K
    BY <1>3
  <2> HIDE DEF D, f
  <2>7. Cardinality(D) <= Len(t)
    BY <1>2, <2>4, FS_Injection
  <2>8. Cardinality(D) = Len(s) - m
    BY <2>5, <2>6
  <2> QED  BY <1>1, <1>4, <2>7, <2>8
<1> QED  BY <1>13, <1>14, <1>15, <1>16 DEF w

\* A sequence put into another order.
LEMMA Reordered ==
    ASSUME NEW S, NEW r \in Seq(S), IsInjective(r), NEW s \in SetToSeqs(ToSet(r))
    PROVE  s \in Seq(S) /\ Len(s) = Len(r) /\ IsInjective(s) /\ ToSet(s) = ToSet(r)
<1> DEFINE T == ToSet(r)
           D == 1..Len(r)
<1>1. Len(r) \in Nat /\ DOMAIN r = D /\ r \in [D -> T] /\ T \subseteq S
  BY DEF ToSet
<1>2. r \in Bijection(D, T)
  <2>1. \A x \in T : \E i \in D : r[i] = x
    BY <1>1 DEF ToSet
  <2> QED  BY <1>1, <2>1 DEF Bijection, Injection, Surjection
<1>3. IsFiniteSet(D) /\ Cardinality(D) = Len(r)
  BY <1>1, FS_Interval
<1> HIDE DEF T, D
<1>4. IsFiniteSet(T) /\ Cardinality(T) = Len(r)
  BY <1>2, <1>3, FS_Bijection DEF ExistsBijection
<1>5. s \in [D -> T] /\ \A i, j \in D : i # j => s[i] # s[j]
  BY <1>4 DEF SetToSeqs, T, D
<1>6. s \in Injection(D, T)
  BY <1>5 DEF Injection, IsInjective
<1>7. s \in Surjection(D, T)
  BY <1>3, <1>4, <1>6, FS_Injection
<1>8. s \in Seq(S) /\ Len(s) = Len(r) /\ DOMAIN s = D
  BY <1>1, <1>5 DEF D
<1>9. ToSet(s) = T
  BY <1>5, <1>7, <1>8 DEF Surjection, ToSet
<1> QED  BY <1>6, <1>8, <1>9 DEF Injection, T

-----------------------------------------------------------------------------
(* What a page is made of. *)

Limit == 1..50

LocalsOf(c) == ByPopulation({ p \in hits : p.country = c })

\* The n-th page of the first search, and of the second one in c.
GlobalPage(n) == ToSet(Slice(ByPopulation(hits), (n - 1) * request.limit + 1, n * request.limit))
LocalPage(c, n) == ToSet(Slice(LocalsOf(c), (n - 1) * LocalLimit + 1, n * LocalLimit))

\* The n-th page shows places of these two, and all of the second if there is room.
Composed(shown, n) ==
    \/ shown.preferred = None /\ shown.places \subseteq GlobalPage(n)
    \/ /\ shown.preferred \in Country
       /\ shown.places \subseteq GlobalPage(n) \union LocalPage(shown.preferred, n)
       /\ LocalLimit <= request.limit => LocalPage(shown.preferred, n) \subseteq shown.places

OnceEach(s) == s \in Seq(hits) /\ IsInjective(s)

PageTypes ==
    /\ stage \in {"search", "prefer", "rerank", "answer"}
    /\ request \in [limit : Limit, page : Nat \ {0}, filtered : BOOLEAN]
    /\ hits \in Matches
    /\ preferred \in Country \union {None}
    /\ OnceEach(global) /\ OnceEach(local) /\ OnceEach(results)
    /\ Len(global) <= request.limit /\ Len(results) <= request.limit
    /\ answered \in Seq([places : SUBSET hits, preferred : Country \union {None}])
    /\ Len(answered) = request.page - 1

\* The merge has dropped of the first search only what a full page has no room for.
Full ==
    /\ Len(results) >= Len(global)
    /\ ~(ToSet(global) \subseteq ToSet(results)) =>
         Len(results) = request.limit /\ preferred # None

PageStages ==
    /\ stage \in {"search", "prefer"} => preferred = None
    /\ stage = "prefer" => results = global
    /\ stage \in {"prefer", "rerank", "answer"} => Composed(Showing, request.page) /\ Full

Earlier == \A n \in DOMAIN answered : Composed(answered[n], n)

PageInv == PageTypes /\ PageStages /\ Earlier

-----------------------------------------------------------------------------

LEMMA LimitType == request.limit \in Limit => request.limit \in Nat \ {0}
  BY DEF Limit

LEMMA LocalLimitType == request.limit \in Limit => LocalLimit \in Nat \ {0}
  BY MaxOfTwo DEF LocalLimit, Limit

LEMMA SeqOfSubset ==
    ASSUME NEW T, NEW S \in SUBSET T, NEW s \in Seq(S)
    PROVE  s \in Seq(T)
  OBVIOUS

LEMMA HitsFacts ==
    ASSUME hits \in Matches, NEW c
    PROVE  /\ OnceEach(ByPopulation(hits))
           /\ OnceEach(LocalsOf(c))
           /\ \A i \in DOMAIN LocalsOf(c) : LocalsOf(c)[i].country = c
<1> DEFINE P == { p \in hits : p.country = c }
<1>1. IsFiniteSet(hits) /\ hits \subseteq Place
  BY RankingAssumption, FS_Subset
<1>2. IsFiniteSet(P) /\ P \subseteq Place /\ P \subseteq hits
  BY <1>1, FS_Subset
<1>3. ByPopulation(hits) \in Seq(hits) /\ IsInjective(ByPopulation(hits))
  BY <1>1, ByPopulationFacts
<1>4. ByPopulation(P) \in Seq(P) /\ IsInjective(ByPopulation(P))
  BY <1>2, ByPopulationFacts
<1>5. LocalsOf(c) = ByPopulation(P)
  BY DEF LocalsOf
<1>6. \A i \in DOMAIN LocalsOf(c) : LocalsOf(c)[i].country = c
  <2>1. \A i \in DOMAIN LocalsOf(c) : LocalsOf(c)[i] \in P
    BY <1>4, <1>5
  <2> QED  BY <2>1
<1> HIDE DEF P
<1>7. LocalsOf(c) \in Seq(hits)
  BY <1>2, <1>4, <1>5, SeqOfSubset
<1> QED  BY <1>3, <1>4, <1>5, <1>6, <1>7 DEF OnceEach

\* A page of a sequence that shows nothing twice.
LEMMA PageFacts ==
    ASSUME NEW s, OnceEach(s), NEW l \in Nat \ {0}, NEW n \in Nat \ {0}
    PROVE  LET t == Slice(s, (n - 1) * l + 1, n * l)
           IN  OnceEach(t) /\ Len(t) <= l
<1> DEFINE from == (n - 1) * l + 1
           to == n * l
<1>1. from \in Nat \ {0} /\ to \in Nat /\ to - from + 1 = l
  OBVIOUS
<1> HIDE DEF from, to
<1> DEFINE last == IF to <= Len(s) THEN to ELSE Len(s)
<1>2. /\ Slice(s, from, to) \in Seq(hits) /\ IsInjective(Slice(s, from, to))
      /\ Len(Slice(s, from, to)) = IF from <= last THEN last - from + 1 ELSE 0
  BY <1>1, SliceFacts, SliceInjective DEF OnceEach
<1>3. Len(s) \in Nat
  BY DEF OnceEach
<1>4. Len(Slice(s, from, to)) <= l
  BY <1>1, <1>2, <1>3
<1> QED  BY <1>2, <1>4 DEF OnceEach, from, to

\* The merge of two pages.
LEMMA MergedFacts ==
    ASSUME NEW f, OnceEach(f), NEW g, OnceEach(g), request.limit \in Limit, Len(g) <= request.limit
    PROVE  LET m == Merged(f, g)
           IN  /\ OnceEach(m) /\ Len(m) <= request.limit /\ Len(m) >= Len(g)
               /\ ToSet(m) \subseteq ToSet(f) \union ToSet(g)
               /\ Len(f) <= request.limit => ToSet(f) \subseteq ToSet(m)
               /\ ~(ToSet(g) \subseteq ToSet(m)) => Len(m) = request.limit
<1> DEFINE w == Without(g, f)
           a == f \o w
           m == Merged(f, g)
           l == request.limit
<1>1. f \in Seq(hits) /\ g \in Seq(hits) /\ IsInjective(f) /\ IsInjective(g) /\ l \in Nat \ {0}
  <2>1. f \in Seq(hits) /\ g \in Seq(hits) /\ IsInjective(f) /\ IsInjective(g)
    BY DEF OnceEach
  <2>2. l \in Nat \ {0}
    BY LimitType
  <2> QED  BY <2>1, <2>2
<1>2. /\ w \in Seq(hits) /\ IsInjective(w) /\ ToSet(w) = ToSet(g) \ ToSet(f)
      /\ Len(w) + Len(f) >= Len(g)
  BY <1>1, WithoutFacts
<1> HIDE DEF w
<1>3. /\ a \in Seq(hits) /\ Len(a) = Len(f) + Len(w)
      /\ \A i \in 1..Len(f) + Len(w) : a[i] = IF i <= Len(f) THEN f[i] ELSE w[i - Len(f)]
  BY <1>1, <1>2, ConcatProperties
<1>4. m = Slice(a, 1, l)
  BY DEF Merged, w
<1> HIDE DEF a, m
<1>5. /\ Len(f) \in Nat /\ Len(w) \in Nat /\ Len(g) \in Nat
      /\ DOMAIN a = 1..Len(f) + Len(w) /\ DOMAIN f = 1..Len(f) /\ DOMAIN w = 1..Len(w)
  BY <1>1, <1>2, <1>3
<1>6. \A i \in DOMAIN f : i \in DOMAIN a /\ a[i] = f[i]
  BY <1>3, <1>5
<1>7. \A i \in DOMAIN w : i + Len(f) \in DOMAIN a /\ a[i + Len(f)] = w[i]
  BY <1>3, <1>5
<1>8. \A i \in DOMAIN a : i \notin DOMAIN f => i - Len(f) \in DOMAIN w /\ a[i] = w[i - Len(f)]
  BY <1>3, <1>5
<1>9. \A i \in DOMAIN f, j \in DOMAIN w : f[i] # w[j]
  BY <1>2 DEF ToSet
<1>10. IsInjective(a)
  <2> SUFFICES ASSUME NEW i \in DOMAIN a, NEW j \in DOMAIN a, a[i] = a[j]
               PROVE  i = j
    BY DEF IsInjective
  <2>1. CASE i \in DOMAIN f /\ j \in DOMAIN f
    BY <1>1, <1>6, <2>1 DEF IsInjective
  <2>2. CASE i \in DOMAIN f /\ j \notin DOMAIN f
    BY <1>6, <1>8, <1>9, <2>2
  <2>3. CASE i \notin DOMAIN f /\ j \in DOMAIN f
    BY <1>6, <1>8, <1>9, <2>3
  <2>4. CASE i \notin DOMAIN f /\ j \notin DOMAIN f
    <3>1. i - Len(f) = j - Len(f)
      BY <1>2, <1>8, <2>4 DEF IsInjective
    <3> QED  BY <1>5, <3>1
  <2> QED  BY <2>1, <2>2, <2>3, <2>4
<1>11. /\ m \in Seq(hits) /\ IsInjective(m)
       /\ Len(m) = IF l <= Len(a) THEN l ELSE Len(a)
  <2> DEFINE last == IF l <= Len(a) THEN l ELSE Len(a)
  <2>1. 1 \in Nat \ {0} /\ l \in Nat
    BY <1>1
  <2>2. Slice(a, 1, l) \in Seq(hits) /\ Len(Slice(a, 1, l)) = IF 1 <= last THEN last - 1 + 1 ELSE 0
    BY <1>3, <2>1, SliceFacts
  <2>3. IsInjective(Slice(a, 1, l))
    BY <1>3, <1>10, <2>1, SliceInjective
  <2>4. last \in Nat
    BY <1>1, <1>3
  <2> QED  BY <1>4, <2>2, <2>3, <2>4
<1>12. ToSet(m) = { a[i] : i \in DOMAIN a \cap (1..l) }
  <2>1. 1 \in Nat \ {0} /\ l \in Nat
    BY <1>1
  <2> QED  BY <1>3, <1>4, <2>1, SliceElements
<1>13. Len(m) <= l /\ Len(m) >= Len(g)
  BY <1>1, <1>2, <1>3, <1>5, <1>11
<1>14. ToSet(m) \subseteq ToSet(f) \union ToSet(g)
  <2>1. \A i \in DOMAIN a : a[i] \in ToSet(f) \union ToSet(w)
    BY <1>6, <1>8 DEF ToSet
  <2> QED  BY <1>2, <1>12, <2>1
<1>15. ASSUME Len(f) <= l PROVE ToSet(f) \subseteq ToSet(m)
  <2>1. \A i \in DOMAIN f : i \in 1..l
    BY <1>1, <1>5, <1>15
  <2> QED  BY <1>6, <1>12, <2>1 DEF ToSet
<1>16. ASSUME Len(m) # l PROVE ToSet(g) \subseteq ToSet(m)
  <2>1. Len(a) < l
    BY <1>1, <1>3, <1>5, <1>11, <1>16
  <2>2. \A i \in DOMAIN a : i \in 1..l
    BY <1>1, <1>3, <1>5, <2>1
  <2>3. \A i \in DOMAIN a : a[i] \in ToSet(m)
    BY <1>12, <2>2
  <2>4. ToSet(f) \subseteq ToSet(m) /\ ToSet(w) \subseteq ToSet(m)
    BY <1>6, <1>7, <2>3 DEF ToSet
  <2> QED  BY <1>2, <2>4
<1> QED  BY <1>11, <1>13, <1>14, <1>15, <1>16 DEF OnceEach, m

-----------------------------------------------------------------------------
(* The steps. *)

\* What a page is made of depends on the request's limit and the hits alone.
LEMMA SameLimit ==
    ASSUME UNCHANGED hits, request'.limit = request.limit
    PROVE  /\ LocalLimit' = LocalLimit
           /\ \A n : GlobalPage(n)' = GlobalPage(n)
           /\ \A c : LocalsOf(c)' = LocalsOf(c)
           /\ \A c, n : LocalPage(c, n)' = LocalPage(c, n)
           /\ \A s, n : Composed(s, n)' <=> Composed(s, n)
  BY DEF LocalLimit, GlobalPage, LocalPage, LocalsOf, Composed

LEMMA PageInit == Init => PageInv
<1> SUFFICES ASSUME Init PROVE PageInv
  OBVIOUS
<1>1. \A n \in Int : Limited(n) \in Limit
  BY MinOfTwo DEF Limited, Limit
<1>2. request \in [limit : Limit, page : Nat \ {0}, filtered : BOOLEAN] /\ request.page = 1
  <2>1. { Limited(n) : n \in Limits } \subseteq Limit
    BY <1>1, RankingAssumption
  <2>2. request \in [limit : { Limited(n) : n \in Limits }, page : {1}, filtered : BOOLEAN]
    BY DEF Init
  <2> QED  BY <2>1, <2>2
<1>3. \A S : <<>> \in Seq(S) /\ DOMAIN <<>> = {} /\ Len(<<>>) = 0
  OBVIOUS
<1>4. OnceEach(<<>>)
  BY <1>3 DEF OnceEach, IsInjective
<1>5. 0 <= request.limit /\ 0 = request.page - 1
  BY <1>2 DEF Limit
<1>6. PageTypes
  BY <1>2, <1>3, <1>4, <1>5 DEF Init, PageTypes
<1>7. PageStages /\ Earlier
  BY <1>3 DEF Init, PageStages, Earlier
<1> QED  BY <1>6, <1>7 DEF PageInv

LEMMA SearchStep == PageInv /\ Search => PageInv'
<1> SUFFICES ASSUME PageInv, Search PROVE PageInv'
  OBVIOUS
<1>1. /\ stage' = "prefer" /\ results' = global'
      /\ global' = Slice(ByPopulation(hits), (request.page - 1) * request.limit + 1,
                         request.page * request.limit)
      /\ UNCHANGED <<profile, request, hits, preferred, local, answered>>
  BY DEF Search, Page
<1>2. /\ request.limit \in Nat \ {0} /\ request.page \in Nat \ {0} /\ hits \in Matches
      /\ preferred = None
  BY LimitType DEF PageInv, PageTypes, Search, PageStages
<1>3. OnceEach(global') /\ Len(global') <= request.limit
  BY <1>1, <1>2, HitsFacts, PageFacts
<1>4. PageTypes'
  BY <1>1, <1>3 DEF PageInv, PageTypes, OnceEach
<1>5. GlobalPage(request.page)' = ToSet(global')
  BY <1>1 DEF GlobalPage
<1>6. Composed(Showing, request.page)'
  BY <1>1, <1>2, <1>5 DEF Composed, Showing
<1>7. Full'
  <2>1. Len(results') \in Nat
    BY <1>1, <1>3 DEF OnceEach
  <2> QED  BY <1>1, <2>1 DEF Full
<1>8. PageStages'
  BY <1>1, <1>2, <1>6, <1>7 DEF PageStages
<1>9. Earlier'
  BY <1>1, SameLimit DEF PageInv, Earlier
<1> QED  BY <1>4, <1>8, <1>9 DEF PageInv

LEMMA KeepGlobalStep == PageInv /\ KeepGlobal => PageInv'
<1> SUFFICES ASSUME PageInv, KeepGlobal PROVE PageInv'
  OBVIOUS
<1>1. /\ stage = "prefer" /\ stage' = "rerank"
      /\ UNCHANGED <<profile, request, hits, preferred, global, local, results, answered>>
  BY DEF KeepGlobal
<1>2. PageTypes'
  BY <1>1 DEF PageInv, PageTypes, OnceEach
<1>3. Composed(Showing, request.page)'
  BY <1>1 DEF PageInv, PageStages, Composed, Showing, GlobalPage, LocalPage, LocalsOf, LocalLimit
<1>4. PageStages'
  BY <1>1, <1>3 DEF PageInv, PageStages, Full
<1>5. Earlier'
  BY <1>1, SameLimit DEF PageInv, Earlier
<1> QED  BY <1>2, <1>4, <1>5 DEF PageInv

LEMMA PreferStep == ASSUME PageInv, NEW c \in Country, Prefer(c) PROVE PageInv'
<1> DEFINE P == { p \in hits : p.country = c }
           n == request.page
<1>1. /\ stage = "prefer" /\ stage' = "rerank" /\ preferred' = c
      /\ local' = Page(P, LocalLimit) /\ results' = Merged(local', global)
      /\ UNCHANGED <<profile, request, hits, global, answered>>
  BY DEF Prefer
<1>2. local' = Slice(LocalsOf(c), (n - 1) * LocalLimit + 1, n * LocalLimit)
  BY <1>1 DEF Page, LocalsOf
<1> HIDE DEF P
<1>3. /\ request.limit \in Limit /\ n \in Nat \ {0} /\ hits \in Matches
      /\ OnceEach(global) /\ Len(global) <= request.limit
      /\ LocalLimit \in Nat \ {0} /\ c # None /\ request.limit \in Nat
  BY LimitType, LocalLimitType, RankingAssumption DEF PageInv, PageTypes
<1>4. OnceEach(local') /\ Len(local') <= LocalLimit
  BY <1>2, <1>3, HitsFacts, PageFacts
<1>5. /\ OnceEach(results') /\ Len(results') <= request.limit /\ Len(results') >= Len(global)
      /\ ToSet(results') \subseteq ToSet(local') \union ToSet(global)
      /\ Len(local') <= request.limit => ToSet(local') \subseteq ToSet(results')
      /\ ~(ToSet(global) \subseteq ToSet(results')) => Len(results') = request.limit
  BY <1>1, <1>3, <1>4, MergedFacts
<1>6. PageTypes'
  BY <1>1, <1>4, <1>5 DEF PageInv, PageTypes, OnceEach
<1>7. ToSet(global) \subseteq GlobalPage(n)
  BY <1>1, RankingAssumption DEF PageInv, PageStages, Composed, Showing
<1>8. ToSet(local') = LocalPage(c, n)
  BY <1>2 DEF LocalPage
<1>9. Composed([places |-> ToSet(results'), preferred |-> c], n)
  <2>1. LocalLimit <= request.limit => Len(local') <= request.limit
    <3>1. Len(local') \in Nat
      BY <1>4 DEF OnceEach
    <3> QED  BY <1>3, <1>4, <3>1
  <2> QED  BY <1>5, <1>7, <1>8, <2>1 DEF Composed
<1>10. Composed(Showing, request.page)'
  <2>1. Showing' = [places |-> ToSet(results'), preferred |-> c]
    BY <1>1 DEF Showing, ToSet
  <2>2. Composed(Showing', n)
    BY <1>9, <2>1
  <2> QED  BY <1>1, <2>2 DEF Composed, GlobalPage, LocalPage, LocalsOf, LocalLimit
<1>11. Full'
  BY <1>1, <1>3, <1>5 DEF Full, ToSet
<1>12. PageStages'
  BY <1>1, <1>10, <1>11 DEF PageStages
<1>13. Earlier'
  BY <1>1, SameLimit DEF PageInv, Earlier
<1> QED  BY <1>6, <1>12, <1>13 DEF PageInv

LEMMA RerankStep == PageInv /\ Rerank => PageInv'
<1> SUFFICES ASSUME PageInv, Rerank PROVE PageInv'
  OBVIOUS
<1>1. /\ stage = "rerank" /\ stage' = "answer" /\ results' \in SetToSeqs(ToSet(results))
      /\ UNCHANGED <<profile, request, hits, preferred, global, local, answered>>
  BY DEF Rerank
<1>2. /\ OnceEach(results') /\ Len(results') = Len(results)
      /\ ToSet(results') = ToSet(results)
  BY <1>1, Reordered DEF PageInv, PageTypes, OnceEach
<1>3. PageTypes'
  BY <1>1, <1>2 DEF PageInv, PageTypes, OnceEach
<1>4. Showing' = Showing
  BY <1>1, <1>2 DEF Showing, ToSet
<1>5. Composed(Showing, request.page)'
  BY <1>1, <1>4 DEF PageInv, PageStages, Composed, GlobalPage, LocalPage, LocalsOf, LocalLimit
<1>6. Full'
  BY <1>1, <1>2 DEF PageInv, PageStages, Full, ToSet
<1>7. PageStages'
  BY <1>1, <1>5, <1>6 DEF PageStages
<1>8. Earlier'
  BY <1>1, SameLimit DEF PageInv, Earlier
<1> QED  BY <1>3, <1>7, <1>8 DEF PageInv

LEMMA NextPageStep == PageInv /\ NextPage => PageInv'
<1> SUFFICES ASSUME PageInv, NextPage PROVE PageInv'
  OBVIOUS
<1>1. /\ stage = "answer" /\ stage' = "search"
      /\ request' = [request EXCEPT !.page = @ + 1]
      /\ answered' = Append(answered, Showing)
      /\ preferred' = None /\ global' = <<>> /\ local' = <<>> /\ results' = <<>>
      /\ UNCHANGED <<profile, hits>>
  BY DEF NextPage
<1>2. /\ request \in [limit : Limit, page : Nat \ {0}, filtered : BOOLEAN]
      /\ answered \in Seq([places : SUBSET hits, preferred : Country \union {None}])
      /\ Len(answered) = request.page - 1
  BY DEF PageInv, PageTypes
<1>3. /\ request' \in [limit : Limit, page : Nat \ {0}, filtered : BOOLEAN]
      /\ request'.limit = request.limit /\ request'.page = request.page + 1
  BY <1>1, <1>2
<1>4. Showing \in [places : SUBSET hits, preferred : Country \union {None}]
  BY DEF Showing, PageInv, PageTypes, OnceEach, ToSet
<1>5. /\ answered' \in Seq([places : SUBSET hits, preferred : Country \union {None}])
      /\ Len(answered') = request.page /\ DOMAIN answered' = 1..request.page
      /\ DOMAIN answered = 1..request.page - 1
      /\ \A n \in DOMAIN answered : answered'[n] = answered[n]
      /\ answered'[request.page] = Showing
  <2>1. request.page \in Nat \ {0} /\ Len(answered) + 1 = request.page
    BY <1>2
  <2> HIDE DEF Showing
  <2> QED  BY <1>1, <1>2, <1>4, <2>1, AppendProperties
<1>6. OnceEach(<<>>)' /\ Len(<<>>) = 0
  BY DEF OnceEach, IsInjective
<1>7. PageTypes'
  <2>1. 0 <= request'.limit
    BY <1>3 DEF Limit
  <2> QED  BY <1>1, <1>2, <1>3, <1>5, <1>6, <2>1 DEF PageInv, PageTypes, OnceEach
<1>8. PageStages'
  BY <1>1 DEF PageStages
<1>9. \A n \in DOMAIN answered' : Composed(answered'[n], n)
  <2>1. Composed(Showing, request.page) /\ Earlier
    BY <1>1 DEF PageInv, PageStages
  <2>2. \A n \in DOMAIN answered' : n \in DOMAIN answered \/ n = request.page
    BY <1>2, <1>5
  <2> QED  BY <1>5, <2>1, <2>2 DEF Earlier
<1>10. Earlier'
  <2>1. \A s, n : Composed(s, n)' <=> Composed(s, n)
    BY <1>1, <1>3, SameLimit
  <2> HIDE DEF Composed
  <2> QED  BY <1>9, <2>1 DEF Earlier
<1> QED  BY <1>7, <1>8, <1>10 DEF PageInv

LEMMA PageStep == PageInv /\ [Next]_vars => PageInv'
<1> SUFFICES ASSUME PageInv, [Next]_vars PROVE PageInv'
  OBVIOUS
<1>1. CASE UNCHANGED vars
  <2>1. UNCHANGED <<stage, profile, request, hits, preferred, global, local, results, answered>>
    BY <1>1 DEF vars
  <2>2. PageTypes'
    BY <2>1 DEF PageInv, PageTypes, OnceEach
  <2>3. Composed(Showing, request.page)' <=> Composed(Showing, request.page)
    BY <2>1 DEF Composed, Showing, GlobalPage, LocalPage, LocalsOf, LocalLimit
  <2>4. PageStages'
    BY <2>1, <2>3 DEF PageInv, PageStages, Full
  <2>5. Earlier'
    BY <2>1, SameLimit DEF PageInv, Earlier
  <2> QED  BY <2>2, <2>4, <2>5 DEF PageInv
<1>2. CASE Next
  BY <1>2, SearchStep, KeepGlobalStep, PreferStep, RerankStep, NextPageStep DEF Next
<1> QED  BY <1>1, <1>2

LEMMA PageInvariant == Spec => []PageInv
  BY PageInit, PageStep, PTL DEF Spec

-----------------------------------------------------------------------------
(* What follows. *)

\* The variables keep their types: the sequences of a search (search.go:36-180) hold places
\* that were found, each once, and none is longer than the limit allows.
THEOREM PagesTypeCorrect == Spec => []TypeOK
<1>1. PageInv => TypeOK
  BY DEF PageInv, PageTypes, OnceEach, TypeOK, ToSet
<1> QED  BY <1>1, PageInvariant, PTL

\* Whatever the profile weighs and the second search finds, merging, reranking and cutting
\* (search.go:118-160, reranker.go) leave a page as long as the plain answer would be, with
\* no place twice, and a place is lost only to a preferred one on a full page.
THEOREM PagesAreFull == Spec => []PageStaysFull
<1>1. PageInv => PageStaysFull
  BY DEF PageInv, PageTypes, OnceEach, PageStages, Full, PageStaysFull, Done
<1> QED  BY <1>1, PageInvariant, PTL

\* The n-th page of l elements.
LEMMA PageElements ==
    ASSUME NEW s, OnceEach(s), NEW l \in Nat \ {0}, NEW n \in Nat \ {0}
    PROVE  ToSet(Slice(s, (n - 1) * l + 1, n * l)) = { s[i] : i \in DOMAIN s \cap ((n - 1) * l + 1..n * l) }
<1> DEFINE from == (n - 1) * l + 1
           to == n * l
<1>1. from \in Nat \ {0} /\ to \in Nat
  OBVIOUS
<1>2. s \in Seq(hits)
  BY DEF OnceEach
<1> HIDE DEF from, to
<1>3. ToSet(Slice(s, from, to)) = { s[i] : i \in DOMAIN s \cap (from..to) }
  <2>1. \A f \in Nat \ {0}, t \in Nat :
          ToSet(Slice(s, f, t)) = { s[i] : i \in DOMAIN s \cap (f..t) }
    BY <1>2, SliceElements
  <2> QED  BY <1>1, <2>1
<1> QED  BY <1>3 DEF from, to

\* Two pages of a sequence that shows nothing twice have nothing in common.
LEMMA PagesApart ==
    ASSUME NEW s, OnceEach(s), NEW l \in Nat \ {0}, NEW m \in Nat \ {0}, NEW n \in Nat \ {0}, m < n
    PROVE  ToSet(Slice(s, (m - 1) * l + 1, m * l)) \cap ToSet(Slice(s, (n - 1) * l + 1, n * l)) = {}
<1>1. m * l <= (n - 1) * l
  <2>1. PICK d \in Nat : n - 1 = m + d
    <3>1. n - 1 - m \in Nat /\ n - 1 = m + (n - 1 - m)
      OBVIOUS
    <3> QED  BY <3>1
  <2>2. (m + d) * l = m * l + d * l /\ d * l \in Nat /\ m * l \in Nat
    OBVIOUS
  <2> QED  BY <2>1, <2>2
<1>2. \A k \in Nat \ {0} : (k - 1) * l + 1 \in Nat \ {0} /\ k * l \in Nat
  OBVIOUS
<1>3. /\ ToSet(Slice(s, (m - 1) * l + 1, m * l)) = { s[i] : i \in DOMAIN s \cap ((m - 1) * l + 1..m * l) }
      /\ ToSet(Slice(s, (n - 1) * l + 1, n * l)) = { s[i] : i \in DOMAIN s \cap ((n - 1) * l + 1..n * l) }
  BY PageElements
<1>4. ASSUME NEW i \in DOMAIN s \cap ((m - 1) * l + 1..m * l),
             NEW j \in DOMAIN s \cap ((n - 1) * l + 1..n * l)
      PROVE  s[i] # s[j]
  <2>1. i < j
    BY <1>1, <1>2
  <2> QED  BY <2>1 DEF OnceEach, IsInjective
<1> DEFINE M == DOMAIN s \cap ((m - 1) * l + 1..m * l)
           N == DOMAIN s \cap ((n - 1) * l + 1..n * l)
<1> HIDE DEF M, N
<1>5. { s[i] : i \in M } \cap { s[j] : j \in N } = {}
  BY <1>4 DEF M, N
<1> QED  BY <1>3, <1>5 DEF M, N

\* The first n pages are all there is up to there.
LEMMA PagesTogether ==
    ASSUME NEW s, OnceEach(s), NEW l \in Nat \ {0}, NEW n \in Nat \ {0},
           NEW x \in ToSet(Slice(s, 1, n * l))
    PROVE  \E k \in 1..n : /\ x \in ToSet(Slice(s, (k - 1) * l + 1, k * l))
                           /\ Len(s) > (k - 1) * l
<1>1. s \in Seq(hits) /\ Len(s) \in Nat /\ DOMAIN s = 1..Len(s)
  BY DEF OnceEach
<1>2. 1 \in Nat \ {0} /\ n * l \in Nat
  OBVIOUS
<1>3. PICK i \in DOMAIN s \cap (1..n * l) : x = s[i]
  BY <1>1, <1>2, SliceElements
<1> DEFINE q == (i - 1) \div l
<1>4. q \in Nat /\ q * l <= i - 1 /\ i - 1 < q * l + l
  BY <1>2, <1>3
<1> HIDE DEF q
<1>5. q + 1 \in 1..n
  <2>1. q * l < n * l
    BY <1>2, <1>3, <1>4
  <2>2. q < n
    <3>1. CASE q >= n
      <4>1. PICK d \in Nat : q = n + d
        <5>1. q - n \in Nat /\ q = n + (q - n)
          BY <1>4, <3>1
        <5> QED  BY <5>1
      <4>2. (n + d) * l = n * l + d * l /\ d * l \in Nat
        OBVIOUS
      <4> QED  BY <2>1, <4>1, <4>2
    <3> QED  BY <1>4, <3>1
  <2> QED  BY <1>4, <2>2
<1> DEFINE k == q + 1
<1>6. k \in Nat \ {0} /\ (k - 1) * l = q * l /\ k * l = q * l + l
  BY <1>4
<1>7. i \in (k - 1) * l + 1..k * l /\ Len(s) > (k - 1) * l
  BY <1>1, <1>3, <1>4, <1>6
<1>8. ToSet(Slice(s, (k - 1) * l + 1, k * l)) = { s[j] : j \in DOMAIN s \cap ((k - 1) * l + 1..k * l) }
  <2> HIDE DEF k
  <2> QED  BY <1>6, PageElements
<1> QED  BY <1>3, <1>5, <1>7, <1>8

\* Whatever the limit, whose half or three the second search counts its pages by, and
\* however the preferred country changes between two requests, only places of a preferred
\* country come twice, and none is passed over while its country stays preferred and a page
\* has room for the second search (search.go:97-160).
THEOREM LocalsAreSpared == Spec => []PagesSpareTheLocals
<1>1. ASSUME PageInv, Done PROVE PagesSpareTheLocals
  <2> DEFINE pages == Append(answered, Showing)
             N == request.page
  <2>1. /\ N \in Nat \ {0} /\ request.limit \in Nat \ {0} /\ LocalLimit \in Nat \ {0}
        /\ hits \in Matches
    BY <1>1, LimitType, LocalLimitType DEF PageInv, PageTypes
  <2>2. DOMAIN pages = 1..N /\ Len(pages) = N
    BY <1>1, <2>1 DEF PageInv, PageTypes
  <2>3. \A n \in DOMAIN pages : Composed(pages[n], n)
    <3>1. /\ answered \in Seq([places : SUBSET hits, preferred : Country \union {None}])
          /\ Len(answered) = N - 1 /\ Earlier /\ Composed(Showing, N)
      BY <1>1 DEF PageInv, PageTypes, PageStages, Done
    <3>2. \A n \in 1..N : pages[n] = IF n = N THEN Showing ELSE answered[n]
      BY <2>1, <3>1
    <3>3. \A n \in 1..N : n # N => n \in DOMAIN answered
      BY <2>1, <3>1
    <3> QED  BY <2>2, <3>1, <3>2, <3>3 DEF Earlier
  <2> HIDE DEF pages, N
  <2>4. ASSUME NEW m \in DOMAIN pages, NEW n \in DOMAIN pages, m < n,
               NEW p \in pages[m].places, p \in pages[n].places
        PROVE  p.country \in {pages[m].preferred, pages[n].preferred}
    <3>1. m \in Nat \ {0} /\ n \in Nat \ {0}
      BY <2>1, <2>2
    <3>2. GlobalPage(m) \cap GlobalPage(n) = {}
      BY <2>1, <2>4, <3>1, HitsFacts, PagesApart DEF GlobalPage
    <3>3. ASSUME NEW k \in DOMAIN pages, p \in pages[k].places, p \notin GlobalPage(k)
          PROVE  p.country = pages[k].preferred
      <4> DEFINE c == pages[k].preferred
      <4>1. p \in LocalPage(c, k)
        BY <2>3, <3>3 DEF Composed
      <4>2. k \in Nat \ {0} /\ (k - 1) * LocalLimit + 1 \in Nat \ {0} /\ k * LocalLimit \in Nat
        BY <2>1, <2>2
      <4>3. LocalsOf(c) \in Seq(hits)
        BY <2>1, HitsFacts DEF OnceEach
      <4>4. \E i \in DOMAIN LocalsOf(c) : p = LocalsOf(c)[i]
        BY <4>1, <4>2, <4>3, SliceElements DEF LocalPage
      <4> QED  BY <2>1, <4>4, HitsFacts
    <3> QED  BY <2>4, <3>2, <3>3
  <2>5. \A m, n \in DOMAIN pages : m # n =>
           \A p \in pages[m].places \cap pages[n].places :
              p.country \in {pages[m].preferred, pages[n].preferred}
    BY <2>1, <2>2, <2>4
  <2>6. ASSUME NEW c \in Country, LocalLimit <= request.limit,
               \A n \in DOMAIN pages :
                  pages[n].preferred = c \/ Len(LocalsOf(c)) <= (n - 1) * LocalLimit,
               NEW x \in ToSet(Slice(LocalsOf(c), 1, N * LocalLimit))
        PROVE  \E n \in DOMAIN pages : x \in pages[n].places
    <3>1. OnceEach(LocalsOf(c))
      BY <2>1, HitsFacts
    <3>2. PICK n \in 1..N : /\ x \in LocalPage(c, n)
                            /\ Len(LocalsOf(c)) > (n - 1) * LocalLimit
      BY <2>1, <3>1, PagesTogether DEF LocalPage
    <3>3. Len(LocalsOf(c)) \in Nat /\ (n - 1) * LocalLimit \in Int
      BY <2>1, <3>1 DEF OnceEach
    <3>4. pages[n].preferred = c
      BY <2>2, <2>6, <3>2, <3>3
    <3>5. LocalPage(c, n) \subseteq pages[n].places
      BY <2>2, <2>3, <2>6, <3>4, RankingAssumption DEF Composed
    <3> QED  BY <2>2, <3>2, <3>5
  <2>7. \A c \in Country :
           LocalLimit <= request.limit
           /\ (\A n \in DOMAIN pages :
                 pages[n].preferred = c \/ Len(LocalsOf(c)) <= (n - 1) * LocalLimit) =>
              ToSet(Slice(LocalsOf(c), 1, Len(pages) * LocalLimit))
                 \subseteq UNION { pages[n].places : n \in DOMAIN pages }
    BY <2>2, <2>6
  <2> QED  BY <2>5, <2>7 DEF PagesSpareTheLocals, pages, LocalsOf
<1>2. PageInv => PagesSpareTheLocals
  BY <1>1 DEF PagesSpareTheLocals
<1> QED  BY <1>2, PageInvariant, PTL

-----------------------------------------------------------------------------
(* The order of the scores. *)

LEMMA FiniteMaximum ==
    ASSUME NEW S \in SUBSET Int, IsFiniteSet(S), S # {}
    PROVE  Max(S) \in S /\ \A x \in S : x <= Max(S)
<1> DEFINE n == Cardinality(S)
<1>1. PICK below \in [S -> SUBSET S] : \A x \in S : below[x] = { y \in S : y < x }
  <2>1. [x \in S |-> { y \in S : y < x }] \in [S -> SUBSET S]
    OBVIOUS
  <2> QED  BY <2>1
<1>2. \A x \in S : x \notin below[x]
  BY <1>1
<1>3. ASSUME NEW x \in S, NEW y \in S, x < y
      PROVE  x \in below[y] /\ below[x] \subseteq below[y]
  <2>1. \A z \in S : z < x => z < y
    BY <1>3
  <2> QED  BY <1>1, <1>3, <2>1
<1>4. \A x, y \in S : x # y =>
         \/ x \in below[y] /\ below[x] \subseteq below[y]
         \/ y \in below[x] /\ below[y] \subseteq below[x]
  <2>1. \A x, y \in S : x # y => x < y \/ y < x
    OBVIOUS
  <2> QED  BY <1>3, <2>1
<1>5. n \in Nat \ {0}
  BY FS_CardinalityType, FS_EmptySet
<1>6. PICK x \in S : Cardinality(below[x]) = n - 1
  <2>1. \A i \in 1..Cardinality(S) : \E x \in S : Cardinality(below[x]) = i - 1
    <3> HIDE DEF n
    <3> QED  BY <1>2, <1>4, EveryRank
  <2> QED  BY <1>5, <2>1
<1>7. below[x] = S \ {x}
  <2>1. IsFiniteSet(S \ {x}) /\ Cardinality(S \ {x}) = n - 1
    BY FS_RemoveElement
  <2>2. below[x] \in SUBSET (S \ {x})
    BY <1>1, <1>2
  <2> QED  BY <1>6, <2>1, <2>2, FS_Subset
<1>8. \A y \in S : x >= y
  BY <1>1, <1>7
<1>9. Max(S) \in S /\ \A y \in S : Max(S) >= y
  BY <1>8 DEF Max
<1> QED  BY <1>9

LEMMA FiniteValues ==
    ASSUME NEW D, IsFiniteSet(D), NEW f, NEW S, \A y \in S : \E x \in D : y = f[x]
    PROVE  IsFiniteSet(S)
<1> DEFINE T == { f[x] : x \in D }
           g == [x \in D |-> f[x]]
<1>1. g \in Surjection(D, T)
  BY DEF Surjection
<1>2. IsFiniteSet(T)
  <2> HIDE DEF g, T
  <2> QED  BY <1>1, FS_Surjection
<1>3. S \in SUBSET T
  OBVIOUS
<1> QED  BY <1>2, <1>3, FS_Subset

LEMMA DivisorType ==
    ASSUME NEW D, IsFiniteSet(D), NEW f \in [D -> Nat]
    PROVE  Divisor(f) \in Nat \ {0}
<1> DEFINE V == { f[x] : x \in DOMAIN f }
           S == V \union {0}
<1>1. V \in SUBSET Nat /\ \A y \in V : \E x \in D : y = f[x]
  OBVIOUS
<1> HIDE DEF V
<1>2. IsFiniteSet(V)
  BY <1>1, FiniteValues
<1>3. IsFiniteSet(S)
  BY <1>2, FS_AddElement
<1>4. S \in SUBSET Int /\ S \in SUBSET Nat /\ S # {}
  BY <1>1
<1> HIDE DEF S
<1>5. Max(S) \in Nat
  BY <1>3, <1>4, FiniteMaximum
<1>6. Divisor(f) = IF Max(S) = 0 THEN 1 ELSE Max(S)
  BY DEF Divisor, MaxVal, S, V
<1> QED  BY <1>5, <1>6

LEMMA SearchesFinite ==
    ASSUME NEW D, IsFiniteSet(D), NEW f \in [D -> Nat]
    PROVE  IsFiniteSet(Searches(f)) /\ Total(f) \in Nat
<1> DEFINE g == [x \in D |-> {x} \X (1..f[x])]
           S == { g[x] : x \in D }
<1>1. IsFiniteSet(S)
  <2>1. \A y \in S : \E x \in D : y = g[x]
    OBVIOUS
  <2> HIDE DEF S, g
  <2> QED  BY <2>1, FiniteValues
<1>2. \A x \in D : IsFiniteSet(g[x])
  <2> TAKE x \in D
  <2>1. IsFiniteSet({x}) /\ IsFiniteSet(1..f[x])
    <3>1. 1 \in Int /\ f[x] \in Int
      OBVIOUS
    <3>2. IsFiniteSet(1..f[x])
      BY <3>1, FS_Interval
    <3>3. IsFiniteSet({x})
      BY FS_Singleton
    <3> QED  BY <3>2, <3>3
  <2>2. IsFiniteSet({x} \X (1..f[x]))
    BY <2>1, FS_Product
  <2> QED  BY <2>2
<1>3. IsFiniteSet(UNION S)
  <2>1. \A y \in S : IsFiniteSet(y)
    BY <1>2
  <2> HIDE DEF S
  <2> QED  BY <1>1, <2>1, FS_UNION
<1>4. Searches(f) = UNION S
  BY DEF Searches
<1> QED  BY <1>3, <1>4, FS_CardinalityType DEF Total

LEMMA FeaturesFinite == IsFiniteSet(Features)
<1> DEFINE g == [p \in Place |-> p.feature]
<1>1. \A y \in Features : \E p \in Place : y = g[p]
  BY DEF Features
<1> HIDE DEF g
<1> QED  BY <1>1, RankingAssumption, FiniteValues

\* The profile's counters; what has been sorted is in the order of the scores.
ScoreInv ==
    /\ profile.countries \in [Country -> Nat]
    /\ profile.features \in [Features -> Nat]
    /\ stage = "answer" => BestFirst(results)

LEMMA ContinentsFacts ==
    ASSUME ScoreInv
    PROVE  /\ \A c \in Country : continents[GetContinent(c)] \in Nat
           /\ Divisor(continents) \in Nat \ {0}
<1> DEFINE D == { GetContinent(c) : c \in Country }
           On(k) == { s \in Searches(profile.countries) : GetContinent(s[1]) = k }
           g == [c \in Country |-> GetContinent(c)]
<1>1. IsFiniteSet(D)
  <2>1. \A y \in D : \E c \in Country : y = g[c]
    OBVIOUS
  <2> HIDE DEF D, g
  <2> QED  BY <2>1, RankingAssumption, FiniteValues
<1>2. IsFiniteSet(Searches(profile.countries))
  BY RankingAssumption, SearchesFinite DEF ScoreInv
<1>3. \A k : Cardinality(On(k)) \in Nat
  BY <1>2, FS_Subset, FS_CardinalityType
<1>4. continents = [k \in D |-> Cardinality(On(k))]
  BY DEF continents
<1> HIDE DEF On
<1>5. continents \in [D -> Nat]
  BY <1>3, <1>4
<1>6. Divisor(continents) \in Nat \ {0}
  BY <1>1, <1>5, DivisorType
<1> QED  BY <1>5, <1>6

\* A signal is a multiple of 500: of 0.05, in 1/10000.
LEMMA SignalFacts ==
    ASSUME ScoreInv
    PROVE  /\ Unit \in Nat \ {0}
           /\ \A p \in Place : \E n \in Int : Signal(p) = 500 * n
<1> DEFINE C == Divisor(profile.countries)
           K == Divisor(continents)
           F == Divisor(profile.features)
<1>1. C \in Nat \ {0} /\ K \in Nat \ {0} /\ F \in Nat \ {0}
  BY RankingAssumption, FeaturesFinite, DivisorType, ContinentsFacts DEF ScoreInv
<1>2. Unit = C * K * F
  BY DEF Unit
<1> HIDE DEF C, K, F
<1>3. \A a, b \in Nat \ {0} : a * b \in Nat \ {0}
  OBVIOUS
<1>4. C * K \in Nat \ {0}
  BY <1>1, <1>3
<1>5. Unit \in Nat \ {0}
  BY <1>1, <1>2, <1>3, <1>4
<1>6. ASSUME NEW p \in Place
      PROVE  \E n \in Int : Signal(p) = 500 * n
  <2> DEFINE a == CountryWeight(p)
             b == ContinentWeight(p)
             c == FeatureWeight(p)
             d == RecentMatch(p)
  <2>1. /\ profile.countries[p.country] \in Nat /\ continents[GetContinent(p.country)] \in Nat
        /\ profile.features[p.feature] \in Nat
    BY RankingAssumption, ContinentsFacts DEF ScoreInv, Features
  <2>2. \A x, y, z \in Nat : x * y * z \in Int
    <3>1. \A x, y \in Nat : x * y \in Nat
      OBVIOUS
    <3>2. \A x, y, z \in Nat : (x * y) * z \in Nat
      BY <3>1
    <3> QED  BY <3>2
  <2>3. a \in Int /\ b \in Int /\ c \in Int
    BY <1>1, <2>1, <2>2 DEF CountryWeight, ContinentWeight, FeatureWeight, C, K, F
  <2>4. d \in Int
    BY <1>5 DEF RecentMatch
  <2>5. Signal(p) = 4000 * a + 2000 * b + 1500 * c + 2500 * d
    BY DEF Signal
  <2> HIDE DEF a, b, c, d
  <2>6. 8 * a + 4 * b + 3 * c + 5 * d \in Int
    BY <2>3, <2>4
  <2>7. Signal(p) = 500 * (8 * a + 4 * b + 3 * c + 5 * d)
    BY <2>3, <2>4, <2>5
  <2> QED  BY <2>6, <2>7
<1> QED  BY <1>5, <1>6

LEMMA PopulationFacts ==
    ASSUME PageInv
    PROVE  /\ ToSet(results) \subseteq Place
           /\ MaxPopulation \in Nat \ {0}
           /\ \A p \in ToSet(results) : p.population \in Nat /\ p.population <= MaxPopulation
<1> DEFINE R == ToSet(results)
           g == [p \in R |-> p.population]
           V == { p.population : p \in R }
           S == {1} \union V
<1>1. R \subseteq hits /\ hits \subseteq Place
  BY RankingAssumption DEF PageInv, PageTypes, OnceEach, ToSet
<1>2. \A p \in R : p.population \in Nat
  BY <1>1, RankingAssumption
<1>3. IsFiniteSet(R)
  BY <1>1, RankingAssumption, FS_Subset
<1> HIDE DEF R
<1>4. \A y \in V : \E p \in R : y = g[p]
  OBVIOUS
<1>5. IsFiniteSet(V)
  <2> HIDE DEF V, g
  <2> QED  BY <1>3, <1>4, FiniteValues
<1>6. IsFiniteSet(S)
  <2>1. S = V \union {1}
    OBVIOUS
  <2> HIDE DEF V, S
  <2> QED  BY <1>5, <2>1, FS_AddElement
<1>7. /\ S \in SUBSET Int /\ S \in SUBSET Nat /\ S # {} /\ 1 \in S
      /\ \A p \in R : p.population \in S
  BY <1>2
<1>8. MaxPopulation = Max(S)
  BY DEF MaxPopulation, R
<1> HIDE DEF S
<1>9. MaxPopulation \in Nat /\ \A x \in S : x <= MaxPopulation
  <2>1. Max(S) \in S /\ \A x \in S : x <= Max(S)
    BY <1>6, <1>7, FiniteMaximum
  <2> QED  BY <1>7, <1>8, <2>1
<1> QED  BY <1>1, <1>2, <1>7, <1>9 DEF R

LEMMA ScoreInit == Init => ScoreInv
<1> SUFFICES ASSUME Init PROVE ScoreInv
  OBVIOUS
<1>1. PICK n \in [Country -> Counts] :
         profile.countries = n /\ profile.features \in [Features -> Parts(Total(n))]
  BY DEF Init, Profiles
<1>2. n \in [Country -> Nat]
  BY RankingAssumption
<1>3. Total(n) \in Nat
  BY <1>2, RankingAssumption, SearchesFinite
<1>4. Parts(Total(n)) \subseteq Nat
  <2> DEFINE t == Total(n)
  <2>1. t \in Nat
    BY <1>3
  <2> HIDE DEF t
  <2>2. t \div 2 \in Nat /\ t - t \div 2 \in Nat
    BY <2>1
  <2> QED  BY <2>1, <2>2 DEF Parts, t
<1>5. profile.features \in [Features -> Nat]
  BY <1>1, <1>4
<1> QED  BY <1>1, <1>2, <1>5 DEF Init, ScoreInv

LEMMA ScoreStep == PageInv /\ ScoreInv /\ [Next]_vars => ScoreInv'
<1> SUFFICES ASSUME PageInv, ScoreInv, [Next]_vars PROVE ScoreInv'
  OBVIOUS
<1>1. UNCHANGED profile
  BY DEF Next, vars, Search, KeepGlobal, Prefer, Rerank, NextPage
<1>2. profile'.countries \in [Country -> Nat] /\ profile'.features \in [Features -> Nat]
  BY <1>1 DEF ScoreInv
<1>3. CASE stage' # "answer"
  BY <1>2, <1>3 DEF ScoreInv
<1>4. CASE Rerank
  <2>1. PICK s \in SetToSeqs(ToSet(results)) : BestFirst(s) /\ results' = s
    BY <1>4 DEF Rerank
  <2>2. ToSet(s) = ToSet(results)
    BY <2>1, Reordered DEF PageInv, PageTypes, OnceEach
  <2>3. ToSet(results)' = ToSet(results)
    BY <2>1, <2>2 DEF ToSet
  <2>4. MaxPopulation' = MaxPopulation
    BY <2>3 DEF MaxPopulation
  <2>5. \A p : Score(p)' = Score(p)
    <3> TAKE p
    <3>1. Signal(p)' = Signal(p) /\ Unit' = Unit
      BY <1>1 DEF Signal, CountryWeight, ContinentWeight, FeatureWeight, RecentMatch, Unit, continents
    <3> QED  BY <2>4, <3>1 DEF Score, PopulationWeight
  <2> HIDE DEF Score
  <2>6. BestFirst(results)'
    BY <2>1, <2>5 DEF BestFirst
  <2> QED  BY <1>2, <2>6 DEF ScoreInv
<1>5. CASE UNCHANGED vars
  <2>1. UNCHANGED <<profile, stage, results>>
    BY <1>5 DEF vars
  <2>2. BestFirst(results)' <=> BestFirst(results)
    BY <2>1 DEF BestFirst, Score, Signal, CountryWeight, ContinentWeight, FeatureWeight, RecentMatch,
                Unit, continents, PopulationWeight, MaxPopulation, ToSet
  <2> QED  BY <1>2, <2>1, <2>2 DEF ScoreInv
<1> QED  BY <1>3, <1>4, <1>5 DEF Next, Search, KeepGlobal, Prefer, NextPage

LEMMA ScoreInvariant == Spec => []ScoreInv
<1>1. Spec => [](PageInv /\ ScoreInv)
  BY PageInit, ScoreInit, PageStep, ScoreStep, PTL DEF Spec
<1> QED  BY <1>1, PTL

\* For all counters, populations and hits: while the largest counters multiply to less than
\* 500, no population outweighs a difference of the profile's signals, and between equal
\* signals it decides (reranker.go:84-104).
THEOREM PopulationDecidesTies == Spec => []PopulationOnlyBreaksTies
<1>1. ASSUME PageInv, ScoreInv PROVE PopulationOnlyBreaksTies
  <2> SUFFICES ASSUME Done, Unit < 500,
                      NEW p \in ToSet(results), NEW q \in ToSet(results), Ahead(p, q)
               PROVE  \/ Signal(p) > Signal(q)
                      \/ Signal(p) = Signal(q) /\ p.population >= q.population
    BY DEF PopulationOnlyBreaksTies
  <2> DEFINE a == p.population
             b == q.population
             M == MaxPopulation
             U == Unit
  <2>1. Score(p) >= Score(q)
    <3> HIDE DEF Score
    <3> QED  BY <1>1 DEF Ahead, ScoreInv, BestFirst, Done
  <2>2. /\ a \in Nat /\ b \in Nat /\ a <= M /\ M \in Nat \ {0} /\ p \in Place /\ q \in Place
    BY <1>1, PopulationFacts
  <2>3. U \in Nat \ {0} /\ U < 500
    BY <1>1, SignalFacts
  <2>4. PICK m \in Int, n \in Int : Signal(p) = 500 * m /\ Signal(q) = 500 * n
    <3> HIDE DEF Signal
    <3> QED  BY <1>1, <2>2, SignalFacts
  <2>5. (500 * m) * M + U * a >= (500 * n) * M + U * b
    BY <2>1, <2>4 DEF Score, PopulationWeight
  <2> HIDE DEF a, b, M, U
  <2>6. m >= n
    <3> SUFFICES ASSUME n >= m + 1 PROVE FALSE
      BY <2>4
    <3>1. n * M >= m * M + M
      <4>1. \A x, y \in Int, z \in Nat : x >= y + 1 => x * z >= y * z + z
        OBVIOUS
      <4> QED  BY <2>2, <2>4, <4>1
    <3>2. U * a <= U * M /\ U * b >= 0
      <4>1. \A x, y, z \in Nat : x <= y => z * x <= z * y /\ z * x >= 0
        OBVIOUS
      <4> QED  BY <2>2, <2>3, <4>1
    <3>3. U * M < 500 * M
      <4>1. \A x, y \in Nat, z \in Nat \ {0} : x < y => x * z < y * z
        OBVIOUS
      <4> QED  BY <2>2, <2>3, <4>1
    <3>4. (500 * m) * M = 500 * (m * M) /\ (500 * n) * M = 500 * (n * M)
      BY <2>2, <2>4
    <3>5. m * M \in Int /\ n * M \in Int /\ U * a \in Int /\ U * b \in Int /\ U * M \in Int
      BY <2>2, <2>3, <2>4
    <3> QED  BY <2>2, <2>5, <3>1, <3>2, <3>3, <3>4, <3>5
  <2>7. CASE m > n
    BY <2>4, <2>7
  <2>8. CASE m = n
    <3>1. U * a >= U * b
      <4>1. (500 * m) * M \in Int /\ U * a \in Int /\ U * b \in Int
        BY <2>2, <2>3, <2>4
      <4> QED  BY <2>5, <2>8, <4>1
    <3>2. a >= b
      <4>1. \A x, y \in Nat, z \in Nat \ {0} : z * x >= z * y => x >= y
        OBVIOUS
      <4> QED  BY <2>2, <2>3, <3>1, <4>1
    <3> QED  BY <2>4, <2>8, <3>2 DEF a, b
  <2> QED  BY <2>4, <2>6, <2>7, <2>8
<1>2. Spec => [](PageInv /\ ScoreInv)
  BY PageInvariant, ScoreInvariant, PTL
<1> QED  BY <1>1, <1>2, PTL

-----------------------------------------------------------------------------
(* The search cache, for any number of handlers, keys, imports and faults, *)
(* any time to live and any lag between a search and its SET.              *)

\* The current version and those to come are not superseded.
CurrentIsFresh == \A v \in Version : v >= index => superseded[v] = 0

\* A handler that is about to SET holds an answer that the index has outgrown at most
\* since its search.
HeldNotTooOld ==
    \A h \in Handler :
        pc[h] = "set" => Caching /\ result[h] \in 0..index /\ superseded[result[h]] <= lag[h]

\* An entry is of a version that exists and expires; what remains to it makes up for
\* what its version has been superseded for.
EntriesExpire ==
    \A k \in Key :
        cache[k] # Missing => cache[k].version <= index /\ cache[k].left \in Nat \ {0}

CacheInv ==
    /\ CacheTypeOK
    /\ CurrentIsFresh
    /\ HeldNotTooOld
    /\ EntriesExpire
    /\ CacheNotTooOld

-----------------------------------------------------------------------------

LEMMA InitCache == CacheInit => CacheInv
<1> SUFFICES ASSUME CacheInit PROVE CacheInv
  OBVIOUS
<1> USE SearchCacheAssumption DEF SearchCacheAssumption, CacheInit
<1>1. CacheTypeOK
  BY DEF CacheTypeOK, Version
<1>2. CurrentIsFresh /\ HeldNotTooOld
  BY DEF CurrentIsFresh, HeldNotTooOld
<1>3. EntriesExpire /\ CacheNotTooOld
  BY DEF EntriesExpire, CacheNotTooOld
<1> QED
  BY <1>1, <1>2, <1>3 DEF CacheInv

LEMMA EntryFacts ==
    ASSUME CacheTypeOK, NEW k \in Key, cache[k] # Missing
    PROVE  /\ cache[k] \in Entry
           /\ cache[k] = [version |-> cache[k].version, left |-> cache[k].left]
           /\ cache[k].version \in Version
BY DEF CacheTypeOK, Entry

\* The steps of the clock.
LEMMA TickKeepsType == CacheInv /\ Tick => CacheTypeOK'
<1> SUFFICES ASSUME CacheInv, Tick PROVE CacheTypeOK'
  OBVIOUS
<1> USE SearchCacheAssumption DEF SearchCacheAssumption
<1>1. CacheTypeOK /\ EntriesExpire
  BY DEF CacheInv
<1>2. superseded' \in [Version -> Nat]
  BY <1>1 DEF Tick, CacheTypeOK
<1>3. lag' \in [Handler -> 0..MaxLag]
  BY <1>1 DEF Tick, CacheTypeOK
<1>4. cache' \in [Key -> Entry \union {Missing}]
  <2>1. ASSUME NEW k \in Key PROVE Aged(cache[k]) \in Entry \union {Missing}
    <3>1. CASE cache[k] = Missing
      BY <3>1 DEF Aged, Missing
    <3>2. CASE cache[k] # Missing
      <4>1. cache[k] \in Entry /\ cache[k].left \in Nat \ {0}
        BY <1>1, <3>2, EntryFacts DEF EntriesExpire
      <4>2. CASE cache[k].left = 1
        BY <4>2 DEF Aged
      <4>3. CASE cache[k].left > 1
        <5>1. Aged(cache[k]) = [cache[k] EXCEPT !.left = @ - 1] /\ cache[k].left - 1 \in Nat \ {0}
          BY <4>1, <4>3 DEF Aged
        <5> QED
          BY <4>1, <5>1 DEF Entry
      <4> QED
        BY <4>1, <4>2, <4>3
    <3> QED
      BY <3>1, <3>2
  <2> QED
    BY <2>1 DEF Tick
<1> QED
  BY <1>1, <1>2, <1>3, <1>4 DEF Tick, CacheTypeOK

LEMMA CacheTypeStep == CacheInv /\ [CacheNext]_cacheVars => CacheTypeOK'
<1> SUFFICES ASSUME CacheInv, [CacheNext]_cacheVars PROVE CacheTypeOK'
  OBVIOUS
<1>1. CacheTypeOK
  BY DEF CacheInv
<1> USE SearchCacheAssumption DEF SearchCacheAssumption, CacheTypeOK, Goto, Fault, shared, handler
<1>2. ASSUME NEW h \in Handler, NEW k \in Key, Receive(h, k) PROVE CacheTypeOK'
  BY <1>1, <1>2 DEF Receive
<1>3. ASSUME NEW h \in Handler, Hit(h) PROVE CacheTypeOK'
  <2>1. key[h] \in Key /\ cache[key[h]].version \in Version
    BY <1>1, <1>3, EntryFacts DEF Hit
  <2> QED
    BY <1>1, <1>3, <2>1 DEF Hit
<1>4. ASSUME NEW h \in Handler, Miss(h) PROVE CacheTypeOK'
  BY <1>1, <1>4 DEF Miss
<1>5. ASSUME NEW h \in Handler, SearchIndex(h) PROVE CacheTypeOK'
  BY <1>1, <1>5 DEF SearchIndex
<1>6. ASSUME NEW h \in Handler, SearchFails(h) PROVE CacheTypeOK'
  BY <1>1, <1>6 DEF SearchFails
<1>7. ASSUME NEW h \in Handler, Set(h) PROVE CacheTypeOK'
  <2>1. [version |-> result[h], left |-> TimeToLive] \in Entry
    BY <1>7 DEF CacheInv, HeldNotTooOld, Set, Entry, TimeToLive, Version, Caching
  <2>2. cache' \in [Key -> Entry \union {Missing}]
    BY <1>1, <1>7, <2>1 DEF Set, Store
  <2> QED
    BY <1>1, <1>7, <2>2 DEF Set
<1>8. ASSUME NEW h \in Handler, Answer(h) PROVE CacheTypeOK'
  BY <1>1, <1>8 DEF Answer
<1>9. CASE NewIndex
  BY <1>1, <1>9 DEF NewIndex, Version
<1>10. CASE Tick
  BY <1>10, TickKeepsType
<1>11. CASE UNCHANGED cacheVars
  BY <1>1, <1>11 DEF cacheVars
<1> QED
  BY <1>2, <1>3, <1>4, <1>5, <1>6, <1>7, <1>8, <1>9, <1>10, <1>11 DEF CacheNext, Step

\* Superseded versions age, by a tick at most; no version ceases to be one.
LEMMA AgeStep ==
    ASSUME CacheInv, [CacheNext]_cacheVars
    PROVE  /\ index' >= index
           /\ \A v \in Version : superseded'[v] \in superseded[v]..(superseded[v] + 1)
           /\ CurrentIsFresh'
<1> USE SearchCacheAssumption DEF SearchCacheAssumption
<1>1. CacheTypeOK /\ CurrentIsFresh
  BY DEF CacheInv
<1>2. CASE Tick
  <2>1. ASSUME NEW v \in Version
        PROVE  /\ superseded'[v] \in superseded[v]..(superseded[v] + 1)
               /\ v >= index => superseded'[v] = superseded[v]
    <3>1. superseded[v] \in Nat /\ v \in Nat /\ index \in Nat
      BY <1>1 DEF CacheTypeOK, Version
    <3>2. \/ superseded'[v] = superseded[v] + 1 /\ v < index
          \/ superseded'[v] = superseded[v]
      BY <1>2 DEF Tick
    <3> QED
      BY <3>1, <3>2
  <2>2. index' = index /\ index \in Nat
    BY <1>1, <1>2 DEF Tick, CacheTypeOK, Version
  <2> QED
    BY <1>1, <2>1, <2>2 DEF CurrentIsFresh
<1>3. CASE NewIndex
  BY <1>1, <1>3 DEF NewIndex, CurrentIsFresh, CacheTypeOK, Version
<1>4. CASE UNCHANGED <<index, superseded>>
  BY <1>1, <1>4 DEF CurrentIsFresh, CacheTypeOK, Version
<1> QED
  BY <1>2, <1>3, <1>4
  DEF CacheNext, Step, Receive, Hit, Miss, SearchIndex, SearchFails, Set, Answer, shared, cacheVars

\* A search reads the current index, which is not superseded; the tick that ages its
\* version while it rests is counted in its lag.
LEMMA HeldStep == CacheInv /\ [CacheNext]_cacheVars => HeldNotTooOld'
<1> SUFFICES ASSUME CacheInv, [CacheNext]_cacheVars, NEW h \in Handler, pc'[h] = "set"
             PROVE  Caching /\ result'[h] \in 0..index' /\ superseded'[result'[h]] <= lag'[h]
  BY DEF HeldNotTooOld
<1> USE SearchCacheAssumption DEF SearchCacheAssumption
<1>1. /\ CacheTypeOK /\ CurrentIsFresh /\ HeldNotTooOld
      /\ index \in Nat /\ index' \in Nat /\ index \in Version /\ lag[h] \in Nat
      /\ superseded[index] = 0
  <2>1. CacheTypeOK /\ CacheTypeOK' /\ CurrentIsFresh /\ HeldNotTooOld
    BY CacheTypeStep DEF CacheInv
  <2>2. /\ index \in Version /\ index' \in Version /\ lag[h] \in 0..MaxLag
        /\ Version \subseteq Nat
    BY <2>1 DEF CacheTypeOK, Version
  <2>3. index >= index /\ superseded[index] = 0
    BY <2>1, <2>2 DEF CurrentIsFresh
  <2> QED
    BY <2>1, <2>2, <2>3
<1>2. /\ index' >= index
      /\ \A v \in Version : superseded'[v] \in superseded[v]..(superseded[v] + 1)
  BY AgeStep
<1>3. ASSUME NEW i \in Handler, SearchIndex(i) PROVE HeldNotTooOld'
  <2>1. UNCHANGED <<index, superseded>>
    BY <1>3 DEF SearchIndex, shared
  <2>2. ASSUME NEW j \in Handler, pc'[j] = "set"
        PROVE  Caching /\ result'[j] \in 0..index /\ superseded[result'[j]] <= lag'[j]
    <3>1. CASE j = i
      BY <1>1, <1>3, <2>2, <3>1 DEF SearchIndex, Goto, CacheTypeOK
    <3>2. CASE j # i
      BY <1>1, <1>3, <2>2, <3>2 DEF SearchIndex, Goto, CacheTypeOK, HeldNotTooOld
    <3> QED
      BY <3>1, <3>2
  <2> QED
    BY <2>1, <2>2 DEF HeldNotTooOld
<1>4. CASE Tick
  <2>1. /\ pc' = pc /\ result' = result /\ index' = index /\ lag'[h] = lag[h] + 1
        /\ pc[h] = "set"
    BY <1>4 DEF Tick
  <2>2. /\ Caching /\ result[h] \in 0..index /\ superseded[result[h]] <= lag[h]
        /\ result[h] \in Version /\ superseded[result[h]] \in Nat
    BY <1>1, <2>1 DEF HeldNotTooOld, CacheTypeOK, Version
  <2>3. superseded'[result[h]] <= superseded[result[h]] + 1 /\ superseded'[result[h]] \in Int
    BY <1>2, <2>2
  <2> QED
    BY <1>1, <2>1, <2>2, <2>3
<1>5. CASE NewIndex
  <2>1. /\ UNCHANGED <<superseded, pc, result, lag>> /\ index' = index + 1
    BY <1>5 DEF NewIndex, handler
  <2>2. Caching /\ result[h] \in 0..index /\ superseded[result[h]] <= lag[h]
    BY <1>1, <2>1 DEF HeldNotTooOld
  <2> QED
    BY <1>1, <2>1, <2>2
<1>6. ASSUME NEW i \in Handler, Set(i) \/ Answer(i) \/ Hit(i) \/ Miss(i) \/ SearchFails(i)
      PROVE  HeldNotTooOld'
  <2>1. /\ UNCHANGED <<index, superseded>>
        /\ pc'[i] # "set"
        /\ \A j \in Handler \ {i} : pc'[j] = pc[j] /\ result'[j] = result[j] /\ lag'[j] = lag[j]
    BY <1>1, <1>6 DEF Set, Answer, Hit, Miss, SearchFails, Goto, shared, CacheTypeOK
  <2> QED
    BY <1>1, <2>1 DEF HeldNotTooOld
<1>7. ASSUME NEW i \in Handler, NEW k \in Key, Receive(i, k) PROVE HeldNotTooOld'
  <2>1. /\ UNCHANGED <<index, superseded>>
        /\ pc'[i] # "set"
        /\ \A j \in Handler \ {i} : pc'[j] = pc[j] /\ result'[j] = result[j] /\ lag'[j] = lag[j]
    BY <1>1, <1>7 DEF Receive, Goto, shared, CacheTypeOK
  <2> QED
    BY <1>1, <2>1 DEF HeldNotTooOld
<1>8. CASE UNCHANGED cacheVars
  BY <1>1, <1>8 DEF cacheVars, shared, handler, HeldNotTooOld
<1> QED
  BY <1>3, <1>4, <1>5, <1>6, <1>7, <1>8 DEF CacheNext, Step, HeldNotTooOld

\* A SET gives its answer a life of CacheTTL, and the answer is at most MaxLag old;
\* from then on each tick takes from the one what it adds to the other.
LEMMA EntriesStep == CacheInv /\ [CacheNext]_cacheVars => EntriesExpire' /\ CacheNotTooOld'
<1> SUFFICES ASSUME CacheInv, [CacheNext]_cacheVars, NEW k \in Key, cache'[k] # Missing
             PROVE  /\ cache'[k].version <= index' /\ cache'[k].left \in Nat \ {0}
                    /\ cache'[k].left \in 1..CacheTTL
                    /\ superseded'[cache'[k].version] + cache'[k].left <= Horizon
  BY DEF EntriesExpire, CacheNotTooOld
<1> USE SearchCacheAssumption DEF SearchCacheAssumption
<1>1. /\ CacheTypeOK /\ HeldNotTooOld /\ EntriesExpire /\ CacheNotTooOld
      /\ index \in Nat /\ index' \in Nat /\ Horizon \in Int
  BY CacheTypeStep DEF CacheInv, CacheTypeOK, Version, Horizon
<1>2. /\ index' >= index
      /\ \A v \in Version : superseded'[v] \in superseded[v]..(superseded[v] + 1)
  BY AgeStep
<1>3. ASSUME cache[k] # Missing
      PROVE  /\ cache[k].version \in Version /\ cache[k].version \in Nat
             /\ cache[k].version <= index
             /\ cache[k].left \in Nat \ {0} /\ cache[k].left \in 1..CacheTTL
             /\ superseded[cache[k].version] \in Nat
             /\ superseded[cache[k].version] + cache[k].left <= Horizon
  BY <1>1, <1>3, EntryFacts DEF EntriesExpire, CacheNotTooOld, CacheTypeOK, Version
<1>4. CASE cache'[k] = cache[k] /\ superseded' = superseded
  BY <1>1, <1>2, <1>3, <1>4
<1>5. CASE Tick
  <2>1. cache'[k] = Aged(cache[k])
    BY <1>5 DEF Tick
  <2>2. cache[k] # Missing /\ cache[k].left > 1
    BY <1>3, <2>1 DEF Aged, Missing
  <2>3. cache[k] \in Entry
    BY <1>1, <2>2, EntryFacts
  <2>4. cache'[k].version = cache[k].version /\ cache'[k].left = cache[k].left - 1
    BY <2>1, <2>2, <2>3 DEF Aged, Entry
  <2>5. PICK v \in Version : v = cache[k].version
    BY <1>3, <2>2
  <2>6. PICK left \in 1..CacheTTL : left = cache[k].left
    BY <1>3, <2>2
  <2>7. superseded[v] \in Nat /\ superseded[v] + left <= Horizon /\ left > 1
        /\ superseded'[v] \in superseded[v]..(superseded[v] + 1)
    BY <1>2, <1>3, <2>2, <2>5, <2>6
  <2>8. superseded'[v] + (left - 1) <= Horizon /\ left - 1 \in Nat \ {0}
        /\ left - 1 \in 1..CacheTTL
    BY <1>1, <2>7
  <2> QED
    BY <1>1, <1>2, <1>3, <2>2, <2>4, <2>5, <2>6, <2>8
<1>6. ASSUME NEW h \in Handler, Set(h), cache' # cache
      PROVE  /\ cache'[k].version <= index' /\ cache'[k].left \in Nat \ {0}
             /\ cache'[k].left \in 1..CacheTTL
             /\ superseded'[cache'[k].version] + cache'[k].left <= Horizon
  <2>1. UNCHANGED <<index, superseded>> /\ pc[h] = "set"
    BY <1>6 DEF Set
  <2>2. cache' = [cache EXCEPT ![key[h]] = [version |-> result[h], left |-> TimeToLive]]
    BY <1>6 DEF Set, Store, Fault
  <2>3. CASE k # key[h]
    BY <1>1, <1>2, <1>3, <2>1, <2>2, <2>3 DEF CacheTypeOK
  <2>4. CASE k = key[h]
    <3>1. cache'[k] = [version |-> result[h], left |-> TimeToLive]
      BY <1>1, <2>2, <2>4 DEF CacheTypeOK
    <3>2. cache'[k].version = result[h] /\ cache'[k].left = CacheTTL /\ CacheTTL \in Nat \ {0}
      BY <1>1, <2>1, <3>1 DEF TimeToLive, HeldNotTooOld, Caching
    <3>3. PICK v \in 0..index : v = result[h]
      BY <1>1, <2>1 DEF HeldNotTooOld
    <3>4. superseded[v] \in Nat /\ superseded[v] <= lag[h] /\ lag[h] \in 0..MaxLag
      BY <1>1, <2>1, <3>3 DEF HeldNotTooOld, CacheTypeOK, Version
    <3>5. superseded[v] + CacheTTL <= Horizon
      BY <3>2, <3>4 DEF Horizon
    <3> QED
      BY <1>1, <2>1, <3>2, <3>3, <3>5
  <2> QED
    BY <2>3, <2>4
<1>7. Tick \/ (\E h \in Handler : Set(h) /\ cache' # cache)
      \/ UNCHANGED <<cache, superseded>>
  BY DEF CacheNext, Step, Receive, Hit, Miss, SearchIndex, SearchFails, Set, Answer,
         NewIndex, shared, cacheVars
<1> QED
  BY <1>4, <1>5, <1>6, <1>7

LEMMA CacheInvariant == CacheSpec => []CacheInv
<1>1. CacheInv /\ [CacheNext]_cacheVars => CacheInv'
  BY CacheTypeStep, AgeStep, HeldStep, EntriesStep DEF CacheInv
<1> QED
  BY <1>1, InitCache, PTL DEF CacheSpec

\* The variables keep their types: in particular no entry without an answer or with a
\* time to live that has run out is ever there.
THEOREM CacheTypeCorrect == CacheSpec => []CacheTypeOK
BY CacheInvariant, PTL DEF CacheInv

\* However handlers overtake each other between their searches and their SETs, every entry
\* expires, since a handler only caches when the time to live is positive, and none is
\* older than its time to live and the longest such lag together (search.go:75-104).
THEOREM StalenessIsBounded == CacheSpec => []CacheNotTooOld
BY CacheInvariant, PTL DEF CacheInv

-----------------------------------------------------------------------------
(* The recommendations, whichever calls fail and whoever is first. *)

\* A town: its country and its rank there.
Item == CountryCode \X Nat

\* The ranks of c's towns among the items s.
RanksIn(s, c) == { s[i][2] : i \in { j \in DOMAIN s : s[j][1] = c } }

\* Items s: no town twice, of each country the largest, and the most searched first.
WellOrdered(s) ==
    /\ IsInjective(s)
    /\ \A c \in CountryCode : \E m \in Nat : RanksIn(s, c) = 1..m
    /\ \A i, j \in DOMAIN s : i < j => countries[s[i][1]] >= countries[s[j][1]]

\* The countries r come after those of the items s.
StillToCome(s, r) ==
    /\ IsInjective(r)
    /\ MostFirst(r)
    /\ \A j \in DOMAIN r : r[j] \in Searched
    /\ \A i \in DOMAIN s, j \in DOMAIN r :
         s[i][1] # r[j] /\ countries[s[i][1]] >= countries[r[j]]

Undisturbed == faults \cap {"profile", "country"} = {}
Shares == \A c \in Searched : towns[c] * MaxCountries >= limit

\* What the items lack of the limit, the countries to come have shares for.
OnCourse ==
    HasSignal /\ Shares /\ Undisturbed /\ history # "profile" =>
        Len(items) = limit \/ Len(items) * MaxCountries + Len(ranked) * limit >= MaxCountries * limit

SectionTypes ==
    /\ countries \in [CountryCode -> Nat]
    /\ towns \in [CountryCode -> Nat] /\ popular \in BOOLEAN
    /\ home \in CountryCode \union {Nothing, OpenSea}
    /\ limit \in 1..25
    /\ history \in {"profile", "countries", "done"}
    /\ ranked \in Seq(CountryCode)
    /\ items \in Seq(Item) /\ Len(items) <= limit
    /\ nearby \in {"lookup", "box", "widen", "done"}
    /\ nearby \in {"box", "widen"} => home # Nothing
    /\ nearby = "widen" => home \in CountryCode
    /\ near \in Seq(Item) /\ Len(near) <= limit
    /\ faults \subseteq Call

SectionStages ==
    /\ history = "profile" => ranked = <<>> /\ items = <<>>
    /\ history = "countries" => HasSignal
    /\ history = "done" /\ HasSignal /\ Undisturbed => ranked = <<>> \/ Len(items) >= limit

Answers ==
    /\ sections \in {<<Nothing>>, <<>>, <<"global">>, <<"history">>, <<"nearby">>, <<"history", "nearby">>}
    /\ Answered => BothDone
    /\ NothingFoundIsLost

SectionInv ==
    /\ SectionTypes
    /\ WellOrdered(items)
    /\ StillToCome(items, ranked)
    /\ OnCourse
    /\ SectionStages
    /\ Answers

-----------------------------------------------------------------------------

LEMMA ItemParts ==
    /\ \A c \in CountryCode, n \in Nat : <<c, n>> \in Item /\ <<c, n>>[1] = c /\ <<c, n>>[2] = n
    /\ \A x \in Item : x[1] \in CountryCode /\ x[2] \in Nat
    /\ \A x, y \in Item : x[1] = y[1] /\ x[2] = y[2] => x = y
  BY DEF Item

LEMMA TownsType ==
    ASSUME towns \in [CountryCode -> Nat], NEW c \in CountryCode, NEW n \in Nat
    PROVE  LET m == IF n <= towns[c] THEN n ELSE towns[c]
           IN  /\ Towns(c, n) \in Seq(Item)
               /\ Len(Towns(c, n)) = m
               /\ \A i \in 1..m : Towns(c, n)[i][1] = c /\ Towns(c, n)[i][2] = i
<1> DEFINE m == IF n <= towns[c] THEN n ELSE towns[c]
<1>1. Min({n, towns[c]}) = m
  BY MinOfTwo
<1>2. m \in Nat
  OBVIOUS
<1> HIDE DEF m
<1>3. Towns(c, n) = [i \in 1..m |-> <<c, i>>]
  BY <1>1 DEF Towns
<1>4. Towns(c, n) \in [1..m -> Item]
  BY <1>2, <1>3, ItemParts
<1>5. Towns(c, n) \in Seq(Item) /\ Len(Towns(c, n)) = m
  BY <1>2, <1>4
<1>6. \A i \in 1..m : Towns(c, n)[i] = <<c, i>>
  BY <1>3
<1>7. \A i \in 1..m : Towns(c, n)[i][1] = c /\ Towns(c, n)[i][2] = i
  BY <1>2, <1>6, ItemParts
<1> QED  BY <1>5, <1>7 DEF m

\* The number of countries that share the limit.
LEMMA CountriesShare ==
    ASSUME countries \in [CountryCode -> Nat], HasSignal
    PROVE  /\ IsFiniteSet(Searched)
           /\ Cardinality(Searched) \in Nat
           /\ MaxCountries \in 1..3 /\ MaxCountries <= Cardinality(Searched)
<1>1. IsFiniteSet(Searched)
  BY FS_Subset, RecommendationsAssumption DEF Searched
<1>2. Searched # {}
  BY DEF Searched, HasSignal
<1>3. Cardinality(Searched) \in Nat /\ Cardinality(Searched) # 0
  BY <1>1, <1>2, FS_CardinalityType, FS_EmptySet
<1> QED  BY <1>1, <1>3, MinOfTwo DEF MaxCountries

-----------------------------------------------------------------------------
(* A country's answer. *)

\* t is s with k towns of c behind it, the largest first.
Extends(t, s, c, k) ==
    /\ t \in Seq(Item)
    /\ Len(t) = Len(s) + k
    /\ \A i \in 1..Len(t) :
         IF i <= Len(s) THEN t[i] = s[i] ELSE t[i][1] = c /\ t[i][2] = i - Len(s)

\* A country's towns are appended up to the limit.
LEMMA Appended ==
    ASSUME items \in Seq(Item), limit \in 1..25, Len(items) <= limit,
           towns \in [CountryCode -> Nat], NEW c \in CountryCode, NEW n \in Nat
    PROVE  LET most == IF n <= towns[c] THEN n ELSE towns[c]
               k == IF limit <= Len(items) + most THEN limit - Len(items) ELSE most
           IN  k \in Nat /\ Extends(UpToLimit(Towns(c, n)), items, c, k)
<1> DEFINE most == IF n <= towns[c] THEN n ELSE towns[c]
           k == IF limit <= Len(items) + most THEN limit - Len(items) ELSE most
           t == Towns(c, n)
           l == Len(items)
<1>1. l \in Nat
  OBVIOUS
<1>2. most \in Nat /\ k \in Nat /\ l + k <= l + most
  BY <1>1
<1>3. t \in Seq(Item) /\ Len(t) = most /\ \A i \in 1..most : t[i][1] = c /\ t[i][2] = i
  BY TownsType
<1>4. Min({limit, l + Len(t)}) = l + k
  BY <1>1, <1>2, <1>3, MinOfTwo
<1>5. UpToLimit(t) = SubSeq(items \o t, 1, l + k)
  BY <1>4 DEF UpToLimit
<1> HIDE DEF most, k, t
<1>6. /\ items \o t \in Seq(Item) /\ Len(items \o t) = l + most
      /\ \A i \in 1..l + most : (items \o t)[i] = IF i <= l THEN items[i] ELSE t[i - l]
  BY <1>3, ConcatProperties
<1>7. /\ UpToLimit(t) \in Seq(Item)
      /\ Len(UpToLimit(t)) = l + k
      /\ \A i \in 1..l + k : UpToLimit(t)[i] = (items \o t)[i]
  BY <1>1, <1>2, <1>5, <1>6
<1>8. ASSUME NEW i \in 1..l + k
      PROVE  IF i <= l THEN UpToLimit(t)[i] = items[i]
             ELSE UpToLimit(t)[i][1] = c /\ UpToLimit(t)[i][2] = i - l
  BY <1>1, <1>2, <1>3, <1>6, <1>7
<1>9. Extends(UpToLimit(t), items, c, k)
  BY <1>7, <1>8 DEF Extends
<1> QED  BY <1>2, <1>9 DEF most, k, t

\* The largest towns of a country that is still to come keep the list well ordered.
LEMMA GrowsInOrder ==
    ASSUME countries \in [CountryCode -> Nat], NEW s \in Seq(Item), WellOrdered(s),
           NEW c \in CountryCode, NEW k \in Nat, NEW t, Extends(t, s, c, k),
           \A i \in DOMAIN s : s[i][1] # c /\ countries[s[i][1]] >= countries[c]
    PROVE  WellOrdered(t)
<1>1. /\ t \in Seq(Item)
      /\ DOMAIN s = 1..Len(s) /\ DOMAIN t = 1..Len(s) + k /\ Len(s) \in Nat
  BY DEF Extends
<1>2. \A i \in DOMAIN t : t[i] \in Item
  BY <1>1
<1>3. \A i \in DOMAIN s : i \in DOMAIN t /\ t[i] = s[i] /\ t[i][1] # c /\ s[i] \in Item
  BY <1>1 DEF Extends
<1>4. \A i \in DOMAIN t : i \notin DOMAIN s => t[i][1] = c /\ t[i][2] = i - Len(s)
  BY <1>1 DEF Extends
<1>5. ASSUME NEW i \in DOMAIN t, NEW j \in DOMAIN t, t[i] = t[j]
      PROVE  i = j
  <2>1. CASE i \in DOMAIN s
    <3>1. j \in DOMAIN s
      BY <1>3, <1>4, <1>5, <2>1
    <3> QED  BY <1>3, <1>5, <2>1, <3>1 DEF WellOrdered, IsInjective
  <2>2. CASE i \notin DOMAIN s
    <3>1. j \notin DOMAIN s
      BY <1>3, <1>4, <1>5, <2>2
    <3>2. i - Len(s) = j - Len(s)
      BY <1>4, <1>5, <2>2, <3>1
    <3> QED  BY <1>1, <3>2
  <2> QED  BY <2>1, <2>2
<1>6. ASSUME NEW d \in CountryCode, d # c
      PROVE  RanksIn(t, d) = RanksIn(s, d)
  <2>1. \A i : i \in DOMAIN t /\ t[i][1] = d <=> i \in DOMAIN s /\ s[i][1] = d
    BY <1>3, <1>4, <1>6
  <2>2. \A i \in DOMAIN s : t[i][2] = s[i][2]
    BY <1>3
  <2> QED  BY <2>1, <2>2 DEF RanksIn
<1>7. RanksIn(t, c) = 1..k
  <2>0. \A i \in DOMAIN t : i \notin DOMAIN s <=> i \in Len(s) + 1..Len(s) + k
    BY <1>1
  <2>1. \A i \in DOMAIN t : t[i][1] = c <=> i \in Len(s) + 1..Len(s) + k
    BY <1>3, <1>4, <2>0
  <2>2. \A i \in DOMAIN t : i \in Len(s) + 1..Len(s) + k => t[i][2] = i - Len(s)
    BY <1>4, <2>0
  <2>3. RanksIn(t, c) = { i - Len(s) : i \in Len(s) + 1..Len(s) + k }
    <3>1. Len(s) + 1..Len(s) + k \subseteq DOMAIN t
      BY <1>1
    <3> QED  BY <2>1, <2>2, <3>1 DEF RanksIn
  <2>4. ASSUME NEW x \in 1..k
        PROVE  x \in { i - Len(s) : i \in Len(s) + 1..Len(s) + k }
    <3>1. Len(s) + x \in Len(s) + 1..Len(s) + k /\ x = (Len(s) + x) - Len(s)
      BY <1>1
    <3> QED  BY <3>1
  <2>5. \A i \in Len(s) + 1..Len(s) + k : i - Len(s) \in 1..k
    BY <1>1
  <2> QED  BY <2>3, <2>4, <2>5
<1>8. \A d \in CountryCode : \E m \in Nat : RanksIn(t, d) = 1..m
  BY <1>6, <1>7 DEF WellOrdered
<1>9. ASSUME NEW i \in DOMAIN t, NEW j \in DOMAIN t, i < j
      PROVE  countries[t[i][1]] >= countries[t[j][1]]
  <2>1. CASE j \in DOMAIN s
    <3>1. i \in DOMAIN s
      BY <1>1, <1>9, <2>1
    <3> QED  BY <1>3, <1>9, <2>1, <3>1 DEF WellOrdered
  <2>2. CASE j \notin DOMAIN s /\ i \in DOMAIN s
    BY <1>3, <1>4, <2>2
  <2>3. CASE j \notin DOMAIN s /\ i \notin DOMAIN s
    BY <1>4, <2>3
  <2> QED  BY <2>1, <2>2, <2>3
<1> QED  BY <1>5, <1>8, <1>9 DEF WellOrdered, IsInjective

-----------------------------------------------------------------------------
(* The steps. *)

LEMMA SectionInit == RecInit => SectionInv
<1> SUFFICES ASSUME RecInit PROVE SectionInv
  OBVIOUS
<1> USE RecommendationsAssumption DEF RecInit, RecommendationsAssumption
<1>1. limit \in 1..25
  BY DEF ServedLimit
<1>2. <<>> \in Seq(Item) /\ <<>> \in Seq(CountryCode) /\ Len(<<>>) = 0 /\ DOMAIN <<>> = {}
  OBVIOUS
<1>3. SectionTypes
  <2>1. countries \in [CountryCode -> Nat]
    OBVIOUS
  <2>2. towns \in [CountryCode -> Nat]
    <3>1. 0..MaxTowns \subseteq Nat
      OBVIOUS
    <3> QED  BY <3>1
  <2> QED  BY <1>1, <1>2, <2>1, <2>2 DEF SectionTypes, Call, RecommendationsAssumption
<1>4. WellOrdered(items)
  <2>1. \A c \in CountryCode : RanksIn(items, c) = 1..0
    BY <1>2 DEF RanksIn
  <2> QED  BY <1>2, <2>1 DEF WellOrdered, IsInjective
<1>5. StillToCome(items, ranked)
  BY <1>2 DEF StillToCome, IsInjective, MostFirst
<1>6. OnCourse /\ SectionStages
  BY DEF OnCourse, SectionStages
<1>7. Answers
  BY DEF Answers, Answered, NothingFoundIsLost
<1> QED  BY <1>3, <1>4, <1>5, <1>6, <1>7 DEF SectionInv

\* A list that stays as it is stays in order.
LEMMA OrderStays == WellOrdered(items) /\ UNCHANGED <<countries, items>> => WellOrdered(items)'
  BY DEF WellOrdered, RanksIn

\* The first goroutine's steps leave the rest of the invariant alone.
LEMMA AnswersStay ==
    Answers /\ ~BothDone /\ UNCHANGED sections => Answers'
  BY DEF Answers, Answered, NothingFoundIsLost

LEMMA ReadProfileStep == SectionInv /\ ReadProfile => SectionInv'
<1> SUFFICES ASSUME SectionInv, ReadProfile PROVE SectionInv'
  OBVIOUS
<1>1. /\ UNCHANGED <<countries, towns, popular, home, limit, items, nearby, near, sections>>
      /\ history = "profile"
  BY DEF ReadProfile, given, second
<1>2. items = <<>> /\ ranked = <<>> /\ Len(items) = 0 /\ DOMAIN items = {}
  BY <1>1 DEF SectionInv, SectionStages
<1>3. WellOrdered(items)'
  BY <1>1, OrderStays DEF SectionInv
<1>4. Answers'
  BY <1>1, AnswersStay DEF SectionInv, BothDone
<1>5. faults' \in {faults, faults \union {"profile"}}
  BY DEF ReadProfile, Fails
<1>6. CASE history' = "countries"
  <2>1. HasSignal /\ UNCHANGED faults
    BY <1>6 DEF ReadProfile
  <2>2. PICK s \in SetToSeqs(Searched) : MostFirst(s) /\ ranked' = SubSeq(s, 1, MaxCountries)
    BY <1>6 DEF ReadProfile
  <2>3. /\ Cardinality(Searched) \in Nat
        /\ MaxCountries \in 1..3 /\ MaxCountries <= Cardinality(Searched)
    BY <2>1, CountriesShare DEF SectionInv, SectionTypes
  <2>4. /\ s \in [1..Cardinality(Searched) -> Searched]
        /\ \A i, j \in 1..Cardinality(Searched) : i # j => s[i] # s[j]
    BY <2>2 DEF SetToSeqs
  <2>5. s \in Seq(Searched) /\ Len(s) = Cardinality(Searched)
    BY <2>3, <2>4
  <2>6. /\ ranked' \in Seq(Searched) /\ Len(ranked') = MaxCountries
        /\ \A i \in 1..MaxCountries : ranked'[i] = s[i]
    BY <2>2, <2>3, <2>5, SubSeqProperties
  <2>7. Searched \subseteq CountryCode
    BY DEF Searched
  <2>8. ranked' \in Seq(CountryCode)
    BY <2>6, <2>7
  <2>9. DOMAIN ranked' = 1..MaxCountries /\ DOMAIN s = 1..Cardinality(Searched)
    BY <2>4, <2>6
  <2>10. SectionTypes'
    BY <1>1, <1>6, <2>1, <2>8 DEF SectionInv, SectionTypes
  <2>11. StillToCome(items, ranked)'
    <3>1. IsInjective(ranked')
      BY <2>3, <2>4, <2>6, <2>9 DEF IsInjective
    <3>2. MostFirst(ranked)'
      BY <1>1, <2>2, <2>3, <2>6, <2>9 DEF MostFirst
    <3>3. \A j \in DOMAIN ranked' : ranked'[j] \in Searched'
      BY <1>1, <2>6, <2>9 DEF Searched
    <3> QED  BY <1>1, <1>2, <3>1, <3>2, <3>3 DEF StillToCome, IsInjective
  <2>12. MaxCountries' = MaxCountries
    BY <1>1 DEF MaxCountries, Searched
  <2>13. OnCourse'
    BY <1>1, <1>2, <2>3, <2>6, <2>12 DEF OnCourse, SectionInv, SectionTypes
  <2>14. SectionStages'
    BY <1>1, <1>6, <2>1 DEF SectionStages, HasSignal
  <2> QED  BY <1>3, <1>4, <2>10, <2>11, <2>13, <2>14 DEF SectionInv
<1>7. CASE history' # "countries"
  <2>1. history' = "done" /\ UNCHANGED ranked /\ (HasSignal => "profile" \in faults')
    BY <1>7 DEF ReadProfile, Fails
  <2>2. SectionTypes'
    BY <1>1, <1>5, <2>1 DEF SectionInv, SectionTypes, Call
  <2>3. StillToCome(items, ranked)'
    BY <1>1, <1>2, <2>1 DEF StillToCome, SectionInv, MostFirst
  <2>4. OnCourse'
    BY <1>1, <2>1 DEF OnCourse, Undisturbed, HasSignal
  <2>5. SectionStages'
    BY <1>1, <1>2, <2>1 DEF SectionStages
  <2> QED  BY <1>3, <1>4, <2>2, <2>3, <2>4, <2>5 DEF SectionInv
<1> QED  BY <1>6, <1>7

LEMMA AskCountryStep == SectionInv /\ AskCountry => SectionInv'
<1> SUFFICES ASSUME SectionInv, AskCountry PROVE SectionInv'
  OBVIOUS
<1> DEFINE c == Head(ranked)
           r == Tail(ranked)
           K == MaxCountries
<1>1. /\ UNCHANGED <<countries, towns, popular, home, limit, history, nearby, near, sections>>
      /\ history = "countries" /\ ranked # <<>> /\ Len(items) < limit
      /\ ranked' = r
  BY DEF AskCountry, given, second
<1>2. /\ countries \in [CountryCode -> Nat] /\ towns \in [CountryCode -> Nat] /\ limit \in 1..25
      /\ ranked \in Seq(CountryCode) /\ items \in Seq(Item) /\ HasSignal
      /\ WellOrdered(items) /\ StillToCome(items, ranked)
  BY <1>1 DEF SectionInv, SectionTypes, SectionStages
<1>3. K \in 1..3
  BY <1>2, CountriesShare
<1>4. PerCountry \in Nat /\ PerCountry * K >= limit
  <2>1. CASE K = 1
    BY <1>2, <2>1 DEF PerCountry
  <2>2. CASE K = 2
    BY <1>2, <2>2 DEF PerCountry
  <2>3. CASE K = 3
    BY <1>2, <2>3 DEF PerCountry
  <2> QED  BY <1>3, <2>1, <2>2, <2>3
<1>5. /\ Len(ranked) \in Nat \ {0} /\ DOMAIN ranked = 1..Len(ranked)
      /\ c = ranked[1] /\ c \in CountryCode
      /\ r \in Seq(CountryCode) /\ Len(r) = Len(ranked) - 1 /\ DOMAIN r = 1..Len(ranked) - 1
      /\ \A j \in DOMAIN r : j + 1 \in DOMAIN ranked /\ r[j] = ranked[j + 1]
  BY <1>1, <1>2, HeadTailProperties
<1>6. Answers'
  BY <1>1, AnswersStay DEF SectionInv, BothDone
<1>7. MaxCountries' = K /\ (HasSignal' <=> HasSignal) /\ (Shares' <=> Shares) /\ Searched' = Searched
  BY <1>1 DEF MaxCountries, Searched, HasSignal, Shares
<1>8. SectionStages'
  BY <1>1, <1>7, <1>2 DEF SectionStages
<1>9. IsInjective(r) /\ MostFirst(r) /\ \A j \in DOMAIN r : r[j] \in Searched
  <2>1. IsInjective(r)
    BY <1>2, <1>5 DEF StillToCome, IsInjective
  <2>2. MostFirst(r)
    <3> SUFFICES ASSUME NEW i \in DOMAIN r, NEW j \in DOMAIN r, i < j
                 PROVE  countries[r[i]] >= countries[r[j]]
      BY DEF MostFirst
    <3>1. i + 1 < j + 1
      BY <1>5
    <3> QED  BY <1>2, <1>5, <3>1 DEF StillToCome, MostFirst
  <2>3. \A j \in DOMAIN r : r[j] \in Searched
    BY <1>2, <1>5 DEF StillToCome
  <2> QED  BY <2>1, <2>2, <2>3
<1>10. /\ c \in Searched
       /\ \A i \in DOMAIN items : items[i][1] # c /\ countries[items[i][1]] >= countries[c]
  BY <1>2, <1>5 DEF StillToCome
<1>11. \A j \in DOMAIN r : c # r[j] /\ countries[c] >= countries[r[j]]
  <2> SUFFICES ASSUME NEW j \in DOMAIN r
               PROVE  c # r[j] /\ countries[c] >= countries[r[j]]
    OBVIOUS
  <2>1. 1 \in DOMAIN ranked /\ j + 1 \in DOMAIN ranked /\ 1 < j + 1 /\ 1 # j + 1
    BY <1>5
  <2> QED  BY <1>2, <1>5, <2>1 DEF StillToCome, IsInjective, MostFirst
<1> HIDE DEF c, r, K
<1>12. CASE items' = UpToLimit(Towns(c, PerCountry)) /\ UNCHANGED faults
  <2> DEFINE most == IF PerCountry <= towns[c] THEN PerCountry ELSE towns[c]
             k == IF limit <= Len(items) + most THEN limit - Len(items) ELSE most
  <2>1. k \in Nat /\ Extends(items', items, c, k)
    <3>1. Len(items) <= limit
      BY <1>1, <1>2
    <3>2. c \in CountryCode
      BY <1>5
    <3> QED  BY <1>2, <1>4, <1>12, <3>1, <3>2, Appended
  <2>2. Len(items) \in Nat /\ Len(items') = Len(items) + k /\ items' \in Seq(Item)
    BY <1>2, <2>1 DEF Extends
  <2>3. towns[c] \in Nat /\ most \in Nat
    BY <1>2, <1>4, <1>5
  <2>4. Len(items') <= limit
    BY <1>2, <2>2, <2>3
  <2>5. SectionTypes'
    BY <1>1, <1>5, <1>12, <2>2, <2>4 DEF SectionInv, SectionTypes
  <2>6. WellOrdered(items')
    BY <1>2, <1>5, <1>10, <2>1, GrowsInOrder
  <2>7. WellOrdered(items)'
    BY <1>1, <2>6 DEF WellOrdered, RanksIn
  <2>8. \A i \in DOMAIN items', j \in DOMAIN r :
          items'[i][1] # r[j] /\ countries[items'[i][1]] >= countries[r[j]]
    <3> SUFFICES ASSUME NEW i \in DOMAIN items', NEW j \in DOMAIN r
                 PROVE  items'[i][1] # r[j] /\ countries[items'[i][1]] >= countries[r[j]]
      OBVIOUS
    <3>1. DOMAIN items' = 1..Len(items') /\ DOMAIN items = 1..Len(items)
      BY <1>2, <2>2
    <3>2. CASE i \in DOMAIN items
      <4>1. items'[i] = items[i]
        BY <2>1, <3>1, <3>2 DEF Extends
      <4> QED  BY <1>2, <1>5, <3>2, <4>1 DEF StillToCome
    <3>3. CASE i \notin DOMAIN items
      <4>1. items'[i][1] = c
        BY <2>1, <2>2, <3>1, <3>3 DEF Extends
      <4> QED  BY <1>11, <4>1
    <3> QED  BY <3>2, <3>3
  <2>9. StillToCome(items, ranked)'
    BY <1>1, <1>7, <1>9, <2>8 DEF StillToCome, MostFirst
  <2>10. OnCourse'
    <3> SUFFICES ASSUME Shares, Undisturbed
                 PROVE  Len(items') = limit
                        \/ Len(items') * K + Len(r) * limit >= K * limit
      BY <1>1, <1>7, <1>12 DEF OnCourse, Undisturbed
    <3>1. Len(items) * K + Len(ranked) * limit >= K * limit
      BY <1>1, <1>2 DEF SectionInv, OnCourse, K
    <3>2. towns[c] * K >= limit
      BY <1>10 DEF Shares, K
    <3>3. CASE limit <= Len(items) + most
      BY <1>2, <2>2, <3>3
    <3>4. CASE ~(limit <= Len(items) + most)
      <4>1. k = most /\ k * K >= limit
        BY <1>4, <3>2, <3>4
      <4>2. (Len(items) + k) * K = Len(items) * K + k * K
        BY <1>3, <2>1, <2>2
      <4>3. Len(r) * limit = Len(ranked) * limit - limit
        <5>1. \A a, b \in Int : (a - 1) * b = a * b - b
          OBVIOUS
        <5> QED  BY <1>2, <1>5, <5>1
      <4> HIDE DEF k
      <4>4. \A a, b \in Int : a * b \in Int
        OBVIOUS
      <4>5. Len(items) \in Int /\ k \in Int /\ Len(ranked) \in Int /\ K \in Int /\ limit \in Int
        <5>1. k \in Int
          BY <2>1
        <5>2. K \in Int /\ limit \in Int
          BY <1>2, <1>3
        <5>3. Len(items) \in Int /\ Len(ranked) \in Int
          BY <1>5, <2>2
        <5> QED  BY <5>1, <5>2, <5>3
      <4>6. Len(items) * K \in Int /\ k * K \in Int /\ Len(ranked) * limit \in Int /\ K * limit \in Int
        BY <4>4, <4>5
      <4> QED  BY <1>2, <2>2, <3>1, <4>1, <4>2, <4>3, <4>6
    <3> QED  BY <3>3, <3>4
  <2> QED  BY <1>6, <1>8, <2>5, <2>7, <2>9, <2>10 DEF SectionInv
<1>13. CASE Fails("country") /\ UNCHANGED items
  <2>1. "country" \in faults' /\ faults' \subseteq Call
    BY <1>13 DEF Fails, SectionInv, SectionTypes, Call
  <2>2. SectionTypes'
    BY <1>1, <1>5, <1>13, <2>1 DEF SectionInv, SectionTypes
  <2>3. WellOrdered(items)'
    BY <1>1, <1>2, <1>13, OrderStays
  <2>4. \A i \in DOMAIN items, j \in DOMAIN r :
          items[i][1] # r[j] /\ countries[items[i][1]] >= countries[r[j]]
    BY <1>2, <1>5 DEF StillToCome
  <2>5. StillToCome(items, ranked)'
    BY <1>1, <1>7, <1>9, <1>13, <2>4 DEF StillToCome, MostFirst
  <2>6. OnCourse'
    BY <2>1 DEF OnCourse, Undisturbed
  <2> QED  BY <1>6, <1>8, <2>2, <2>3, <2>5, <2>6 DEF SectionInv
<1> QED  BY <1>12, <1>13 DEF AskCountry, c

LEMMA HistoryDoneStep == SectionInv /\ HistoryDone => SectionInv'
<1> SUFFICES ASSUME SectionInv, HistoryDone PROVE SectionInv'
  OBVIOUS
<1>1. /\ UNCHANGED <<countries, towns, popular, home, limit, ranked, items, nearby, near>>
      /\ UNCHANGED <<sections, faults>>
      /\ history = "countries" /\ history' = "done"
      /\ ranked = <<>> \/ Len(items) >= limit
  BY DEF HistoryDone, given, second
<1>2. SectionTypes'
  BY <1>1 DEF SectionInv, SectionTypes
<1>3. WellOrdered(items)'
  BY <1>1, OrderStays DEF SectionInv
<1>4. StillToCome(items, ranked)'
  BY <1>1 DEF SectionInv, StillToCome, MostFirst, Searched
<1>5. OnCourse'
  BY <1>1 DEF SectionInv, OnCourse, HasSignal, Shares, Undisturbed, MaxCountries, Searched
<1>6. SectionStages'
  BY <1>1 DEF SectionStages
<1>7. Answers'
  BY <1>1, AnswersStay DEF SectionInv, BothDone
<1> QED  BY <1>2, <1>3, <1>4, <1>5, <1>6, <1>7 DEF SectionInv

\* The second goroutine leaves the work of the first alone, and the failures of its calls
\* are of its own.
NearbyStep ==
    /\ nearby # "done"
    /\ UNCHANGED <<countries, towns, popular, home, limit, history, ranked, items, sections>>
    /\ faults' \in {faults} \union { faults \union {call} : call \in {"lookup", "box", "widen"} }
    /\ nearby' \in {"box", "widen", "done"}
    /\ nearby' \in {"box", "widen"} => home # Nothing
    /\ nearby' = "widen" => home \in CountryCode
    /\ near' \in Seq(Item) /\ Len(near') <= limit

LEMMA NearbyStepHolds == SectionInv /\ NearbyStep => SectionInv'
<1> SUFFICES ASSUME SectionInv, NearbyStep PROVE SectionInv'
  OBVIOUS
<1> USE DEF NearbyStep
<1>1. Undisturbed' <=> Undisturbed
  BY DEF Undisturbed
<1>2. SectionTypes'
  BY DEF SectionInv, SectionTypes, Call
<1>3. WellOrdered(items)'
  BY OrderStays DEF SectionInv
<1>4. StillToCome(items, ranked)'
  BY DEF SectionInv, StillToCome, MostFirst, Searched
<1>5. OnCourse'
  BY <1>1 DEF SectionInv, OnCourse, HasSignal, Shares, MaxCountries, Searched
<1>6. SectionStages'
  BY <1>1 DEF SectionInv, SectionStages, HasSignal
<1>7. Answers'
  BY AnswersStay DEF SectionInv, BothDone
<1> QED  BY <1>2, <1>3, <1>4, <1>5, <1>6, <1>7 DEF SectionInv

\* What one country has around a location.
LEMMA BoxHits ==
    ASSUME towns \in [CountryCode -> Nat], limit \in 1..25,
           NEW c \in CountryCode, NEW n \in 1..towns[c]
    PROVE  Towns(c, Min({n, limit})) \in Seq(Item) /\ Len(Towns(c, Min({n, limit}))) <= limit
<1>1. towns[c] \in Nat /\ n \in Nat
  OBVIOUS
<1>2. Min({n, limit}) = IF n <= limit THEN n ELSE limit
  BY <1>1, MinOfTwo
<1>3. Min({n, limit}) \in Nat /\ Min({n, limit}) <= limit
  BY <1>1, <1>2
<1> DEFINE m == Min({n, limit})
<1> HIDE DEF m
<1>4. m \in Nat /\ m <= limit
  BY <1>3 DEF m
<1>5. Towns(c, m) \in Seq(Item) /\ Len(Towns(c, m)) = IF m <= towns[c] THEN m ELSE towns[c]
  BY <1>4, TownsType
<1>6. Len(Towns(c, m)) <= limit
  BY <1>1, <1>4, <1>5
<1> QED  BY <1>5, <1>6 DEF m

LEMMA SecondIsNearbyStep == SectionInv /\ (Lookup \/ AskBox \/ Widen) => NearbyStep
<1> SUFFICES ASSUME SectionTypes, Lookup \/ AskBox \/ Widen PROVE NearbyStep
  BY DEF SectionInv
<1> USE DEF SectionTypes, given, first, Fails
<1>1. CASE Lookup
  BY <1>1 DEF Lookup, NearbyStep
<1>2. ASSUME AskBox PROVE NearbyStep
  <2>1. CASE UNCHANGED near
    BY <1>2, <2>1 DEF AskBox, NearbyStep
  <2>2. CASE near' # near
    <3>1. /\ nearby = "box" /\ nearby' = "done" /\ UNCHANGED faults
          /\ \E c \in IF home = OpenSea THEN CountryCode ELSE {home} :
               \E n \in 1..towns[c] : near' = Towns(c, Min({n, limit}))
      BY <1>2, <2>2 DEF AskBox
    <3>2. \A c \in IF home = OpenSea THEN CountryCode ELSE {home} : c \in CountryCode
      BY <3>1
    <3>3. PICK c \in CountryCode : \E n \in 1..towns[c] : near' = Towns(c, Min({n, limit}))
      BY <3>1, <3>2
    <3>4. PICK n \in 1..towns[c] : near' = Towns(c, Min({n, limit}))
      BY <3>3
    <3>5. near' \in Seq(Item) /\ Len(near') <= limit
      BY <3>4, BoxHits
    <3> QED  BY <1>2, <3>1, <3>5 DEF AskBox, NearbyStep
  <2> QED  BY <2>1, <2>2
<1>3. ASSUME Widen PROVE NearbyStep
  <2>1. Towns(home, limit) \in Seq(Item) /\ Len(Towns(home, limit)) <= limit
    BY <1>3, TownsType DEF Widen
  <2> QED  BY <1>3, <2>1 DEF Widen, NearbyStep
<1> QED  BY <1>1, <1>2, <1>3

LEMMA SamePair ==
    ASSUME NEW S, NEW s \in Seq(S), NEW t \in Seq(S),
           Len(s) = 2, Len(t) = 2, s[1] = t[1], s[2] = t[2]
    PROVE  s = t
  BY SeqEqual

LEMMA AssembleStep == SectionInv /\ Assemble => SectionInv'
<1> SUFFICES ASSUME SectionInv, Assemble PROVE SectionInv'
  OBVIOUS
<1> DEFINE ours == IF items # <<>> THEN <<"history">> ELSE <<>>
           around == IF near # <<>> THEN <<"nearby">> ELSE <<>>
           found == ours \o around
<1>1. /\ UNCHANGED <<countries, towns, popular, home, limit, history, ranked, items, nearby, near>>
      /\ BothDone
      /\ \/ sections' = Fallback(found) /\ UNCHANGED faults
         \/ found = <<>> /\ Fails("global") /\ sections' = <<>>
  BY DEF Assemble, given, first, second
<1>2. faults' \in {faults, faults \union {"global"}}
  BY <1>1 DEF Fails
<1>3. Undisturbed' <=> Undisturbed
  BY <1>2 DEF Undisturbed
<1>4. SectionTypes'
  BY <1>1, <1>2 DEF SectionInv, SectionTypes, Call
<1>5. WellOrdered(items)'
  BY <1>1, OrderStays DEF SectionInv
<1>6. StillToCome(items, ranked)'
  BY <1>1 DEF SectionInv, StillToCome, MostFirst, Searched
<1>7. OnCourse'
  BY <1>1, <1>3 DEF SectionInv, OnCourse, HasSignal, Shares, MaxCountries, Searched
<1>8. SectionStages'
  BY <1>1, <1>3 DEF SectionInv, SectionStages, HasSignal
<1>9. found = IF items # <<>>
              THEN IF near # <<>> THEN <<"history", "nearby">> ELSE <<"history">>
              ELSE IF near # <<>> THEN <<"nearby">> ELSE <<>>
  <2>1. <<"history">> \o <<"nearby">> = <<"history", "nearby">>
    <3>1. <<"history">> \in Seq(Section) /\ <<"nearby">> \in Seq(Section)
      BY DEF Section
    <3>2. /\ <<"history">> \o <<"nearby">> \in Seq(Section)
          /\ Len(<<"history">> \o <<"nearby">>) = 2
          /\ (<<"history">> \o <<"nearby">>)[1] = "history"
          /\ (<<"history">> \o <<"nearby">>)[2] = "nearby"
      BY <3>1, ConcatProperties
    <3>3. /\ <<"history", "nearby">> \in Seq(Section)
          /\ Len(<<"history", "nearby">>) = 2
          /\ <<"history", "nearby">>[1] = "history"
          /\ <<"history", "nearby">>[2] = "nearby"
      BY DEF Section
    <3> QED  BY <3>2, <3>3, SamePair
  <2>2. /\ <<"history">> \o <<>> = <<"history">>
        /\ <<>> \o <<"nearby">> = <<"nearby">>
        /\ <<>> \o <<>> = <<>>
    OBVIOUS
  <2> QED  BY <2>1, <2>2
<1> HIDE DEF found
<1>10. Answers'
  <2>1. CASE found = <<>>
    BY <1>1, <1>9, <2>1 DEF Answers, Answered, NothingFoundIsLost, BothDone, Fallback, ToSet,
              Fails
  <2>2. CASE found # <<>>
    BY <1>1, <1>9, <2>2 DEF Answers, Answered, NothingFoundIsLost, BothDone, Fallback, ToSet
  <2> QED  BY <2>1, <2>2
<1> QED  BY <1>4, <1>5, <1>6, <1>7, <1>8, <1>10 DEF SectionInv

LEMMA SectionStep == SectionInv /\ [RecNext]_recVars => SectionInv'
<1> SUFFICES ASSUME SectionInv, [RecNext]_recVars PROVE SectionInv'
  OBVIOUS
<1>1. CASE UNCHANGED recVars
  <2>1. UNCHANGED <<countries, towns, popular, home, limit, history, ranked, items, nearby, near,
                    sections, faults>>
    BY <1>1 DEF recVars, given, first, second
  <2>2. SectionTypes'
    BY <2>1 DEF SectionInv, SectionTypes
  <2>3. WellOrdered(items)'
    BY <2>1, OrderStays DEF SectionInv
  <2>4. StillToCome(items, ranked)'
    BY <2>1 DEF SectionInv, StillToCome, MostFirst, Searched
  <2>5. OnCourse'
    BY <2>1 DEF SectionInv, OnCourse, HasSignal, Shares, Undisturbed, MaxCountries, Searched
  <2>6. SectionStages'
    BY <2>1 DEF SectionInv, SectionStages, HasSignal, Undisturbed
  <2>7. Answers'
    BY <2>1 DEF SectionInv, Answers, Answered, NothingFoundIsLost, BothDone
  <2> QED  BY <2>2, <2>3, <2>4, <2>5, <2>6, <2>7 DEF SectionInv
<1>2. CASE RecNext
  BY <1>2, ReadProfileStep, AskCountryStep, HistoryDoneStep, SecondIsNearbyStep, NearbyStepHolds,
     AssembleStep DEF RecNext
<1> QED  BY <1>1, <1>2

LEMMA SectionInvariant == RecSpec => []SectionInv
  BY SectionInit, SectionStep, PTL DEF RecSpec

-----------------------------------------------------------------------------
(* What follows. *)

\* The variables keep their types: no list of towns is longer than the limit, and the
\* answer has no sections but the three (recommendations.go:68-187).
THEOREM SectionsTypeCorrect == RecSpec => []RecTypeOK
<1>1. SectionInv => RecTypeOK
  <2> SUFFICES ASSUME SectionTypes, Answers PROVE RecTypeOK
    BY DEF SectionInv
  <2>1. ToSet(ranked) \subseteq CountryCode
    BY DEF SectionTypes, ToSet
  <2>2. sections = <<Nothing>> \/ ToSet(sections) \subseteq Section
    BY DEF Answers, ToSet, Section
  <2> QED  BY <2>1, <2>2 DEF SectionTypes, RecTypeOK
<1> QED  BY <1>1, SectionInvariant, PTL

\* In whatever order the two goroutines of a request end and whichever calls fail, what they
\* found is in the answer, and the popular places are there for those who have nothing else,
\* if there are any (recommendations.go:68-187).
THEOREM NothingIsLost == RecSpec => []NothingFoundIsLost
<1>1. SectionInv => NothingFoundIsLost
  BY DEF SectionInv, Answers
<1> QED  BY <1>1, SectionInvariant, PTL

LEMMA ShownIsPrefix ==
    ASSUME NEW m \in Nat, NEW shown, shown = 1..m
    PROVE  shown = 1..Cardinality(shown)
<1>1. Cardinality(shown) = IF 1 > m THEN 0 ELSE m - 1 + 1
  BY FS_Interval
<1> QED  BY <1>1

\* For every number of countries and towns: the history section has no town twice, takes
\* the largest towns of the most searched countries first, and is full if each country has
\* its share of towns and no call failed (recommendations.go:189-279).
THEOREM HistoryIsFull == RecSpec => []HistorySectionIsFull
<1>1. ASSUME SectionInv, Answered, HasSignal
      PROVE  /\ IsInjective(items)
             /\ \A c \in CountriesShown : RanksIn(items, c) = 1..Cardinality(RanksIn(items, c))
             /\ \A i, j \in DOMAIN items : i < j => countries[items[i][1]] >= countries[items[j][1]]
  <2>1. ASSUME NEW c \in CountriesShown
        PROVE  RanksIn(items, c) = 1..Cardinality(RanksIn(items, c))
    <3>1. c \in CountryCode
      BY <1>1, ItemParts DEF SectionInv, SectionTypes, CountriesShown
    <3>2. PICK m \in Nat : RanksIn(items, c) = 1..m
      BY <1>1, <3>1 DEF SectionInv, WellOrdered
    <3> QED  BY <3>2, ShownIsPrefix
  <2> QED  BY <1>1, <2>1 DEF SectionInv, WellOrdered
<1>2. ASSUME SectionInv, Answered, HasSignal, Shares, Undisturbed
      PROVE  Len(items) = limit
  <2>1. history = "done" /\ (ranked = <<>> \/ Len(items) >= limit)
    BY <1>2 DEF SectionInv, Answers, BothDone, SectionStages
  <2>2. Len(items) = limit \/ Len(items) * MaxCountries + Len(ranked) * limit >= MaxCountries * limit
    BY <1>2, <2>1 DEF SectionInv, OnCourse
  <2>3. MaxCountries \in 1..3
    BY <1>2, CountriesShare DEF SectionInv, SectionTypes
  <2>4. limit \in 1..25 /\ Len(items) \in Nat /\ Len(items) <= limit
    BY <1>2 DEF SectionInv, SectionTypes
  <2>5. CASE ranked = <<>>
    <3>1. Len(ranked) * limit = 0
      BY <2>4, <2>5
    <3>2. CASE MaxCountries = 1
      BY <2>2, <2>4, <3>1, <3>2
    <3>3. CASE MaxCountries = 2
      BY <2>2, <2>4, <3>1, <3>3
    <3>4. CASE MaxCountries = 3
      BY <2>2, <2>4, <3>1, <3>4
    <3> QED  BY <2>3, <3>2, <3>3, <3>4
  <2> QED  BY <2>1, <2>4, <2>5
<1>3. SectionInv => HistorySectionIsFull
  BY <1>1, <1>2 DEF HistorySectionIsFull, RanksIn, Shares, Undisturbed
<1> QED  BY <1>3, SectionInvariant, PTL
=============================================================================
