-------------------------- MODULE BulkImportProofs --------------------------
(***************************************************************************)
(* The bulk import for any file, any number of workers, batches of any     *)
(* size, any flags, faults and restarts.                                   *)
(***************************************************************************)
EXTENDS BulkImport, SequenceTheorems, FiniteSetTheorems, TLAPS

\* The records of a batch.
Elements(b) == { b[i] : i \in DOMAIN b }

Once(b) == \A i, j \in DOMAIN b : b[i] = b[j] => i = j

\* No record is twice in a family of batches: the channel, or what the workers hold.
AllOnce(s) ==
    \A i, j \in DOMAIN s : \A k \in DOMAIN s[i], l \in DOMAIN s[j] :
        s[i][k] = s[j][l] => i = j /\ k = l

Held == [w \in Worker |-> worker[w].batch]

\* No record is in two places at once.
NoneTwice ==
    /\ Once(buf)
    /\ AllOnce(channel)
    /\ AllOnce(Held)
    /\ InBuf \cap Batches(channel) = {}
    /\ \A w \in Worker : InBatch(w) \cap (InBuf \union Batches(channel)) = {}

\* The records under way have been scanned, and the others that were are counted.
Accounting ==
    /\ Underway \subseteq Good(read)
    /\ total + Cardinality(Underway) = Cardinality(Good(read))

\* Before the load the goroutines have done nothing yet.
Migrating == {"migrate", "create", "created"}
Preparing ==
    {"delete", "collection", "table", "indexes", "file", "download", "extract"} \union Migrating
Fresh ==
    pc \in Preparing =>
        /\ scanner = "reading" /\ read = 0 /\ buf = <<>> /\ channel = <<>> /\ total = 0
        /\ \A w \in Worker : worker[w] = Idle

\* A store has every record that was counted and, of the batches in the workers' hands,
\* those that need no longer go to it.
Arrived(rows, s) ==
    /\ StoredIn(rows, Good(read) \ Underway)
    /\ \A w \in Worker : s \notin worker[w].todo => StoredIn(rows, InBatch(w))

StoredSoFar ==
    /\ options.pg /\ ~wiped => Arrived(table, "pg")
    /\ options.ts /\ ~rejected => Arrived(docs, "ts")

\* A file that is neither absent nor whole is being extracted, or was when a run ended.
FileIsWhole ==
    /\ (disk \in {Absent, Lines} /\ tail = "whole") \/ cut \/ pc = "extract"
    /\ pc \in {"load", "rebuild"} => disk # Absent

\* The scanner has met no line that is too long, and it stopped for a reason: the end of
\* the file, or such a line, which it reported before it closed the channel.
ScannerStopped ==
    /\ \A n \in 1..read : ~OverLong(n)
    /\ pc \in {"load", "rebuild"} =>
         /\ read <= disk
         /\ scanner # "reading" =>
              /\ buf = <<>> /\ AtEnd
              /\ scanErr = (read < disk /\ OverLong(read + 1))

\* What main has behind it.
MainGotHere ==
    /\ options.ts /\ pc \notin {"off", "delete", "collection"} => collection
    /\ options.pg /\ pc \notin {"off", "delete", "collection"} \union Migrating => schema = "ready"
    /\ pc = "rebuild" => ~scanErr /\ WorkersDone
    /\ outcome = "done" => pc = "off"

ImportInv ==
    /\ TypeOK
    /\ NoneTwice
    /\ Accounting
    /\ Fresh
    /\ StoredSoFar
    /\ FileIsWhole
    /\ ScannerStopped
    /\ MainGotHere
    /\ DoneMeansLoaded

-----------------------------------------------------------------------------
(* Counting and sequences. *)

LEMMA GoodIsFinite ==
    ASSUME NEW n \in Nat
    PROVE  /\ IsFiniteSet(Good(n))
           /\ Cardinality(Good(n)) \in Nat
           /\ Cardinality(Good(n)) <= n
<1>1. IsFiniteSet(1..n) /\ Cardinality(1..n) = n
  BY FS_Interval
<1>2. Good(n) \in SUBSET (1..n)
  BY DEF Good
<1> QED
  BY <1>1, <1>2, FS_Subset, FS_CardinalityType

LEMMA GoodGrows ==
    ASSUME NEW n \in Nat
    PROVE  /\ n + 1 \notin Good(n)
           /\ Good(n + 1) = IF n + 1 \in Skipped THEN Good(n) ELSE Good(n) \union {n + 1}
<1>1. 1..(n + 1) = (1..n) \union {n + 1} /\ n + 1 \notin 1..n
  OBVIOUS
<1> QED
  BY <1>1 DEF Good

LEMMA OnceCounts ==
    ASSUME NEW S, NEW b \in Seq(S), Once(b)
    PROVE  IsFiniteSet(Elements(b)) /\ Cardinality(Elements(b)) = Len(b)
<1>. Len(b) \in Nat
  OBVIOUS
<1>1. IsFiniteSet(1..Len(b)) /\ Cardinality(1..Len(b)) = Len(b)
  BY FS_Interval
<1>2. DOMAIN b = 1..Len(b) /\ b \in [1..Len(b) -> S]
  OBVIOUS
<1>3. b \in [1..Len(b) -> Elements(b)]
  BY <1>2 DEF Elements
<1>4. b \in Bijection(1..Len(b), Elements(b))
  BY <1>2, <1>3 DEF Bijection, Injection, Surjection, IsInjective, Elements, Once
<1> QED
  BY <1>1, <1>4, FS_Bijection DEF ExistsBijection

LEMMA InBatches ==
    ASSUME NEW s, NEW x
    PROVE  x \in Batches(s) <=> \E i \in DOMAIN s : \E k \in DOMAIN s[i] : x = s[i][k]
BY DEF Batches

LEMMA AddToBuffer ==
    ASSUME NEW S, NEW b \in Seq(S), NEW x \in S, Once(b), x \notin Elements(b)
    PROVE  /\ Append(b, x) \in Seq(S)
           /\ Once(Append(b, x))
           /\ Elements(Append(b, x)) = Elements(b) \union {x}
<1>1. /\ Append(b, x) \in Seq(S) /\ Len(Append(b, x)) = Len(b) + 1
      /\ \A i \in 1..Len(b) : Append(b, x)[i] = b[i]
      /\ Append(b, x)[Len(b) + 1] = x
      /\ Len(b) \in Nat
  BY AppendProperties
<1> DEFINE c == Append(b, x)
<1>2. DOMAIN c = 1..(Len(b) + 1) /\ DOMAIN b = 1..Len(b)
  BY <1>1
<1>3. \A i \in DOMAIN c : i \in DOMAIN b \/ i = Len(b) + 1
  BY <1>1, <1>2
<1>4. DOMAIN b \subseteq DOMAIN c /\ Len(b) + 1 \in DOMAIN c
  BY <1>1, <1>2
<1>5. \A i \in DOMAIN b : c[i] = b[i] /\ b[i] \in Elements(b)
  BY <1>1, <1>2 DEF Elements
<1>6. c[Len(b) + 1] = x
  BY <1>1
<1>7. Once(c)
  BY <1>3, <1>5, <1>6 DEF Once
<1>8. Elements(c) = Elements(b) \union {x}
  BY <1>3, <1>4, <1>5, <1>6 DEF Elements
<1> QED
  BY <1>1, <1>7, <1>8

LEMMA SendToChannel ==
    ASSUME NEW S, NEW s \in Seq(Seq(S)), NEW b \in Seq(S),
           AllOnce(s), Once(b), Elements(b) \cap Batches(s) = {}
    PROVE  /\ AllOnce(Append(s, b))
           /\ Batches(Append(s, b)) = Batches(s) \union Elements(b)
<1> DEFINE n == Len(s) + 1
           t == Append(s, b)
<1>1. /\ t \in Seq(Seq(S)) /\ Len(t) = Len(s) + 1
      /\ \A i \in 1..Len(s) : t[i] = s[i]
      /\ t[n] = b
      /\ Len(s) \in Nat
  BY AppendProperties
<1>2. /\ \A i \in DOMAIN t : i \in DOMAIN s \/ i = n
      /\ DOMAIN s \subseteq DOMAIN t /\ n \in DOMAIN t
      /\ \A i \in DOMAIN s : t[i] = s[i]
  BY <1>1
<1>3. t[n] = b
  BY <1>1
<1> HIDE DEF n, t
<1>4. \A i \in DOMAIN s, k \in DOMAIN b : \A l \in DOMAIN s[i] : s[i][l] # b[k]
  BY InBatches DEF Elements
<1>5. AllOnce(t)
  <2> SUFFICES ASSUME NEW i \in DOMAIN t, NEW j \in DOMAIN t,
                      NEW k \in DOMAIN t[i], NEW l \in DOMAIN t[j], t[i][k] = t[j][l]
               PROVE  i = j /\ k = l
    BY DEF AllOnce
  <2>1. CASE i \in DOMAIN s /\ j \in DOMAIN s
    BY <1>2, <2>1 DEF AllOnce
  <2>2. CASE i \in DOMAIN s /\ j = n
    BY <1>2, <1>3, <1>4, <2>2
  <2>3. CASE i = n /\ j \in DOMAIN s
    BY <1>2, <1>3, <1>4, <2>3
  <2>4. CASE i = n /\ j = n
    BY <1>3, <2>4 DEF Once
  <2> QED
    BY <1>2, <2>1, <2>2, <2>3, <2>4
<1>6. ASSUME NEW x PROVE x \in Batches(t) <=> x \in Batches(s) \/ x \in Elements(b)
  <2>1. ASSUME x \in Batches(t) PROVE x \in Batches(s) \/ x \in Elements(b)
    <3>1. PICK i \in DOMAIN t : \E k \in DOMAIN t[i] : x = t[i][k]
      BY <2>1, InBatches
    <3>2. CASE i \in DOMAIN s
      BY <1>2, <3>1, <3>2, InBatches
    <3>3. CASE i = n
      BY <1>3, <3>1, <3>3 DEF Elements
    <3> QED
      BY <1>2, <3>2, <3>3
  <2>2. ASSUME x \in Batches(s) PROVE x \in Batches(t)
    <3>1. PICK i \in DOMAIN s : \E k \in DOMAIN s[i] : x = s[i][k]
      BY <2>2, InBatches
    <3> QED
      BY <1>2, <3>1, InBatches
  <2>3. ASSUME x \in Elements(b) PROVE x \in Batches(t)
    BY <1>2, <1>3, <2>3, InBatches DEF Elements
  <2> QED
    BY <2>1, <2>2, <2>3
<1> QED
  BY <1>5, <1>6 DEF t

LEMMA ReceiveFromChannel ==
    ASSUME NEW S, NEW s \in Seq(Seq(S)), AllOnce(s), s # <<>>
    PROVE  /\ Head(s) \in Seq(S) /\ Tail(s) \in Seq(Seq(S)) /\ Len(Tail(s)) <= Len(s)
           /\ Once(Head(s)) /\ AllOnce(Tail(s))
           /\ Batches(s) = Batches(Tail(s)) \union Elements(Head(s))
           /\ Elements(Head(s)) \cap Batches(Tail(s)) = {}
<1> DEFINE t == Tail(s)
           h == Head(s)
<1>1. /\ t \in Seq(Seq(S)) /\ Len(t) = Len(s) - 1 /\ Len(s) \in Nat \ {0}
      /\ \A i \in 1..Len(t) : t[i] = s[i + 1]
      /\ h = s[1] /\ h \in Seq(S)
  BY HeadTailProperties
<1>2. /\ \A i \in DOMAIN t : i + 1 \in DOMAIN s /\ i + 1 # 1 /\ t[i] = s[i + 1]
      /\ \A i, j \in DOMAIN t : i + 1 = j + 1 => i = j
      /\ \A i \in DOMAIN s : i = 1 \/ \E j \in DOMAIN t : i = j + 1
      /\ 1 \in DOMAIN s
  <2>1. DOMAIN t = 1..(Len(s) - 1) /\ DOMAIN s = 1..Len(s)
    BY <1>1
  <2>2. \A i \in 1..Len(s) : i = 1 \/ (i - 1 \in 1..(Len(s) - 1) /\ i = (i - 1) + 1)
    BY <1>1
  <2>3. \A i \in 1..(Len(s) - 1) : i + 1 \in 1..Len(s) /\ i + 1 # 1
    BY <1>1
  <2>4. \A i, j \in 1..(Len(s) - 1) : i + 1 = j + 1 => i = j
    OBVIOUS
  <2>5. 1 \in 1..Len(s)
    BY <1>1
  <2>6. \A i \in DOMAIN t : t[i] = s[i + 1]
    BY <1>1, <2>1
  <2>7. \A i \in DOMAIN s : i = 1 \/ \E j \in DOMAIN t : i = j + 1
    BY <2>1, <2>2
  <2> HIDE DEF t
  <2> QED
    BY <2>1, <2>3, <2>4, <2>5, <2>6, <2>7
<1>3. Len(t) <= Len(s) /\ h = s[1]
  BY <1>1
<1>4. h \in Seq(S) /\ t \in Seq(Seq(S))
  BY <1>1
<1> HIDE DEF t, h
<1>5. Once(h)
  BY <1>2, <1>3 DEF Once, AllOnce
<1>6. AllOnce(t)
  <2> SUFFICES ASSUME NEW i \in DOMAIN t, NEW j \in DOMAIN t,
                      NEW k \in DOMAIN t[i], NEW l \in DOMAIN t[j], t[i][k] = t[j][l]
               PROVE  i = j /\ k = l
    BY DEF AllOnce
  <2>1. k \in DOMAIN s[i + 1] /\ l \in DOMAIN s[j + 1] /\ s[i + 1][k] = s[j + 1][l]
    BY <1>2
  <2>2. i + 1 = j + 1 /\ k = l
    BY <1>2, <2>1 DEF AllOnce
  <2> QED
    BY <1>2, <2>2
<1>7. ASSUME NEW x PROVE x \in Batches(s) <=> x \in Batches(t) \/ x \in Elements(h)
  <2>1. ASSUME x \in Batches(s) PROVE x \in Batches(t) \/ x \in Elements(h)
    <3>1. PICK i \in DOMAIN s : \E k \in DOMAIN s[i] : x = s[i][k]
      BY <2>1, InBatches
    <3>2. CASE i = 1
      BY <1>3, <3>1, <3>2 DEF Elements
    <3>3. CASE \E j \in DOMAIN t : i = j + 1
      <4>1. PICK j \in DOMAIN t : i = j + 1
        BY <3>3
      <4> QED
        BY <1>2, <3>1, <4>1, InBatches
    <3> QED
      BY <1>2, <3>2, <3>3
  <2>2. ASSUME x \in Batches(t) PROVE x \in Batches(s)
    <3>1. PICK i \in DOMAIN t : \E k \in DOMAIN t[i] : x = t[i][k]
      BY <2>2, InBatches
    <3> QED
      BY <1>2, <3>1, InBatches
  <2>3. ASSUME x \in Elements(h) PROVE x \in Batches(s)
    BY <1>2, <1>3, <2>3, InBatches DEF Elements
  <2> QED
    BY <2>1, <2>2, <2>3
<1>8. ASSUME NEW x, x \in Elements(h), x \in Batches(t) PROVE FALSE
  <2>1. PICK i \in DOMAIN t : \E k \in DOMAIN t[i] : x = t[i][k]
    BY <1>8, InBatches
  <2>2. PICK k \in DOMAIN t[i] : x = t[i][k]
    BY <2>1
  <2>3. PICK l \in DOMAIN h : x = h[l]
    BY <1>8 DEF Elements
  <2>4. s[i + 1][k] = s[1][l] /\ k \in DOMAIN s[i + 1] /\ l \in DOMAIN s[1]
    BY <1>2, <1>3, <2>2, <2>3
  <2> QED
    BY <1>2, <2>4 DEF AllOnce
<1> QED
  BY <1>3, <1>4, <1>5, <1>6, <1>7, <1>8 DEF t, h

\* A worker takes a batch that shares no record with those of the others, or lays its own
\* aside.
LEMMA TakeBatch ==
    ASSUME NEW S, NEW h \in [Worker -> Seq(S)], NEW w \in Worker, NEW b \in Seq(S),
           AllOnce(h), Once(b),
           \A v \in Worker \ {w} : Elements(h[v]) \cap Elements(b) = {}
    PROVE  AllOnce([h EXCEPT ![w] = b])
<1> DEFINE g == [h EXCEPT ![w] = b]
<1>1. DOMAIN g = Worker /\ g[w] = b /\ \A v \in Worker \ {w} : g[v] = h[v]
  OBVIOUS
<1>2. DOMAIN h = Worker
  OBVIOUS
<1> HIDE DEF g
<1>3. SUFFICES ASSUME NEW u \in Worker, NEW v \in Worker,
                      NEW k \in DOMAIN g[u], NEW l \in DOMAIN g[v], g[u][k] = g[v][l]
               PROVE  u = v /\ k = l
  BY <1>1 DEF AllOnce, g
<1>4. g[u][k] \in Elements(g[u]) /\ g[u][k] \in Elements(g[v])
  BY <1>3 DEF Elements
<1>5. CASE u # w /\ v # w
  BY <1>1, <1>2, <1>3, <1>5 DEF AllOnce
<1>6. CASE u = w /\ v # w
  BY <1>1, <1>4, <1>6
<1>7. CASE u # w /\ v = w
  BY <1>1, <1>4, <1>7
<1>8. CASE u = w /\ v = w
  BY <1>1, <1>3, <1>8 DEF Once
<1> QED
  BY <1>5, <1>6, <1>7, <1>8

-----------------------------------------------------------------------------
(* Places and records. *)

LEMMA HeldBatches ==
    ASSUME TypeOK
    PROVE  /\ Held \in [Worker -> Seq(Line)]
           /\ \A w \in Worker : Held[w] = worker[w].batch /\ InBatch(w) = Elements(Held[w])
BY DEF TypeOK, Held, InBatch, Elements

LEMMA BufferElements == InBuf = Elements(buf)
BY DEF InBuf, Elements

LEMMA InUnderway ==
    ASSUME NEW r
    PROVE  r \in Underway <=> \/ r \in InBuf
                              \/ r \in Batches(channel)
                              \/ \E w \in Worker : r \in InBatch(w)
BY DEF Underway

\* Where no record is twice, records and places are as many.
LEMMA RecordsAreAsManyAsPlaces ==
    ASSUME TypeOK, NoneTwice, IsFiniteSet(Underway)
    PROVE  Cardinality(Underway) = Cardinality(Places)
<1> DEFINE At(p) == IF p[1] = "buf" THEN buf[p[3]]
                    ELSE IF p[1] = "channel" THEN channel[p[2]][p[3]]
                    ELSE worker[p[2]].batch[p[3]]
           B == { <<"buf", 0, i>> : i \in DOMAIN buf }
           C == UNION { { <<"channel", i, j>> : j \in DOMAIN channel[i] } : i \in DOMAIN channel }
           W == UNION { { <<"worker", w, j>> : j \in DOMAIN worker[w].batch } : w \in Worker }
           f == [p \in Places |-> At(p)]
<1>1. \A p : p \in Places <=> p \in B \/ p \in C \/ p \in W
  <2>1. Places = B \union C \union W
    BY DEF Places
  <2> HIDE DEF B, C, W
  <2> QED
    BY <2>1
<1>2. \A p \in B : \E i \in DOMAIN buf : p = <<"buf", 0, i>> /\ At(p) = buf[i]
  OBVIOUS
<1>3. \A p \in C : \E i \in DOMAIN channel : \E j \in DOMAIN channel[i] :
                      p = <<"channel", i, j>> /\ At(p) = channel[i][j]
  OBVIOUS
<1>4. \A p \in W : \E w \in Worker : \E j \in DOMAIN worker[w].batch :
                      p = <<"worker", w, j>> /\ At(p) = worker[w].batch[j]
  OBVIOUS
<1>5. \A i \in DOMAIN buf : <<"buf", 0, i>> \in B /\ At(<<"buf", 0, i>>) = buf[i]
  OBVIOUS
<1>6. \A i \in DOMAIN channel : \A j \in DOMAIN channel[i] :
         <<"channel", i, j>> \in C /\ At(<<"channel", i, j>>) = channel[i][j]
  OBVIOUS
<1>7. \A w \in Worker : \A j \in DOMAIN worker[w].batch :
         <<"worker", w, j>> \in W /\ At(<<"worker", w, j>>) = worker[w].batch[j]
  OBVIOUS
<1>8. \A p \in Places : f[p] = At(p)
  OBVIOUS
<1> HIDE DEF At, B, C, W
<1>9. \A p \in B : At(p) \in InBuf
  BY <1>2 DEF InBuf
<1>10. \A p \in C : At(p) \in Batches(channel)
  BY <1>3, InBatches
<1>11. \A p \in W : \E w \in Worker : At(p) \in InBatch(w)
  BY <1>4 DEF InBatch
<1>12. f \in [Places -> Underway]
  BY <1>1, <1>9, <1>10, <1>11, InUnderway
<1>13. \A r \in Underway : \E p \in Places : f[p] = r
  <2> SUFFICES ASSUME NEW r \in Underway PROVE \E p \in Places : At(p) = r
    BY <1>8
  <2>1. CASE r \in InBuf
    BY <1>1, <1>5, <2>1 DEF InBuf
  <2>2. CASE r \in Batches(channel)
    <3>1. PICK i \in DOMAIN channel : \E j \in DOMAIN channel[i] : r = channel[i][j]
      BY <2>2, InBatches
    <3>2. PICK j \in DOMAIN channel[i] : r = channel[i][j]
      BY <3>1
    <3> QED
      BY <1>1, <1>6, <3>2
  <2>3. CASE \E w \in Worker : r \in InBatch(w)
    BY <1>1, <1>7, <2>3 DEF InBatch
  <2> QED
    BY <2>1, <2>2, <2>3, InUnderway
<1>14. ASSUME NEW p \in Places, NEW q \in Places, At(p) = At(q) PROVE p = q
  <2>1. CASE p \in B /\ q \in B
    BY <1>2, <1>14, <2>1 DEF NoneTwice, Once
  <2>2. CASE p \in C /\ q \in C
    BY <1>3, <1>14, <2>2 DEF NoneTwice, AllOnce
  <2>3. CASE p \in W /\ q \in W
    <3>1. PICK v \in Worker : \E j \in DOMAIN worker[v].batch :
                      p = <<"worker", v, j>> /\ At(p) = worker[v].batch[j]
      BY <1>4, <2>3
    <3>2. PICK w \in Worker : \E j \in DOMAIN worker[w].batch :
                      q = <<"worker", w, j>> /\ At(q) = worker[w].batch[j]
      BY <1>4, <2>3
    <3>3. DOMAIN Held = Worker /\ Held[v] = worker[v].batch /\ Held[w] = worker[w].batch
      BY HeldBatches
    <3> QED
      BY <1>14, <3>1, <3>2, <3>3 DEF NoneTwice, AllOnce
  <2>4. CASE p \in B /\ q \notin B
    BY <1>1, <1>9, <1>10, <1>11, <1>14, <2>4 DEF NoneTwice
  <2>5. CASE p \notin B /\ q \in B
    BY <1>1, <1>9, <1>10, <1>11, <1>14, <2>5 DEF NoneTwice
  <2>6. CASE p \in C /\ q \in W
    BY <1>10, <1>11, <1>14, <2>6 DEF NoneTwice
  <2>7. CASE p \in W /\ q \in C
    BY <1>10, <1>11, <1>14, <2>7 DEF NoneTwice
  <2> QED
    BY <1>1, <2>1, <2>2, <2>3, <2>4, <2>5, <2>6, <2>7
<1>15. f \in Injection(Places, Underway) /\ f \in Surjection(Places, Underway)
  <2>1. DOMAIN f = Places
    OBVIOUS
  <2>2. \A p, q \in Places : f[p] = f[q] => p = q
    BY <1>8, <1>14
  <2> HIDE DEF f
  <2> QED
    BY <1>12, <1>13, <2>1, <2>2 DEF Injection, Surjection, IsInjective
<1> QED
  BY <1>15, FS_Injection

\* Steps that leave every record where it is.
LEMMA SameRecords ==
    ASSUME UNCHANGED <<buf, channel>>,
           \A w \in Worker : worker'[w].batch = worker[w].batch
    PROVE  /\ InBuf' = InBuf /\ Batches(channel)' = Batches(channel)
           /\ \A w \in Worker : InBatch(w)' = InBatch(w)
           /\ Underway' = Underway
           /\ NoneTwice => NoneTwice'
<1>1. InBuf' = InBuf /\ Batches(channel)' = Batches(channel)
  BY DEF InBuf
<1>2. \A w \in Worker : InBatch(w)' = InBatch(w)
  BY DEF InBatch
<1>3. Underway' = Underway
  BY <1>1, <1>2 DEF Underway
<1>4. Held' = Held
  BY DEF Held
<1> QED
  BY <1>1, <1>2, <1>3, <1>4 DEF NoneTwice

-----------------------------------------------------------------------------
(* The initial states. *)

LEMMA InitImport == Init => ImportInv
<1> SUFFICES ASSUME Init PROVE ImportInv
  OBVIOUS
<1> USE BulkImportAssumption DEF BulkImportAssumption
<1>1. buf = <<>> /\ channel = <<>> /\ read = 0 /\ total = 0 /\ pc = "off" /\ outcome = "none"
  BY DEF Init
<1>2. worker \in [Worker -> [batch : Seq(Line), todo : SUBSET {"pg", "ts", "count"}]]
  BY DEF Init, Idle
<1>3. TypeOK
  <2>1. /\ tooLong \subseteq TooLong /\ disk \in Absent..Lines
        /\ tail \in {"whole", "short", "torn"} /\ schema \in {"absent", "dirty", "ready"}
        /\ table \in [Record -> {"none", "old", "new"}]
        /\ docs \in [Record -> {"none", "old", "new"}]
    BY DEF Init, Absent, Empty, Older
  <2>2. /\ runs \in 0..MaxRuns /\ faults \in 0..MaxFaults
        /\ options \in Options /\ scanner \in {"reading", "stopped", "closed"}
        /\ indexes \subseteq Index
    BY DEF Init
  <2>7. /\ logged \in BOOLEAN /\ collection \in BOOLEAN /\ scanErr \in BOOLEAN
        /\ cut \in BOOLEAN /\ wiped \in BOOLEAN /\ rejected \in BOOLEAN
    BY Zenon DEF Init
  <2>3. Capacity \in Nat
    BY FS_CardinalityType DEF Capacity
  <2>4. buf \in Seq(Line) /\ Len(buf) <= BatchSize
    BY <1>1
  <2>5. channel \in Seq(Seq(Line)) /\ Len(channel) <= Capacity
    BY <1>1, <2>3
  <2>6. read \in 0..Lines /\ total \in 0..Lines
    BY <1>1
  <2> QED
    BY <1>1, <1>2, <2>1, <2>2, <2>4, <2>5, <2>6, <2>7 DEF TypeOK
<1>4. \A w \in Worker : worker[w].batch = <<>> /\ InBatch(w) = {}
  BY DEF Init, Idle, InBatch
<1>5. InBuf = {} /\ Batches(channel) = {}
  BY <1>1 DEF InBuf, Batches
<1>6. Underway = {}
  BY <1>4, <1>5, InUnderway
<1>7. NoneTwice
  BY <1>1, <1>4, <1>5 DEF NoneTwice, Once, AllOnce, Held
<1>8. Good(0) = {}
  BY DEF Good
<1>9. Accounting
  <2>1. Cardinality(Underway) = 0 /\ Cardinality(Good(read)) = 0
    BY <1>1, <1>6, <1>8, FS_EmptySet
  <2> QED
    BY <1>1, <1>6, <2>1 DEF Accounting
<1>10. Fresh
  BY <1>1 DEF Fresh, Preparing, Migrating
<1>11. StoredSoFar
  BY <1>1, <1>4, <1>8 DEF StoredSoFar, Arrived, StoredIn
<1>12. FileIsWhole
  BY <1>1 DEF FileIsWhole, Init
<1>13. ScannerStopped
  BY <1>1 DEF ScannerStopped
<1>14. MainGotHere /\ DoneMeansLoaded
  BY <1>1 DEF MainGotHere, DoneMeansLoaded
<1> QED
  BY <1>3, <1>7, <1>9, <1>10, <1>11, <1>12, <1>13, <1>14 DEF ImportInv

-----------------------------------------------------------------------------
(* Which steps disturb what. *)

\* The steps of main, of a kill and of PostgreSQL: the goroutines stand still.
Besides ==
    \/ DeleteCollection \/ InitCollection \/ Migrate \/ CreateTable \/ Migrated
    \/ PrepareTable \/ DisableIndexes \/ FindFile \/ Download \/ Extract
    \/ Join \/ (\E i \in Index : CreateIndex(i)) \/ Finish
    \/ Die \/ PostgresCrash \/ UNCHANGED vars

LEMMA Steps ==
    ASSUME [Next]_vars
    PROVE  \/ \E o \in Options : Begin(o)
           \/ Scan \/ Send \/ StopScan \/ CloseChannel
           \/ \E w \in Worker : Receive(w) \/ PgCopy(w) \/ TsImport(w) \/ EndBatch(w)
           \/ Besides
BY DEF Next, Main, Scanner, Work, Stop, Besides

LEMMA BesidesStandStill ==
    ASSUME Besides
    PROVE  UNCHANGED <<scanner, scanErr, read, buf, channel, worker, total, options, tooLong>>
BY DEF Besides, DeleteCollection, InitCollection, Migrate, CreateTable, Migrated, PrepareTable,
       DisableIndexes, FindFile, Download, Extract, Join, CreateIndex, Finish, Die, PostgresCrash,
       vars, pipeline, file

LEMMA TodoStandsStill ==
    ASSUME TypeOK, NEW w \in Worker, PgCopy(w) \/ TsImport(w)
    PROVE  /\ UNCHANGED <<scanner, scanErr, read, buf, channel, total, options, file>>
           /\ \A v \in Worker : /\ worker'[v].batch = worker[v].batch
                                /\ worker'[v].todo \subseteq worker[v].todo
           /\ worker' \in [Worker -> [batch : Seq(Line), todo : SUBSET {"pg", "ts", "count"}]]
<1>1. /\ UNCHANGED <<scanner, scanErr, read, buf, channel, total, options, file>>
      /\ worker' = worker \/ \E s \in {"pg", "ts"} : Through(w, s)
  BY DEF PgCopy, TsImport
<1>2. worker \in [Worker -> [batch : Seq(Line), todo : SUBSET {"pg", "ts", "count"}]]
  BY DEF TypeOK
<1>3. CASE worker' = worker
  BY <1>1, <1>2, <1>3
<1>4. ASSUME NEW s \in {"pg", "ts"}, Through(w, s)
      PROVE  /\ \A v \in Worker : /\ worker'[v].batch = worker[v].batch
                                  /\ worker'[v].todo \subseteq worker[v].todo
             /\ worker' \in [Worker -> [batch : Seq(Line), todo : SUBSET {"pg", "ts", "count"}]]
  <2>1. worker' = [worker EXCEPT ![w].todo = @ \ {s}]
    BY <1>4 DEF Through
  <2>2. worker'[w] = [worker[w] EXCEPT !.todo = worker[w].todo \ {s}]
    BY <1>2, <2>1
  <2>3. /\ worker'[w].batch = worker[w].batch
        /\ worker'[w].todo = worker[w].todo \ {s}
        /\ worker'[w] \in [batch : Seq(Line), todo : SUBSET {"pg", "ts", "count"}]
    BY <1>2, <2>2
  <2> QED
    BY <1>2, <2>1, <2>3
<1> QED
  BY <1>1, <1>3, <1>4

\* The steps of the load: main waits, or the step ends the run.
LEMMA LoadSteps ==
    ASSUME \/ Scan \/ Send \/ StopScan \/ CloseChannel
           \/ \E w \in Worker : Receive(w) \/ PgCopy(w) \/ TsImport(w) \/ EndBatch(w)
    PROVE  /\ pc = "load"
           /\ UNCHANGED <<file, schema, options, logged, indexes, collection, cut, wiped>>
           /\ UNCHANGED <<pc, outcome>> \/ (pc' = "off" /\ outcome' = "failed")
<1>1. CASE Scan \/ Send \/ StopScan \/ CloseChannel
  BY <1>1 DEF Scan, Send, StopScan, CloseChannel, Loading, stores, typesense, history
<1>2. ASSUME NEW w \in Worker, Receive(w) \/ EndBatch(w)
      PROVE  /\ pc = "load" /\ UNCHANGED <<pc, outcome>>
             /\ UNCHANGED <<file, schema, options, logged, indexes, collection, cut, wiped>>
  BY <1>2 DEF Receive, EndBatch, Loading, stores, typesense, history
<1>3. ASSUME NEW w \in Worker, PgCopy(w)
      PROVE  /\ pc = "load"
             /\ UNCHANGED <<file, schema, options, logged, indexes, collection, cut, wiped>>
             /\ UNCHANGED <<pc, outcome>> \/ (pc' = "off" /\ outcome' = "failed")
  BY <1>3 DEF PgCopy, End, Loading, typesense, history
<1>4. ASSUME NEW w \in Worker, TsImport(w)
      PROVE  /\ pc = "load" /\ UNCHANGED <<pc, outcome>>
             /\ UNCHANGED <<file, schema, options, logged, indexes, collection, cut, wiped>>
  BY <1>4 DEF TsImport, Loading
<1> QED
  BY <1>1, <1>2, <1>3, <1>4

\* Only before the load does the file change.
LEMMA GoodPrimed ==
    ASSUME Fresh, [Next]_vars
    PROVE  Good(read)' = Good(read')
<1>1. ASSUME UNCHANGED <<disk, tail>> PROVE Good(read)' = Good(read')
  BY <1>1 DEF Good, Skipped
<1>2. ASSUME read' = 0 PROVE Good(read)' = Good(read')
  BY <1>2 DEF Good
<1>3. ASSUME NEW o, Begin(o) PROVE read' = 0
  BY <1>3 DEF Begin
<1>4. CASE Download \/ Extract
  <2>1. read = 0 /\ UNCHANGED read
    BY <1>4, BesidesStandStill DEF Besides, Download, Extract, Goto, Fresh, Preparing
  <2> QED
    BY <1>2, <2>1
<1>5. ASSUME Besides, ~(Download \/ Extract) PROVE UNCHANGED <<disk, tail>>
  BY <1>5 DEF Besides, DeleteCollection, InitCollection, Migrate, CreateTable, Migrated,
              PrepareTable, DisableIndexes, FindFile, Join, CreateIndex, Finish, Die,
              PostgresCrash, vars, file
<1>6. ASSUME UNCHANGED file PROVE UNCHANGED <<disk, tail>>
  BY <1>6 DEF file
<1> QED
  BY <1>1, <1>2, <1>3, <1>4, <1>5, <1>6, Steps, LoadSteps

-----------------------------------------------------------------------------
(* The way of a record. *)

LEMMA BeginKeepsRecords ==
    ASSUME NEW o, Begin(o)
    PROVE  /\ NoneTwice' /\ Accounting'
           /\ Good(read') = {} /\ \A w \in Worker : InBatch(w)' = {}
<1>1. /\ buf' = <<>> /\ channel' = <<>> /\ read' = 0 /\ total' = 0
      /\ \A w \in Worker : worker'[w] = Idle
  BY DEF Begin
<1>2. \A w \in Worker : worker'[w].batch = <<>> /\ InBatch(w)' = {}
  BY <1>1 DEF Idle, InBatch
<1>3. InBuf' = {} /\ Batches(channel)' = {}
  BY <1>1 DEF InBuf, Batches
<1>4. Underway' = {}
  BY <1>2, <1>3 DEF Underway
<1>5. NoneTwice'
  BY <1>1, <1>2, <1>3 DEF NoneTwice, Once, AllOnce, Held
<1>6. Good(0) = {}
  BY DEF Good
<1>7. Accounting'
  <2>1. Cardinality(Underway') = 0 /\ Cardinality(Good(read')) = 0 /\ Good(read)' = Good(read')
    BY <1>1, <1>4, <1>6, FS_EmptySet DEF Good
  <2> QED
    BY <1>1, <1>4, <2>1 DEF Accounting
<1> QED
  BY <1>1, <1>2, <1>5, <1>6, <1>7

\* The counts that the steps of the pipeline start from.
LEMMA Counts ==
    ASSUME TypeOK, Accounting
    PROVE  /\ read \in Nat /\ total \in Nat
           /\ IsFiniteSet(Good(read)) /\ IsFiniteSet(Underway)
           /\ Cardinality(Good(read)) \in Nat /\ Cardinality(Underway) \in Nat
           /\ Underway \subseteq Good(read)
           /\ total + Cardinality(Underway) = Cardinality(Good(read))
<1>1. read \in Nat /\ total \in Nat
  BY BulkImportAssumption DEF TypeOK, BulkImportAssumption
<1>2. IsFiniteSet(Good(read)) /\ Cardinality(Good(read)) \in Nat
  BY <1>1, GoodIsFinite
<1>3. IsFiniteSet(Underway)
  BY <1>2, FS_Subset DEF Accounting
<1> QED
  BY <1>1, <1>2, <1>3, FS_CardinalityType DEF Accounting

LEMMA ScanKeepsRecords ==
    ASSUME TypeOK, NoneTwice, Accounting, ScannerStopped, Scan
    PROVE  /\ NoneTwice' /\ Accounting'
           /\ Good(read') \ Underway' \subseteq Good(read) \ Underway
           /\ \A w \in Worker : InBatch(w)' = InBatch(w)
           /\ buf' \in Seq(Line) /\ Len(buf') <= BatchSize
<1> USE BulkImportAssumption DEF BulkImportAssumption
<1> DEFINE r == read + 1
<1>1. /\ read' = r /\ UNCHANGED <<channel, worker, total, disk, tail>>
      /\ buf' = IF r \in Skipped THEN buf ELSE Append(buf, r)
      /\ Len(buf) < BatchSize
  BY DEF Scan, file
<1>2. /\ read \in Nat /\ IsFiniteSet(Underway) /\ IsFiniteSet(Good(read))
      /\ Underway \subseteq Good(read)
      /\ total + Cardinality(Underway) = Cardinality(Good(read))
      /\ total \in Nat /\ Cardinality(Underway) \in Nat /\ Cardinality(Good(read)) \in Nat
  BY Counts
<1>3. r \notin Good(read) /\ r \notin Underway
  BY <1>2, GoodGrows
<1>4. Good(read)' = IF r \in Skipped THEN Good(read) ELSE Good(read) \union {r}
  <2>1. Good(r) = IF r \in Skipped THEN Good(read) ELSE Good(read) \union {r}
    BY <1>2, GoodGrows
  <2> QED
    BY <1>1, <2>1 DEF Good, Skipped
<1>5. buf \in Seq(Line) /\ Len(buf) \in Nat
  BY DEF TypeOK
<1>6. r \in Nat /\ Good(read') = Good(read)'
  BY <1>1, <1>2 DEF Good, Skipped
<1>7. \A w \in Worker : InBatch(w)' = InBatch(w)
  BY <1>1 DEF InBatch
<1>8. Batches(channel)' = Batches(channel) /\ Held' = Held
  BY <1>1 DEF Held
<1> HIDE DEF r
<1>9. CASE r \in Skipped
  <2>1. UNCHANGED <<buf, channel, worker>>
    BY <1>1, <1>9
  <2>2. NoneTwice' /\ Underway' = Underway
    BY <2>1, SameRecords
  <2> QED
    BY <1>1, <1>2, <1>4, <1>5, <1>6, <1>7, <1>9, <2>1, <2>2 DEF Accounting
<1>10. CASE r \notin Skipped
  <2>1. r \in Line
    <3>1. r \in Good(read)'
      BY <1>4, <1>10
    <3>2. read < Lines
      <4>1. disk \in Int /\ disk <= Lines /\ read \in 0..Lines
        BY DEF TypeOK, Absent
      <4>2. read # disk /\ read <= disk
        BY DEF Scan, AtEnd, ScannerStopped, Loading
      <4> QED
        BY <4>1, <4>2
    <3> QED
      BY <1>2, <3>2 DEF Line, r
  <2>2. r \notin Elements(buf) /\ Once(buf)
    BY <1>3, InUnderway, BufferElements DEF NoneTwice
  <2>3. /\ buf' = Append(buf, r)
        /\ buf' \in Seq(Line) /\ Once(buf') /\ Elements(buf') = Elements(buf) \union {r}
    BY <1>1, <1>5, <1>10, <2>1, <2>2, AddToBuffer
  <2>4. InBuf' = InBuf \union {r}
    BY <2>3, BufferElements DEF InBuf, Elements
  <2>5. Underway' = Underway \union {r}
    BY <1>7, <1>8, <2>4 DEF Underway
  <2>6. r \notin InBuf /\ r \notin Batches(channel) /\ \A w \in Worker : r \notin InBatch(w)
    BY <1>3, InUnderway
  <2>7. NoneTwice'
    BY <1>1, <1>7, <1>8, <2>3, <2>4, <2>6 DEF NoneTwice
  <2>8. /\ Cardinality(Underway') = Cardinality(Underway) + 1
        /\ Cardinality(Good(read')) = Cardinality(Good(read)) + 1
    <3>1. Cardinality(Underway \union {r}) = Cardinality(Underway) + 1
      BY <1>2, <1>3, FS_AddElement
    <3>2. Cardinality(Good(read) \union {r}) = Cardinality(Good(read)) + 1
      BY <1>2, <1>3, FS_AddElement
    <3>3. Good(read') = Good(read) \union {r}
      BY <1>4, <1>6, <1>10
    <3> QED
      BY <2>5, <3>1, <3>2, <3>3
  <2>9. Accounting'
    BY <1>1, <1>2, <1>4, <1>6, <1>10, <2>5, <2>8 DEF Accounting
  <2>10. Len(buf') <= BatchSize
    BY <1>1, <1>5, <2>3
  <2> QED
    BY <1>4, <1>6, <1>7, <1>10, <2>3, <2>5, <2>7, <2>9, <2>10
<1> QED
  BY <1>9, <1>10

LEMMA SendKeepsRecords ==
    ASSUME TypeOK, NoneTwice, Accounting, Send
    PROVE  /\ NoneTwice' /\ Accounting' /\ Underway' = Underway
           /\ \A w \in Worker : InBatch(w)' = InBatch(w)
           /\ channel' \in Seq(Seq(Line)) /\ Len(channel') <= Capacity
<1>1. /\ channel' = Append(channel, buf) /\ buf' = <<>> /\ Len(channel) < Capacity
      /\ UNCHANGED <<worker, read, total, disk, tail>>
  BY DEF Send, SendBatch, Room, file
<1>2. buf \in Seq(Line) /\ channel \in Seq(Seq(Line)) /\ Len(channel) \in Nat
  BY DEF TypeOK
<1>3. InBuf \cap Batches(channel) = {} /\ Once(buf) /\ AllOnce(channel)
  BY DEF NoneTwice
<1>4. /\ AllOnce(Append(channel, buf))
      /\ Batches(Append(channel, buf)) = Batches(channel) \union Elements(buf)
  BY <1>2, <1>3, BufferElements, SendToChannel
<1>5. InBuf' = {} /\ Batches(channel)' = Batches(channel) \union InBuf
  BY <1>1, <1>4, BufferElements DEF InBuf
<1>6. \A w \in Worker : InBatch(w)' = InBatch(w)
  BY <1>1 DEF InBatch
<1>7. Underway' = Underway
  BY <1>5, <1>6 DEF Underway
<1>8. NoneTwice'
  <2>1. Once(buf)' /\ AllOnce(channel)'
    BY <1>1, <1>4 DEF Once
  <2>2. AllOnce(Held)'
    BY <1>1 DEF NoneTwice, Held
  <2> QED
    BY <1>5, <1>6, <2>1, <2>2 DEF NoneTwice
<1>9. Accounting'
  BY <1>1, <1>7 DEF Accounting, Good, Skipped
<1>10. Capacity \in Nat
  BY BulkImportAssumption, FS_CardinalityType DEF BulkImportAssumption, Capacity
<1>11. channel' \in Seq(Seq(Line)) /\ Len(channel') = Len(channel) + 1
  BY <1>1, <1>2, AppendProperties
<1> QED
  BY <1>1, <1>2, <1>6, <1>7, <1>8, <1>9, <1>10, <1>11

LEMMA ReceiveKeepsRecords ==
    ASSUME TypeOK, NoneTwice, Accounting, NEW w \in Worker, Receive(w)
    PROVE  /\ NoneTwice' /\ Accounting' /\ Underway' = Underway
           /\ \A v \in Worker \ {w} : worker'[v] = worker[v] /\ InBatch(v)' = InBatch(v)
           /\ worker'[w].todo = { s \in {"pg", "ts"} : options[s] } \union {"count"}
           /\ worker' \in [Worker -> [batch : Seq(Line), todo : SUBSET {"pg", "ts", "count"}]]
           /\ channel' \in Seq(Seq(Line)) /\ Len(channel') <= Capacity
<1> DEFINE h == Head(channel)
           T == { s \in {"pg", "ts"} : options[s] } \union {"count"}
           n == [batch |-> h, todo |-> T]
<1>1. /\ worker[w] = Idle /\ channel # <<>>
      /\ worker' = [worker EXCEPT ![w] = n]
      /\ channel' = Tail(channel)
      /\ UNCHANGED <<buf, read, total, disk, tail>>
  BY DEF Receive, file
<1>2. /\ channel \in Seq(Seq(Line)) /\ Len(channel) \in Nat /\ Len(channel) <= Capacity
      /\ worker \in [Worker -> [batch : Seq(Line), todo : SUBSET {"pg", "ts", "count"}]]
      /\ Capacity \in Nat
  BY BulkImportAssumption, FS_CardinalityType DEF TypeOK, BulkImportAssumption, Capacity
<1>3. AllOnce(channel)
  BY DEF NoneTwice
<1>4. /\ h \in Seq(Line) /\ channel' \in Seq(Seq(Line)) /\ Len(channel') <= Len(channel)
      /\ Once(h) /\ AllOnce(channel')
      /\ Batches(channel) = Batches(channel') \union Elements(h)
      /\ Elements(h) \cap Batches(channel') = {}
  BY <1>1, <1>2, <1>3, ReceiveFromChannel
<1>5. T \in SUBSET {"pg", "ts", "count"}
  OBVIOUS
<1> HIDE DEF h, T
<1>6. n \in [batch : Seq(Line), todo : SUBSET {"pg", "ts", "count"}] /\ n.batch = h /\ n.todo = T
  BY <1>4, <1>5
<1> HIDE DEF n
<1>7. /\ worker'[w] = n /\ \A v \in Worker \ {w} : worker'[v] = worker[v]
      /\ worker' \in [Worker -> [batch : Seq(Line), todo : SUBSET {"pg", "ts", "count"}]]
  BY <1>1, <1>2, <1>6
<1>8. /\ InBatch(w) = {} /\ InBatch(w)' = Elements(h)
      /\ \A v \in Worker \ {w} : InBatch(v)' = InBatch(v)
  BY <1>1, <1>6, <1>7 DEF InBatch, Idle, Elements
<1>9. InBuf' = InBuf /\ Batches(channel)' = Batches(channel')
  BY <1>1 DEF InBuf
<1>10. ASSUME NEW r PROVE r \in Underway' <=> r \in Underway
  <2>1. r \in Underway' <=> \/ r \in InBuf
                            \/ r \in Batches(channel')
                            \/ \E v \in Worker : r \in InBatch(v)'
    BY <1>9 DEF Underway
  <2>2. (\E v \in Worker : r \in InBatch(v)')
           <=> r \in Elements(h) \/ \E v \in Worker : r \in InBatch(v)
    BY <1>8
  <2> QED
    BY <1>4, <2>1, <2>2, InUnderway
<1>11. Underway' = Underway
  BY <1>10
<1>12. Held' = [Held EXCEPT ![w] = h]
  BY <1>2, <1>6, <1>7 DEF Held
<1>13. AllOnce(Held')
  <2>1. Held \in [Worker -> Seq(Line)] /\ \A v \in Worker : InBatch(v) = Elements(Held[v])
    BY HeldBatches
  <2>2. \A v \in Worker \ {w} : Elements(Held[v]) \cap Elements(h) = {}
    BY <1>4, <2>1 DEF NoneTwice
  <2>3. AllOnce(Held) /\ Once(h)
    BY <1>4 DEF NoneTwice
  <2> QED
    BY <1>4, <1>12, <2>1, <2>2, <2>3, TakeBatch
<1>14. NoneTwice'
  <2>1. Once(buf)' /\ AllOnce(channel)'
    BY <1>1, <1>4 DEF NoneTwice, Once
  <2>2. InBuf' \cap Batches(channel)' = {}
    BY <1>4, <1>9 DEF NoneTwice
  <2>3. ASSUME NEW v \in Worker
        PROVE  InBatch(v)' \cap (InBuf' \union Batches(channel)') = {}
    <3>1. CASE v = w
      BY <1>4, <1>8, <1>9, <3>1 DEF NoneTwice
    <3>2. CASE v # w
      BY <1>4, <1>8, <1>9, <3>2 DEF NoneTwice
    <3> QED
      BY <3>1, <3>2
  <2> QED
    BY <1>13, <2>1, <2>2, <2>3 DEF NoneTwice
<1>15. Accounting'
  BY <1>1, <1>11 DEF Accounting, Good, Skipped
<1>16. Len(channel') <= Capacity
  <2>1. Len(channel') \in Nat
    BY <1>4
  <2> QED
    BY <1>2, <1>4, <2>1
<1> QED
  BY <1>4, <1>6, <1>7, <1>8, <1>11, <1>14, <1>15, <1>16 DEF T

LEMMA EndBatchKeepsRecords ==
    ASSUME TypeOK, NoneTwice, Accounting, NEW w \in Worker, EndBatch(w)
    PROVE  /\ NoneTwice' /\ Accounting' /\ total' \in 0..Lines
           /\ Good(read)' = Good(read) /\ Underway' = Underway \ InBatch(w)
           /\ InBatch(w)' = {}
           /\ \A v \in Worker \ {w} : worker'[v] = worker[v] /\ InBatch(v)' = InBatch(v)
           /\ worker' \in [Worker -> [batch : Seq(Line), todo : SUBSET {"pg", "ts", "count"}]]
<1> DEFINE b == worker[w].batch
<1>1. /\ total' = total + Len(b)
      /\ worker' = [worker EXCEPT ![w] = Idle]
      /\ UNCHANGED <<buf, channel, read, disk, tail>>
  BY DEF EndBatch, file
<1>2. worker \in [Worker -> [batch : Seq(Line), todo : SUBSET {"pg", "ts", "count"}]]
  BY DEF TypeOK
<1>3. Idle \in [batch : Seq(Line), todo : SUBSET {"pg", "ts", "count"}] /\ Idle.batch = <<>>
  BY DEF Idle
<1>4. b \in Seq(Line) /\ Len(b) \in Nat
  BY <1>2
<1>5. /\ worker'[w] = Idle /\ \A v \in Worker \ {w} : worker'[v] = worker[v]
      /\ worker' \in [Worker -> [batch : Seq(Line), todo : SUBSET {"pg", "ts", "count"}]]
  BY <1>1, <1>2, <1>3
<1> HIDE DEF b
<1>6. /\ InBatch(w)' = {}
      /\ \A v \in Worker \ {w} : InBatch(v)' = InBatch(v)
  BY <1>3, <1>5 DEF InBatch
<1>7. InBuf' = InBuf /\ Batches(channel)' = Batches(channel)
  BY <1>1 DEF InBuf
<1>8. Held \in [Worker -> Seq(Line)] /\ \A v \in Worker : InBatch(v) = Elements(Held[v])
  BY HeldBatches
<1>9. Held[w] = b /\ InBatch(w) = Elements(b)
  BY <1>8, HeldBatches DEF b
<1>10. \A v \in Worker \ {w} : InBatch(v) \cap InBatch(w) = {}
  BY <1>8 DEF NoneTwice, AllOnce, Elements
<1>11. Underway' = Underway \ InBatch(w)
  <2>1. ASSUME NEW r PROVE r \in Underway' <=> r \in Underway /\ r \notin InBatch(w)
    <3>1. r \in Underway' <=> \/ r \in InBuf
                              \/ r \in Batches(channel)
                              \/ \E v \in Worker : r \in InBatch(v)'
      BY <1>7 DEF Underway
    <3>2. r \in InBatch(w) => r \notin InBuf /\ r \notin Batches(channel)
      BY DEF NoneTwice
    <3>3. (\E v \in Worker : r \in InBatch(v)')
             <=> (\E v \in Worker : r \in InBatch(v)) /\ r \notin InBatch(w)
      BY <1>6, <1>10
    <3> QED
      BY <3>1, <3>2, <3>3, InUnderway
  <2> QED
    BY <2>1
<1>12. Held' = [Held EXCEPT ![w] = <<>>]
  BY <1>2, <1>3, <1>5 DEF Held
<1>13. AllOnce(Held')
  <2>1. <<>> \in Seq(Line) /\ Once(<<>>) /\ Elements(<<>>) = {}
    BY DEF Once, Elements
  <2>2. AllOnce(Held)
    BY DEF NoneTwice
  <2> QED
    BY <1>8, <1>12, <2>1, <2>2, TakeBatch
<1>14. NoneTwice'
  <2>1. Once(buf)' /\ AllOnce(channel)'
    BY <1>1 DEF NoneTwice, Once
  <2>2. InBuf' \cap Batches(channel)' = {}
    BY <1>7 DEF NoneTwice
  <2>3. \A v \in Worker : InBatch(v)' \cap (InBuf' \union Batches(channel)') = {}
    BY <1>6, <1>7 DEF NoneTwice
  <2> QED
    BY <1>13, <2>1, <2>2, <2>3 DEF NoneTwice
<1>15. Once(b)
  <2>1. DOMAIN Held = Worker
    BY <1>8
  <2> QED
    BY <1>9, <2>1 DEF NoneTwice, AllOnce, Once
<1>16. IsFiniteSet(InBatch(w)) /\ Cardinality(InBatch(w)) = Len(b)
  BY <1>4, <1>9, <1>15, OnceCounts
<1>17. /\ read \in Nat /\ IsFiniteSet(Underway) /\ IsFiniteSet(Good(read))
       /\ Underway \subseteq Good(read)
       /\ total + Cardinality(Underway) = Cardinality(Good(read))
       /\ total \in Nat /\ Cardinality(Underway) \in Nat /\ Cardinality(Good(read)) \in Nat
  BY Counts
<1>18. InBatch(w) \subseteq Underway
  BY InUnderway
<1>19. /\ IsFiniteSet(Underway \ InBatch(w))
       /\ Cardinality(Underway \ InBatch(w)) = Cardinality(Underway) - Len(b)
  <2>1. Underway \cap InBatch(w) = InBatch(w)
    BY <1>18
  <2>2. /\ IsFiniteSet(Underway \ InBatch(w))
        /\ Cardinality(Underway \ InBatch(w))
             = Cardinality(Underway) - Cardinality(Underway \cap InBatch(w))
    BY <1>17, FS_Difference
  <2> QED
    BY <1>16, <2>1, <2>2
<1>20. total' + Cardinality(Underway') = Cardinality(Good(read))
  BY <1>1, <1>4, <1>11, <1>17, <1>19
<1>21. Good(read)' = Good(read)
  BY <1>1 DEF Good, Skipped
<1>22. Accounting'
  BY <1>11, <1>17, <1>20, <1>21 DEF Accounting
<1>23. total' \in 0..Lines
  <2>1. Cardinality(Good(read)) <= read /\ read <= Lines /\ Lines \in Nat
    BY <1>17, GoodIsFinite, BulkImportAssumption DEF TypeOK, BulkImportAssumption
  <2>2. Cardinality(Underway') \in Nat
    BY <1>11, <1>19, FS_CardinalityType
  <2>3. total' \in Nat
    BY <1>1, <1>4, <1>17
  <2> QED
    BY <1>17, <1>20, <2>1, <2>2, <2>3
<1> QED
  BY <1>5, <1>6, <1>11, <1>14, <1>21, <1>22, <1>23

-----------------------------------------------------------------------------
(* Type correctness. *)

\* The part of the type invariant that the goroutines of the load write.
PipelineType ==
    /\ scanner \in {"reading", "stopped", "closed"} /\ scanErr \in BOOLEAN
    /\ read \in 0..Lines
    /\ buf \in Seq(Line) /\ Len(buf) <= BatchSize
    /\ channel \in Seq(Seq(Line)) /\ Len(channel) <= Capacity
    /\ worker \in [Worker -> [batch : Seq(Line), todo : SUBSET {"pg", "ts", "count"}]]
    /\ total \in 0..Lines

StoreType ==
    /\ tooLong \subseteq TooLong /\ disk \in Absent..Lines
    /\ tail \in {"whole", "short", "torn"} /\ schema \in {"absent", "dirty", "ready"}
    /\ table \in [Record -> {"none", "old", "new"}]
    /\ docs \in [Record -> {"none", "old", "new"}]
    /\ logged \in BOOLEAN /\ indexes \subseteq Index /\ collection \in BOOLEAN

MainType ==
    /\ pc \in {"off", "delete", "collection", "migrate", "create", "created", "table", "indexes",
               "file", "download", "extract", "load", "rebuild"}
    /\ options \in Options
    /\ outcome \in {"none", "done", "failed"}
    /\ runs \in 0..MaxRuns /\ faults \in 0..MaxFaults
    /\ cut \in BOOLEAN /\ wiped \in BOOLEAN /\ rejected \in BOOLEAN

LEMMA TypeParts == TypeOK <=> PipelineType /\ StoreType /\ MainType
BY DEF TypeOK, PipelineType, StoreType, MainType

LEMMA PipelineTypeKept ==
    ASSUME TypeOK, NoneTwice, Accounting, ScannerStopped, [Next]_vars
    PROVE  PipelineType'
<1> USE BulkImportAssumption DEF BulkImportAssumption
<1>1. PipelineType
  BY TypeParts
<1>2. Capacity \in Nat
  BY FS_CardinalityType DEF Capacity
<1>3. ASSUME NEW o, Begin(o) PROVE PipelineType'
  <2>1. /\ scanner' = "reading" /\ scanErr' = FALSE /\ read' = 0 /\ buf' = <<>>
        /\ channel' = <<>> /\ worker' = [w \in Worker |-> Idle] /\ total' = 0
    BY <1>3 DEF Begin
  <2>2. worker' \in [Worker -> [batch : Seq(Line), todo : SUBSET {"pg", "ts", "count"}]]
    BY <2>1 DEF Idle
  <2>3. buf' \in Seq(Line) /\ Len(buf') <= BatchSize
    BY <2>1
  <2>4. channel' \in Seq(Seq(Line)) /\ Len(channel') <= Capacity
    BY <1>2, <2>1
  <2>5. read' \in 0..Lines /\ total' \in 0..Lines
    BY <2>1
  <2>6. scanErr' \in BOOLEAN
    BY Zenon, <2>1
  <2> QED
    BY <2>1, <2>2, <2>3, <2>4, <2>5, <2>6 DEF PipelineType
<1>4. CASE Scan
  <2>1. buf' \in Seq(Line) /\ Len(buf') <= BatchSize
    BY <1>4, ScanKeepsRecords
  <2>2. read' \in 0..Lines
    <3>1. disk \in Int /\ disk <= Lines /\ read \in 0..Lines
      BY DEF TypeOK, Absent
    <3>2. read # disk /\ read <= disk /\ read' = read + 1
      BY <1>4 DEF Scan, AtEnd, ScannerStopped, Loading
    <3> QED
      BY <3>1, <3>2
  <2> QED
    BY <1>1, <1>4, <2>1, <2>2 DEF Scan, PipelineType
<1>5. CASE Send
  <2>1. channel' \in Seq(Seq(Line)) /\ Len(channel') <= Capacity
    BY <1>5, SendKeepsRecords
  <2>2. buf' = <<>> /\ buf' \in Seq(Line) /\ Len(buf') <= BatchSize
    BY <1>5 DEF Send, SendBatch
  <2> QED
    BY <1>1, <1>5, <2>1, <2>2 DEF Send, PipelineType
<1>6. CASE StopScan
  BY <1>1, <1>6 DEF StopScan, PipelineType
<1>7. CASE CloseChannel
  BY <1>1, <1>7 DEF CloseChannel, PipelineType
<1>8. ASSUME NEW w \in Worker, Receive(w) PROVE PipelineType'
  <2>1. /\ channel' \in Seq(Seq(Line)) /\ Len(channel') <= Capacity
        /\ worker' \in [Worker -> [batch : Seq(Line), todo : SUBSET {"pg", "ts", "count"}]]
    BY <1>8, ReceiveKeepsRecords
  <2> QED
    BY <1>1, <1>8, <2>1 DEF Receive, PipelineType
<1>9. ASSUME NEW w \in Worker, PgCopy(w) \/ TsImport(w) PROVE PipelineType'
  <2>1. /\ UNCHANGED <<scanner, scanErr, read, buf, channel, total>>
        /\ worker' \in [Worker -> [batch : Seq(Line), todo : SUBSET {"pg", "ts", "count"}]]
    BY <1>9, TodoStandsStill
  <2> QED
    BY <1>1, <2>1 DEF PipelineType
<1>10. ASSUME NEW w \in Worker, EndBatch(w) PROVE PipelineType'
  <2>1. /\ total' \in 0..Lines
        /\ worker' \in [Worker -> [batch : Seq(Line), todo : SUBSET {"pg", "ts", "count"}]]
    BY <1>10, EndBatchKeepsRecords
  <2> QED
    BY <1>1, <1>10, <2>1 DEF EndBatch, PipelineType
<1>11. CASE Besides
  BY <1>1, <1>11, BesidesStandStill DEF PipelineType
<1> QED
  BY <1>3, <1>4, <1>5, <1>6, <1>7, <1>8, <1>9, <1>10, <1>11, Steps

LEMMA StoreTypeKept ==
    ASSUME TypeOK, [Next]_vars
    PROVE  StoreType'
<1> USE BulkImportAssumption DEF BulkImportAssumption
<1>1. StoreType
  BY TypeParts
<1>2. CASE UNCHANGED <<file, stores>>
  BY <1>1, <1>2 DEF file, stores, typesense, StoreType
<1>3. Empty \in [Record -> {"none", "old", "new"}]
  BY DEF Empty
<1>4. CASE DeleteCollection
  <2>1. docs' \in [Record -> {"none", "old", "new"}] /\ collection' \in BOOLEAN
    <3>1. CASE docs' = (IF Recreates THEN Empty ELSE docs)
               /\ collection' = (collection /\ ~Recreates)
      BY <1>1, <1>3, <3>1 DEF StoreType
    <3>2. CASE UNCHANGED typesense
      BY <1>1, <3>2 DEF StoreType, typesense
    <3> QED
      BY <1>4, <3>1, <3>2 DEF DeleteCollection
  <2> QED
    BY <1>1, <1>4, <2>1 DEF DeleteCollection, StoreType, file
<1>5. CASE InitCollection
  <2>1. collection' \in BOOLEAN
    BY <1>5 DEF InitCollection
  <2> QED
    BY <1>1, <1>5, <2>1 DEF InitCollection, StoreType, file
<1>16. CASE Migrate \/ CreateTable \/ Migrated
  BY <1>1, <1>16 DEF Migrate, CreateTable, Migrated, StoreType, file, typesense
<1>6. CASE PrepareTable
  BY <1>1, <1>3, <1>6 DEF PrepareTable, TruncateTable, StoreType, file, typesense
<1>7. CASE DisableIndexes
  BY <1>1, <1>7 DEF DisableIndexes, DropIndexes, StoreType, file, typesense
<1>8. CASE Download
  BY <1>1, <1>8 DEF Download, StoreType, stores, typesense, Absent
<1>9. CASE Extract
  BY <1>1, <1>9 DEF Extract, StoreType, stores, typesense, Absent
<1>10. ASSUME NEW w \in Worker, PgCopy(w) PROVE StoreType'
  <2>1. table' \in [Record -> {"none", "old", "new"}]
    BY <1>1, <1>10 DEF PgCopy, StoreType
  <2> QED
    BY <1>1, <1>10, <2>1 DEF PgCopy, StoreType, file, typesense
<1>11. ASSUME NEW w \in Worker, TsImport(w) PROVE StoreType'
  <2>1. docs' \in [Record -> {"none", "old", "new"}]
    <3>1. PICK taken \in SUBSET InBatch(w) : docs' = Stored(taken)
      BY <1>11 DEF TsImport
    <3> QED
      BY <1>1, <3>1 DEF Stored, StoreType
  <2> QED
    BY <1>1, <1>11, <2>1 DEF TsImport, StoreType, file
<1>12. ASSUME NEW i \in Index, CreateIndex(i) PROVE StoreType'
  BY <1>1, <1>12 DEF CreateIndex, StoreType, file, typesense
<1>13. CASE Finish
  <2>1. logged' \in BOOLEAN
    BY <1>13 DEF Finish
  <2> QED
    BY <1>1, <1>13, <2>1 DEF Finish, StoreType, file, typesense
<1>14. CASE PostgresCrash
  <2>1. table' \in [Record -> {"none", "old", "new"}]
    BY <1>1, <1>3, <1>14 DEF PostgresCrash, StoreType
  <2> QED
    BY <1>1, <1>14, <2>1 DEF PostgresCrash, StoreType, file, typesense
<1>15. ASSUME \/ \E o \in Options : Begin(o)
              \/ FindFile \/ Scan \/ Send \/ StopScan \/ CloseChannel
              \/ \E w \in Worker : Receive(w) \/ EndBatch(w)
              \/ Join \/ Die \/ UNCHANGED vars
       PROVE  UNCHANGED <<file, stores>>
  BY <1>15 DEF Begin, FindFile, Scan, Send, StopScan, CloseChannel, Receive, EndBatch, Join, Die,
               vars
<1> QED
  BY <1>2, <1>4, <1>5, <1>6, <1>7, <1>8, <1>9, <1>10, <1>11, <1>12, <1>13, <1>14, <1>15, <1>16,
     Steps
  DEF Besides

LEMMA MainTypeKept ==
    ASSUME TypeOK, [Next]_vars
    PROVE  MainType'
<1> USE BulkImportAssumption DEF BulkImportAssumption
<1>1. MainType /\ MaxRuns \in Nat /\ MaxFaults \in Nat
  BY TypeParts
<1>2. ASSUME NEW o \in Options, Begin(o) PROVE MainType'
  <2>1. wiped' \in BOOLEAN /\ rejected' \in BOOLEAN
    BY Zenon, <1>2 DEF Begin
  <2>2. runs' \in 0..MaxRuns
    BY <1>1, <1>2 DEF Begin, MainType
  <2> QED
    BY <1>1, <1>2, <2>1, <2>2 DEF Begin, Goto, MainType
<1>3. ASSUME Scan \/ Send \/ StopScan \/ CloseChannel \/ \E w \in Worker : Receive(w) \/ EndBatch(w)
      PROVE  UNCHANGED <<pc, options, outcome, history>>
  BY <1>3 DEF Scan, Send, StopScan, CloseChannel, Receive, EndBatch
<1>4. CASE UNCHANGED <<pc, options, outcome, history>>
  BY <1>1, <1>4 DEF MainType, history
<1>5. ASSUME NEW w \in Worker, PgCopy(w) PROVE MainType'
  BY <1>1, <1>5 DEF PgCopy, End, MainType, history
<1>6. ASSUME NEW kind, Fault(kind) \/ UNCHANGED faults PROVE faults' \in 0..MaxFaults
  BY <1>1, <1>6 DEF Fault, MainType
<1>7. ASSUME NEW w \in Worker, TsImport(w) PROVE MainType'
  <2>1. faults' \in 0..MaxFaults /\ rejected' \in BOOLEAN
    BY <1>6, <1>7 DEF TsImport
  <2> QED
    BY <1>1, <1>7, <2>1 DEF TsImport, MainType
<1>8. CASE DeleteCollection
  <2>1. faults' \in 0..MaxFaults /\ rejected' \in BOOLEAN
    <3>1. CASE UNCHANGED <<faults, rejected>>
      BY <1>1, <3>1 DEF MainType
    <3>2. CASE Fault("delete") /\ rejected' = TRUE
      BY <1>6, <3>2
    <3> QED
      BY <1>8, <3>1, <3>2 DEF DeleteCollection
  <2> QED
    BY <1>1, <1>8, <2>1 DEF DeleteCollection, Goto, MainType
<1>9. CASE \/ InitCollection \/ PrepareTable \/ DisableIndexes
           \/ FindFile \/ Download \/ Extract
  BY <1>1, <1>9 DEF InitCollection, PrepareTable, DisableIndexes, FindFile, Download, Extract,
                    Goto, MainType, history
<1>14. CASE Migrate \/ CreateTable \/ Migrated
  BY <1>1, <1>14 DEF Migrate, CreateTable, Migrated, Goto, End, MainType, history
<1>10. CASE Join \/ (\E i \in Index : CreateIndex(i)) \/ Finish
  BY <1>1, <1>10 DEF Join, CreateIndex, Finish, End, MainType, history
<1>11. CASE Die
  <2>1. faults' \in 0..MaxFaults /\ cut' \in BOOLEAN
    BY <1>6, <1>11 DEF Die
  <2> QED
    BY <1>1, <1>11, <2>1 DEF Die, End, MainType
<1>12. CASE PostgresCrash
  <2>1. faults' \in 0..MaxFaults /\ wiped' \in BOOLEAN
    BY <1>6, <1>12 DEF PostgresCrash
  <2> QED
    BY <1>1, <1>12, <2>1 DEF PostgresCrash, MainType
<1>13. CASE UNCHANGED vars
  BY <1>1, <1>13 DEF vars, MainType, history
<1> QED
  BY <1>2, <1>3, <1>4, <1>5, <1>7, <1>8, <1>9, <1>10, <1>11, <1>12, <1>13, <1>14, Steps DEF Besides

-----------------------------------------------------------------------------
(* The file, the scanner and main. *)

LEMMA FreshKept ==
    ASSUME Fresh, [Next]_vars
    PROVE  Fresh'
<1>1. ASSUME NEW o, Begin(o) PROVE Fresh'
  BY <1>1 DEF Begin, Fresh
<1>2. ASSUME pc = "load", UNCHANGED pc \/ pc' = "off" PROVE Fresh'
  BY <1>2 DEF Fresh, Preparing, Migrating
<1>3. ASSUME Besides PROVE Fresh'
  <2>1. pc' \in Preparing => pc \in Preparing
    BY <1>3 DEF Besides, DeleteCollection, InitCollection, Migrate, CreateTable, Migrated,
                PrepareTable, DisableIndexes, FindFile, Download, Extract, Join, CreateIndex,
                Finish, Die, PostgresCrash, Goto, End, Preparing, Migrating, vars
  <2> QED
    BY <1>3, <2>1, BesidesStandStill DEF Fresh
<1> QED
  BY <1>1, <1>2, <1>3, Steps, LoadSteps

LEMMA FileIsWholeKept ==
    ASSUME TypeOK, FileIsWhole, [Next]_vars
    PROVE  FileIsWhole'
<1> USE BulkImportAssumption DEF BulkImportAssumption
<1>1. disk \in Int /\ disk <= Lines /\ Lines \in Nat /\ Lines # Absent
  BY DEF TypeOK, Absent
<1>2. ASSUME NEW o, Begin(o) PROVE FileIsWhole'
  BY <1>2 DEF Begin, Goto, FileIsWhole, file
<1>3. ASSUME pc = "load", UNCHANGED <<file, cut>>, UNCHANGED pc \/ pc' = "off" PROVE FileIsWhole'
  BY <1>3 DEF FileIsWhole, file
<1>4. CASE DeleteCollection \/ InitCollection \/ PrepareTable \/ DisableIndexes
  BY <1>4 DEF DeleteCollection, InitCollection, PrepareTable, DisableIndexes, Goto, FileIsWhole,
              file, history
<1>9. CASE Migrate \/ CreateTable \/ Migrated
  BY <1>9 DEF Migrate, CreateTable, Migrated, Goto, End, FileIsWhole, file, history
<1>5. CASE FindFile \/ Download
  BY <1>5 DEF FindFile, Download, Goto, FileIsWhole, file, history
<1>6. CASE Extract
  BY <1>1, <1>6 DEF Extract, FileIsWhole, history
<1>7. CASE Join \/ (\E i \in Index : CreateIndex(i)) \/ Finish
  BY <1>7 DEF Join, CreateIndex, Finish, End, Loading, FileIsWhole, file, history
<1>8. CASE Die \/ PostgresCrash \/ UNCHANGED vars
  BY <1>8 DEF Die, PostgresCrash, End, FileIsWhole, file, vars, history
<1> QED
  BY <1>2, <1>3, <1>4, <1>5, <1>6, <1>7, <1>8, <1>9, Steps, LoadSteps DEF Besides

LEMMA ScannerStoppedKept ==
    ASSUME TypeOK, Fresh, FileIsWhole, ScannerStopped, [Next]_vars
    PROVE  ScannerStopped'
<1> USE BulkImportAssumption DEF BulkImportAssumption
<1>1. disk \in Int /\ disk <= Lines /\ Lines \in Nat /\ read \in Nat /\ (disk # Absent => disk >= 0)
  BY DEF TypeOK, Absent
<1>2. ASSUME NEW o, Begin(o) PROVE ScannerStopped'
  BY <1>2 DEF Begin, Goto, ScannerStopped
<1>3. CASE Scan
  <2>1. /\ read' = read + 1 /\ ~OverLong(read + 1) /\ read # disk /\ pc = "load"
        /\ scanner = "reading" /\ UNCHANGED <<tooLong, disk, tail, scanner, pc>>
    BY <1>3 DEF Scan, AtEnd, Loading, file
  <2>2. read <= disk /\ \A n \in 1..read : ~OverLong(n)
    BY <2>1 DEF ScannerStopped
  <2>3. read' <= disk
    BY <1>1, <2>1, <2>2
  <2>4. 1..(read + 1) = (1..read) \union {read + 1}
    BY <1>1
  <2> QED
    BY <2>1, <2>2, <2>3, <2>4 DEF ScannerStopped, OverLong
<1>4. CASE Send
  BY <1>4 DEF Send, SendBatch, ScannerStopped, OverLong, file
<1>5. CASE StopScan
  BY <1>5 DEF StopScan, ScannerStopped, AtEnd, OverLong, Loading, file
<1>6. CASE CloseChannel
  BY <1>6 DEF CloseChannel, ScannerStopped, AtEnd, OverLong, Loading, file
<1>7. ASSUME UNCHANGED <<tooLong, disk, tail, scanner, scanErr, read, buf>>,
             pc' \in {"load", "rebuild"} => pc \in {"load", "rebuild"}
      PROVE  ScannerStopped'
  BY <1>7 DEF ScannerStopped, AtEnd, OverLong
<1>8. ASSUME NEW w \in Worker, Receive(w) \/ EndBatch(w)
      PROVE  UNCHANGED <<tooLong, disk, tail, scanner, scanErr, read, buf, pc>>
  BY <1>8 DEF Receive, EndBatch, file
<1>9. ASSUME NEW w \in Worker, PgCopy(w) \/ TsImport(w)
      PROVE  /\ UNCHANGED <<tooLong, disk, tail, scanner, scanErr, read, buf>>
             /\ pc' \in {"load", "rebuild"} => pc \in {"load", "rebuild"}
  BY <1>9, LoadSteps, TodoStandsStill DEF file
<1>10. CASE FindFile \/ Extract
  <2>1. /\ UNCHANGED <<tooLong, scanner, scanErr, read, buf>>
        /\ read = 0 /\ scanner = "reading"
        /\ pc' \in {"load", "rebuild"} => disk' >= 0
    BY <1>1, <1>10, BesidesStandStill DEF Besides, FindFile, Extract, Fresh, Preparing, file
  <2> QED
    BY <2>1 DEF ScannerStopped
<1>11. CASE Download
  <2>1. read' = 0 /\ pc' = "extract"
    BY <1>11, BesidesStandStill DEF Besides, Download, Goto, Fresh, Preparing
  <2> QED
    BY <2>1 DEF ScannerStopped
<1>12. ASSUME \/ DeleteCollection \/ InitCollection \/ Migrate \/ CreateTable \/ Migrated
              \/ PrepareTable \/ DisableIndexes
              \/ Join \/ (\E i \in Index : CreateIndex(i)) \/ Finish
              \/ Die \/ PostgresCrash \/ UNCHANGED vars
       PROVE  /\ UNCHANGED <<tooLong, disk, tail>>
              /\ pc' \in {"load", "rebuild"} => pc \in {"load", "rebuild"}
  BY <1>12 DEF DeleteCollection, InitCollection, Migrate, CreateTable, Migrated, PrepareTable,
               DisableIndexes, Join, CreateIndex, Finish, Die, PostgresCrash, Goto, End, Loading,
               vars, file
<1> QED
  BY <1>2, <1>3, <1>4, <1>5, <1>6, <1>7, <1>8, <1>9, <1>10, <1>11, <1>12, Steps,
     BesidesStandStill DEF Besides

LEMMA MainGotHereKept ==
    ASSUME MainGotHere, [Next]_vars
    PROVE  MainGotHere'
<1>1. ASSUME NEW o, Begin(o) PROVE MainGotHere'
  BY <1>1 DEF Begin, Goto, MainGotHere, Migrating
<1>2. ASSUME pc = "load", UNCHANGED <<options, collection, schema>>,
             UNCHANGED <<pc, outcome>> \/ (pc' = "off" /\ outcome' = "failed")
      PROVE  MainGotHere'
  BY <1>2 DEF MainGotHere, Migrating
<1>3. CASE DeleteCollection \/ InitCollection
  BY <1>3 DEF DeleteCollection, InitCollection, Goto, MainGotHere, Migrating
<1>10. CASE Migrate \/ CreateTable \/ Migrated
  BY <1>10 DEF Migrate, CreateTable, Migrated, Goto, End, MainGotHere, Migrating, typesense
<1>4. CASE PrepareTable \/ DisableIndexes \/ FindFile \/ Download \/ Extract
  BY <1>4 DEF PrepareTable, DisableIndexes, FindFile, Download, Extract, Goto, MainGotHere,
              Migrating, stores, typesense
<1>5. ASSUME UNCHANGED <<scanner, channel, worker>>, WorkersDone PROVE WorkersDone'
  BY <1>5 DEF WorkersDone
<1>6. CASE Join
  BY <1>5, <1>6, BesidesStandStill DEF Besides, Join, End, Loading, MainGotHere, Migrating,
                                   stores, typesense
<1>7. CASE \E i \in Index : CreateIndex(i)
  BY <1>5, <1>7, BesidesStandStill DEF Besides, CreateIndex, MainGotHere, Migrating, typesense
<1>8. CASE Finish \/ Die
  BY <1>8 DEF Finish, Die, End, MainGotHere, Migrating
<1>9. CASE PostgresCrash \/ UNCHANGED vars
  BY <1>5, <1>9, BesidesStandStill DEF Besides, PostgresCrash, MainGotHere, vars, stores, typesense
<1> QED
  BY <1>1, <1>2, <1>3, <1>4, <1>6, <1>7, <1>8, <1>9, <1>10, Steps, LoadSteps
  DEF Besides

-----------------------------------------------------------------------------
(* The stores. *)

LEMMA RecordsAreRecords ==
    ASSUME TypeOK
    PROVE  Good(read) \subseteq Record /\ \A w \in Worker : InBatch(w) \subseteq Record
<1> USE BulkImportAssumption DEF BulkImportAssumption
<1>1. read \in 0..Lines /\ Lines \in Nat
  BY DEF TypeOK
<1>2. 1..read \subseteq 1..Lines
  BY <1>1
<1>3. Good(read) \subseteq Record
  BY <1>2 DEF Good, Record, Line
<1>4. ASSUME NEW w \in Worker PROVE InBatch(w) \subseteq Record
  <2>1. worker[w].batch \in Seq(Line)
    BY DEF TypeOK
  <2>2. \A i \in DOMAIN worker[w].batch : worker[w].batch[i] \in Line
    BY <2>1
  <2> QED
    BY <2>2 DEF InBatch, Record
<1> QED
  BY <1>3, <1>4

\* A store that only gains records, of batches that stay what they are.
LEMMA ArrivedKept ==
    ASSUME TypeOK, NEW s, NEW rows, NEW after, Arrived(rows, s),
           \A r \in Record : rows[r] = "new" => after[r] = "new",
           Good(read') \ Underway' \subseteq Good(read) \ Underway,
           \A w \in Worker : /\ InBatch(w)' = InBatch(w)
                             /\ \/ s \in worker'[w].todo
                                \/ s \notin worker[w].todo
                                \/ StoredIn(after, InBatch(w))
    PROVE  /\ StoredIn(after, Good(read') \ Underway')
           /\ \A w \in Worker : s \notin worker'[w].todo => StoredIn(after, InBatch(w)')
<1>1. Good(read) \subseteq Record /\ \A w \in Worker : InBatch(w) \subseteq Record
  BY RecordsAreRecords
<1>2. \A r \in Good(read) \ Underway : rows[r] = "new"
  BY DEF Arrived, StoredIn
<1>3. StoredIn(after, Good(read') \ Underway')
  BY <1>1, <1>2 DEF StoredIn
<1>4. ASSUME NEW w \in Worker, s \notin worker'[w].todo PROVE StoredIn(after, InBatch(w)')
  <2>1. CASE StoredIn(after, InBatch(w))
    BY <2>1
  <2>2. CASE s \notin worker[w].todo
    <3>1. StoredIn(rows, InBatch(w))
      BY <2>2 DEF Arrived
    <3> QED
      BY <1>1, <3>1 DEF StoredIn
  <2> QED
    BY <1>4, <2>1, <2>2
<1> QED
  BY <1>3, <1>4

LEMMA ArrivedPrimed ==
    ASSUME NEW s, Fresh, [Next]_vars
    PROVE  /\ (/\ StoredIn(table', Good(read') \ Underway')
               /\ \A w \in Worker : s \notin worker'[w].todo => StoredIn(table', InBatch(w)'))
                => Arrived(table, s)'
           /\ (/\ StoredIn(docs', Good(read') \ Underway')
               /\ \A w \in Worker : s \notin worker'[w].todo => StoredIn(docs', InBatch(w)'))
                => Arrived(docs, s)'
BY GoodPrimed DEF Arrived, StoredIn

LEMMA TableSoFar ==
    ASSUME TypeOK, NoneTwice, Accounting, Fresh, ScannerStopped, StoredSoFar, [Next]_vars,
           options'.pg, ~wiped'
    PROVE  Arrived(table, "pg")'
<1>1. options.pg /\ ~wiped => Arrived(table, "pg")
  BY DEF StoredSoFar
<1>2. Good(read)' = Good(read')
  BY GoodPrimed
<1>3. ASSUME Good(read') = {}, \A w \in Worker : InBatch(w)' = {}
      PROVE  Arrived(table, "pg")'
  BY <1>2, <1>3 DEF Arrived, StoredIn
<1>4. ASSUME options.pg, ~wiped,
             \A r \in Record : table[r] = "new" => table'[r] = "new",
             Good(read') \ Underway' \subseteq Good(read) \ Underway,
             \A w \in Worker : /\ InBatch(w)' = InBatch(w)
                               /\ \/ "pg" \in worker'[w].todo
                                  \/ "pg" \notin worker[w].todo
                                  \/ StoredIn(table', InBatch(w))
      PROVE  Arrived(table, "pg")'
  <2>1. Arrived(table, "pg")
    BY <1>1, <1>4
  <2>2. /\ StoredIn(table', Good(read') \ Underway')
        /\ \A w \in Worker : "pg" \notin worker'[w].todo => StoredIn(table', InBatch(w)')
    BY <1>4, <2>1, ArrivedKept
  <2> QED
    BY <2>2, ArrivedPrimed
<1>5. ASSUME options.pg, ~wiped, UNCHANGED <<table, buf, channel, worker, read>>
      PROVE  Arrived(table, "pg")'
  <2>1. Underway' = Underway /\ \A w \in Worker : InBatch(w)' = InBatch(w)
    BY <1>5, SameRecords
  <2> QED
    BY <1>4, <1>5, <2>1
<1>6. ASSUME NEW o, Begin(o) PROVE Arrived(table, "pg")'
  BY <1>3, <1>6, BeginKeepsRecords
<1>7. CASE Scan
  <2>1. options.pg /\ ~wiped /\ UNCHANGED <<table, worker>>
    BY <1>7 DEF Scan, stores, history
  <2>2. /\ Good(read') \ Underway' \subseteq Good(read) \ Underway
        /\ \A w \in Worker : InBatch(w)' = InBatch(w)
    BY <1>7, ScanKeepsRecords
  <2> QED
    BY <1>4, <2>1, <2>2
<1>8. CASE Send
  <2>1. options.pg /\ ~wiped /\ UNCHANGED <<table, worker, read>>
    BY <1>8 DEF Send, stores, history
  <2>2. Underway' = Underway /\ \A w \in Worker : InBatch(w)' = InBatch(w)
    BY <1>8, SendKeepsRecords
  <2> QED
    BY <1>4, <2>1, <2>2
<1>9. CASE StopScan \/ CloseChannel
  BY <1>5, <1>9 DEF StopScan, CloseChannel, stores, history
<1>10. ASSUME NEW w \in Worker, Receive(w) PROVE Arrived(table, "pg")'
  <2>1. options.pg /\ ~wiped /\ UNCHANGED <<table, read>>
    BY <1>10 DEF Receive, stores, history
  <2>2. /\ Underway' = Underway
        /\ \A v \in Worker \ {w} : worker'[v] = worker[v] /\ InBatch(v)' = InBatch(v)
        /\ worker'[w].todo = { s \in {"pg", "ts"} : options[s] } \union {"count"}
    BY <1>10, ReceiveKeepsRecords
  <2>3. "pg" \in worker'[w].todo
    <3>1. options \in [truncate : BOOLEAN, pg : BOOLEAN, ts : BOOLEAN]
      BY BulkImportAssumption DEF BulkImportAssumption, TypeOK
    <3>2. options["pg"]
      BY <2>1, <3>1
    <3> QED
      BY <2>2, <3>2
  <2>4. \A v \in Worker \ {w} : "pg" \notin worker[v].todo => StoredIn(table, InBatch(v))
    BY <1>1, <2>1 DEF Arrived
  <2>5. StoredIn(table', Good(read') \ Underway')
    BY <1>1, <1>2, <2>1, <2>2 DEF Arrived, StoredIn
  <2>6. \A v \in Worker : "pg" \notin worker'[v].todo => StoredIn(table', InBatch(v)')
    BY <2>1, <2>2, <2>3, <2>4 DEF StoredIn
  <2> QED
    BY <2>5, <2>6, ArrivedPrimed
<1>11. ASSUME NEW w \in Worker, PgCopy(w) PROVE Arrived(table, "pg")'
  <2>1. options.pg /\ ~wiped
    BY <1>11 DEF PgCopy, history
  <2>2. UNCHANGED <<buf, channel, read>> /\ \A v \in Worker : worker'[v].batch = worker[v].batch
    BY <1>11, TodoStandsStill
  <2>3. Underway' = Underway /\ \A v \in Worker : InBatch(v)' = InBatch(v)
    BY <2>2, SameRecords
  <2>4. CASE UNCHANGED <<table, worker>>
    BY <1>5, <2>1, <2>2, <2>4
  <2>5. CASE /\ table' = [r \in Record |-> IF r \in InBatch(w) THEN "new" ELSE table[r]]
             /\ Through(w, "pg")
    <3>1. worker \in [Worker -> [batch : Seq(Line), todo : SUBSET {"pg", "ts", "count"}]]
      BY DEF TypeOK
    <3>2. \A v \in Worker \ {w} : worker'[v].todo = worker[v].todo
      BY <2>5, <3>1 DEF Through
    <3>3. StoredIn(table', InBatch(w))
      BY <2>5, RecordsAreRecords DEF StoredIn
    <3>4. \A r \in Record : table[r] = "new" => table'[r] = "new"
      BY <2>5
    <3> QED
      BY <1>4, <2>1, <2>2, <2>3, <3>2, <3>3, <3>4
  <2> QED
    BY <1>11, <2>4, <2>5 DEF PgCopy
<1>12. ASSUME NEW w \in Worker, TsImport(w) PROVE Arrived(table, "pg")'
  <2>1. options.pg /\ ~wiped /\ UNCHANGED table
    BY <1>12 DEF TsImport
  <2>2. UNCHANGED <<buf, channel, read>> /\ \A v \in Worker : worker'[v].batch = worker[v].batch
    BY <1>12, TodoStandsStill
  <2>3. Underway' = Underway /\ \A v \in Worker : InBatch(v)' = InBatch(v)
    BY <2>2, SameRecords
  <2>4. \A v \in Worker : "pg" \in worker[v].todo => "pg" \in worker'[v].todo
    <3>1. worker \in [Worker -> [batch : Seq(Line), todo : SUBSET {"pg", "ts", "count"}]]
      BY DEF TypeOK
    <3>2. UNCHANGED worker \/ worker' = [worker EXCEPT ![w].todo = @ \ {"ts"}]
      BY <1>12 DEF TsImport, Through
    <3>3. CASE worker' = [worker EXCEPT ![w].todo = @ \ {"ts"}]
      <4>1. /\ worker'[w].todo = worker[w].todo \ {"ts"}
            /\ \A v \in Worker \ {w} : worker'[v].todo = worker[v].todo
        BY <3>1, <3>3
      <4> QED
        BY <4>1
    <3> QED
      BY <3>2, <3>3
  <2> QED
    BY <1>4, <2>1, <2>2, <2>3, <2>4
<1>13. ASSUME NEW w \in Worker, EndBatch(w) PROVE Arrived(table, "pg")'
  <2>1. options.pg /\ ~wiped /\ UNCHANGED <<table, read>> /\ worker[w].todo = {"count"}
    BY <1>13 DEF EndBatch, stores, history
  <2>2. /\ Underway' = Underway \ InBatch(w) /\ InBatch(w)' = {}
        /\ \A v \in Worker \ {w} : worker'[v] = worker[v] /\ InBatch(v)' = InBatch(v)
    BY <1>13, EndBatchKeepsRecords
  <2>3. /\ StoredIn(table, Good(read) \ Underway)
        /\ \A v \in Worker : "pg" \notin worker[v].todo => StoredIn(table, InBatch(v))
    BY <1>1, <2>1 DEF Arrived
  <2>4. StoredIn(table, InBatch(w))
    BY <2>1, <2>3
  <2>5. StoredIn(table', Good(read') \ Underway')
    BY <2>1, <2>2, <2>3, <2>4 DEF StoredIn
  <2>6. \A v \in Worker : "pg" \notin worker'[v].todo => StoredIn(table', InBatch(v)')
    BY <2>1, <2>2, <2>3 DEF StoredIn
  <2> QED
    BY <2>5, <2>6, ArrivedPrimed
<1>14. CASE Besides
  <2>1. UNCHANGED <<buf, channel, worker, read, options>>
    BY <1>14, BesidesStandStill
  <2>2. CASE PrepareTable
    <3>1. read = 0 /\ \A w \in Worker : worker[w] = Idle
      BY <2>2 DEF PrepareTable, Goto, Fresh, Preparing
    <3>2. Good(read') = {} /\ \A w \in Worker : InBatch(w)' = {}
      BY <2>1, <3>1 DEF Good, InBatch, Idle
    <3> QED
      BY <1>3, <3>2
  <2>3. ASSUME Besides, ~PrepareTable, ~PostgresCrash PROVE ~wiped /\ UNCHANGED table
    BY <2>3 DEF Besides, DeleteCollection, InitCollection, Migrate, CreateTable, Migrated,
                DisableIndexes, FindFile, Download, Extract, Join, CreateIndex, Finish, Die, stores,
                typesense, history, vars
  <2>4. CASE PostgresCrash
    <3>1. wiped' = (wiped \/ ~logged) /\ table' = IF logged THEN table ELSE Empty
      BY <2>4 DEF PostgresCrash, typesense
    <3>2. ~wiped /\ UNCHANGED table
      BY Zenon, <3>1
    <3> QED
      BY <1>5, <2>1, <3>2
  <2> QED
    BY <1>5, <1>14, <2>1, <2>2, <2>3, <2>4
<1> QED
  BY <1>6, <1>7, <1>8, <1>9, <1>10, <1>11, <1>12, <1>13, <1>14, Steps

LEMMA DocsSoFar ==
    ASSUME TypeOK, NoneTwice, Accounting, Fresh, ScannerStopped, StoredSoFar, [Next]_vars,
           options'.ts, ~rejected'
    PROVE  Arrived(docs, "ts")'
<1>1. options.ts /\ ~rejected => Arrived(docs, "ts")
  BY DEF StoredSoFar
<1>2. Good(read)' = Good(read')
  BY GoodPrimed
<1>3. ASSUME Good(read') = {}, \A w \in Worker : InBatch(w)' = {}
      PROVE  Arrived(docs, "ts")'
  BY <1>2, <1>3 DEF Arrived, StoredIn
<1>4. ASSUME options.ts, ~rejected,
             \A r \in Record : docs[r] = "new" => docs'[r] = "new",
             Good(read') \ Underway' \subseteq Good(read) \ Underway,
             \A w \in Worker : /\ InBatch(w)' = InBatch(w)
                               /\ \/ "ts" \in worker'[w].todo
                                  \/ "ts" \notin worker[w].todo
                                  \/ StoredIn(docs', InBatch(w))
      PROVE  Arrived(docs, "ts")'
  <2>1. Arrived(docs, "ts")
    BY <1>1, <1>4
  <2>2. /\ StoredIn(docs', Good(read') \ Underway')
        /\ \A w \in Worker : "ts" \notin worker'[w].todo => StoredIn(docs', InBatch(w)')
    BY <1>4, <2>1, ArrivedKept
  <2> QED
    BY <2>2, ArrivedPrimed
<1>5. ASSUME options.ts, ~rejected, UNCHANGED <<docs, buf, channel, worker, read>>
      PROVE  Arrived(docs, "ts")'
  <2>1. Underway' = Underway /\ \A w \in Worker : InBatch(w)' = InBatch(w)
    BY <1>5, SameRecords
  <2> QED
    BY <1>4, <1>5, <2>1
<1>6. ASSUME NEW o, Begin(o) PROVE Arrived(docs, "ts")'
  BY <1>3, <1>6, BeginKeepsRecords
<1>7. CASE Scan
  <2>1. options.ts /\ ~rejected /\ UNCHANGED <<docs, worker>>
    BY <1>7 DEF Scan, stores, typesense, history
  <2>2. /\ Good(read') \ Underway' \subseteq Good(read) \ Underway
        /\ \A w \in Worker : InBatch(w)' = InBatch(w)
    BY <1>7, ScanKeepsRecords
  <2> QED
    BY <1>4, <2>1, <2>2
<1>8. CASE Send
  <2>1. options.ts /\ ~rejected /\ UNCHANGED <<docs, worker, read>>
    BY <1>8 DEF Send, stores, typesense, history
  <2>2. Underway' = Underway /\ \A w \in Worker : InBatch(w)' = InBatch(w)
    BY <1>8, SendKeepsRecords
  <2> QED
    BY <1>4, <2>1, <2>2
<1>9. CASE StopScan \/ CloseChannel
  BY <1>5, <1>9 DEF StopScan, CloseChannel, stores, typesense, history
<1>10. ASSUME NEW w \in Worker, Receive(w) PROVE Arrived(docs, "ts")'
  <2>1. options.ts /\ ~rejected /\ UNCHANGED <<docs, read>>
    BY <1>10 DEF Receive, stores, typesense, history
  <2>2. /\ Underway' = Underway
        /\ \A v \in Worker \ {w} : worker'[v] = worker[v] /\ InBatch(v)' = InBatch(v)
        /\ worker'[w].todo = { s \in {"pg", "ts"} : options[s] } \union {"count"}
    BY <1>10, ReceiveKeepsRecords
  <2>3. "ts" \in worker'[w].todo
    <3>1. options \in [truncate : BOOLEAN, pg : BOOLEAN, ts : BOOLEAN]
      BY BulkImportAssumption DEF BulkImportAssumption, TypeOK
    <3>2. options["ts"]
      BY <2>1, <3>1
    <3> QED
      BY <2>2, <3>2
  <2>4. \A v \in Worker \ {w} : "ts" \notin worker[v].todo => StoredIn(docs, InBatch(v))
    BY <1>1, <2>1 DEF Arrived
  <2>5. StoredIn(docs', Good(read') \ Underway')
    BY <1>1, <1>2, <2>1, <2>2 DEF Arrived, StoredIn
  <2>6. \A v \in Worker : "ts" \notin worker'[v].todo => StoredIn(docs', InBatch(v)')
    BY <2>1, <2>2, <2>3, <2>4 DEF StoredIn
  <2> QED
    BY <2>5, <2>6, ArrivedPrimed
<1>11. ASSUME NEW w \in Worker, TsImport(w) PROVE Arrived(docs, "ts")'
  <2>1. /\ options.ts /\ ~rejected /\ Through(w, "ts")
        /\ \A r \in InBatch(w) : docs'[r] = "new"
        /\ \E taken \in SUBSET InBatch(w) : docs' = Stored(taken)
    BY <1>11 DEF TsImport
  <2>2. UNCHANGED <<buf, channel, read>> /\ \A v \in Worker : worker'[v].batch = worker[v].batch
    BY <1>11, TodoStandsStill
  <2>3. Underway' = Underway /\ \A v \in Worker : InBatch(v)' = InBatch(v)
    BY <2>2, SameRecords
  <2>4. worker \in [Worker -> [batch : Seq(Line), todo : SUBSET {"pg", "ts", "count"}]]
    BY DEF TypeOK
  <2>5. \A v \in Worker \ {w} : worker'[v].todo = worker[v].todo
    BY <2>1, <2>4 DEF Through
  <2>6. StoredIn(docs', InBatch(w))
    BY <2>1 DEF StoredIn
  <2>7. \A r \in Record : docs[r] = "new" => docs'[r] = "new"
    BY <2>1 DEF Stored
  <2> QED
    BY <1>4, <2>1, <2>2, <2>3, <2>5, <2>6, <2>7
<1>12. ASSUME NEW w \in Worker, PgCopy(w) PROVE Arrived(docs, "ts")'
  <2>1. options.ts /\ ~rejected /\ UNCHANGED docs
    BY <1>12 DEF PgCopy, typesense, history
  <2>2. UNCHANGED <<buf, channel, read>> /\ \A v \in Worker : worker'[v].batch = worker[v].batch
    BY <1>12, TodoStandsStill
  <2>3. Underway' = Underway /\ \A v \in Worker : InBatch(v)' = InBatch(v)
    BY <2>2, SameRecords
  <2>4. \A v \in Worker : "ts" \in worker[v].todo => "ts" \in worker'[v].todo
    <3>1. worker \in [Worker -> [batch : Seq(Line), todo : SUBSET {"pg", "ts", "count"}]]
      BY DEF TypeOK
    <3>2. UNCHANGED worker \/ worker' = [worker EXCEPT ![w].todo = @ \ {"pg"}]
      BY <1>12 DEF PgCopy, Through
    <3>3. CASE worker' = [worker EXCEPT ![w].todo = @ \ {"pg"}]
      <4>1. /\ worker'[w].todo = worker[w].todo \ {"pg"}
            /\ \A v \in Worker \ {w} : worker'[v].todo = worker[v].todo
        BY <3>1, <3>3
      <4> QED
        BY <4>1
    <3> QED
      BY <3>2, <3>3
  <2> QED
    BY <1>4, <2>1, <2>2, <2>3, <2>4
<1>13. ASSUME NEW w \in Worker, EndBatch(w) PROVE Arrived(docs, "ts")'
  <2>1. options.ts /\ ~rejected /\ UNCHANGED <<docs, read>> /\ worker[w].todo = {"count"}
    BY <1>13 DEF EndBatch, stores, typesense, history
  <2>2. /\ Underway' = Underway \ InBatch(w) /\ InBatch(w)' = {}
        /\ \A v \in Worker \ {w} : worker'[v] = worker[v] /\ InBatch(v)' = InBatch(v)
    BY <1>13, EndBatchKeepsRecords
  <2>3. /\ StoredIn(docs, Good(read) \ Underway)
        /\ \A v \in Worker : "ts" \notin worker[v].todo => StoredIn(docs, InBatch(v))
    BY <1>1, <2>1 DEF Arrived
  <2>4. StoredIn(docs, InBatch(w))
    BY <2>1, <2>3
  <2>5. StoredIn(docs', Good(read') \ Underway')
    BY <2>1, <2>2, <2>3, <2>4 DEF StoredIn
  <2>6. \A v \in Worker : "ts" \notin worker'[v].todo => StoredIn(docs', InBatch(v)')
    BY <2>1, <2>2, <2>3 DEF StoredIn
  <2> QED
    BY <2>5, <2>6, ArrivedPrimed
<1>14. CASE Besides
  <2>1. UNCHANGED <<buf, channel, worker, read, options>>
    BY <1>14, BesidesStandStill
  <2>2. CASE DeleteCollection
    <3>1. read = 0 /\ \A w \in Worker : worker[w] = Idle
      BY <2>2 DEF DeleteCollection, Goto, Fresh, Preparing
    <3>2. Good(read') = {} /\ \A w \in Worker : InBatch(w)' = {}
      BY <2>1, <3>1 DEF Good, InBatch, Idle
    <3> QED
      BY <1>3, <3>2
  <2>3. ASSUME Besides, ~DeleteCollection, ~PostgresCrash PROVE ~rejected /\ UNCHANGED docs
    BY <2>3 DEF Besides, PrepareTable, InitCollection, Migrate, CreateTable, Migrated,
                DisableIndexes, FindFile, Download, Extract, Join, CreateIndex, Finish, Die, stores,
                typesense, history, vars
  <2>4. CASE PostgresCrash
    <3>1. UNCHANGED <<docs, rejected>>
      BY <2>4 DEF PostgresCrash, typesense
    <3>2. ~rejected /\ UNCHANGED docs
      BY Zenon, <3>1
    <3> QED
      BY <1>5, <2>1, <3>2
  <2> QED
    BY <1>5, <1>14, <2>1, <2>2, <2>3, <2>4
<1> QED
  BY <1>6, <1>7, <1>8, <1>9, <1>10, <1>11, <1>12, <1>13, <1>14, Steps

-----------------------------------------------------------------------------
(* "import complete". *)

\* When the workers are done every record that was scanned has been counted.
LEMMA NothingIsLeft ==
    ASSUME TypeOK, Accounting, WorkersDone, buf = <<>>
    PROVE  Underway = {} /\ total = Cardinality(Good(read))
<1>1. InBuf = {} /\ Batches(channel) = {}
  BY DEF InBuf, Batches, WorkersDone
<1>2. \A w \in Worker : InBatch(w) = {}
  BY DEF WorkersDone, InBatch, Idle
<1>3. Underway = {}
  BY <1>1, <1>2, InUnderway
<1>4. Cardinality(Underway) = 0
  BY <1>3, FS_EmptySet
<1>5. total \in Nat /\ total + Cardinality(Underway) = Cardinality(Good(read))
  BY Counts
<1> QED
  BY <1>3, <1>4, <1>5

LEMMA FinishMeansLoaded ==
    ASSUME ImportInv, Finish
    PROVE  DoneMeansLoaded'
<1> USE BulkImportAssumption DEF BulkImportAssumption
<1>1. /\ TypeOK /\ Accounting /\ StoredSoFar /\ FileIsWhole /\ ScannerStopped /\ MainGotHere
      /\ pc = "rebuild"
  BY DEF ImportInv, Finish
<1>2. /\ ~scanErr /\ WorkersDone /\ (options.ts => collection)
      /\ (options.pg => schema = "ready")
  BY <1>1 DEF MainGotHere, Migrating
<1>3. /\ buf = <<>> /\ AtEnd /\ read <= disk /\ \A n \in 1..read : ~OverLong(n)
      /\ scanErr = (read < disk /\ OverLong(read + 1))
  BY <1>1, <1>2 DEF ScannerStopped, WorkersDone
<1>4. disk \in Int /\ read \in Int
  BY <1>1 DEF TypeOK, Absent
<1>5. read = disk
  <2>1. ~(read < disk /\ OverLong(read + 1))
    BY Zenon, <1>2, <1>3
  <2> QED
    BY <1>3, <1>4, <2>1 DEF AtEnd
<1>6. Underway = {} /\ total = Cardinality(Good(read))
  BY <1>1, <1>2, <1>3, NothingIsLeft
<1>7. (disk = Lines /\ tail = "whole") \/ cut
  BY <1>1 DEF FileIsWhole
<1>8. /\ options.pg /\ ~wiped => StoredIn(table, Good(disk))
      /\ options.ts /\ ~rejected => StoredIn(docs, Good(disk))
  BY <1>1, <1>5, <1>6 DEF StoredSoFar, Arrived, StoredIn
<1>9. /\ UNCHANGED <<tooLong, disk, tail, schema, table, collection, docs, options, total>>
      /\ UNCHANGED <<cut, wiped, rejected>>
      /\ options.pg => logged' = TRUE /\ indexes' = Index
  <2>1. /\ UNCHANGED <<tooLong, disk, tail, schema, table, collection, docs, options, total>>
        /\ UNCHANGED <<cut, wiped, rejected>>
        /\ options.pg => indexes' = Index
        /\ logged' = (options.pg \/ logged)
    BY DEF Finish, file, typesense, pipeline, history
  <2>2. options.pg => logged'
    BY Zenon, <2>1
  <2>3. logged' \in BOOLEAN
    BY Zenon, <2>1
  <2> QED
    BY <2>1, <2>2, <2>3
<1>10. Good(disk)' = Good(disk)
  BY <1>9 DEF Good, Skipped
<1>11. \A n \in 1..disk : ~OverLong(n)'
  BY <1>3, <1>5, <1>9 DEF OverLong
<1> QED
  BY <1>2, <1>5, <1>6, <1>7, <1>8, <1>9, <1>10, <1>11 DEF DoneMeansLoaded, StoredIn

LEMMA DoneMeansLoadedKept ==
    ASSUME ImportInv, [Next]_vars
    PROVE  DoneMeansLoaded'
<1>1. TypeOK /\ MainGotHere /\ DoneMeansLoaded
  BY DEF ImportInv
<1>2. ASSUME NEW o, Begin(o) PROVE DoneMeansLoaded'
  BY <1>2 DEF Begin, DoneMeansLoaded
<1>3. ASSUME outcome' # "done" PROVE DoneMeansLoaded'
  BY <1>3 DEF DoneMeansLoaded
<1>4. ASSUME pc # "off", UNCHANGED outcome \/ outcome' = "failed" PROVE DoneMeansLoaded'
  BY <1>1, <1>3, <1>4 DEF MainGotHere
<1>5. CASE \/ DeleteCollection \/ InitCollection \/ Migrate \/ CreateTable \/ Migrated
           \/ PrepareTable \/ DisableIndexes \/ FindFile \/ Download \/ Extract
           \/ Join \/ (\E i \in Index : CreateIndex(i)) \/ Die
  BY <1>4, <1>5 DEF DeleteCollection, InitCollection, Migrate, CreateTable, Migrated,
                    PrepareTable, DisableIndexes, FindFile, Download, Extract, Join, CreateIndex,
                    Die, Goto, End, Loading
<1>6. CASE PostgresCrash
  <2>1. SUFFICES ASSUME outcome' = "done" PROVE DoneMeansLoaded'
    BY DEF DoneMeansLoaded
  <2>2. /\ UNCHANGED <<tooLong, disk, tail, schema, logged, indexes, collection, docs, options,
                       total, outcome, cut, rejected>>
        /\ table' = IF logged THEN table ELSE Empty
        /\ wiped' = (wiped \/ ~logged)
    BY <1>6 DEF PostgresCrash, file, typesense, pipeline
  <2>3. ~wiped' => ~wiped /\ UNCHANGED table
    BY Zenon, <2>2
  <2>4. Good(disk)' = Good(disk)
    BY <2>2 DEF Good, Skipped
  <2> QED
    BY <1>1, <2>1, <2>2, <2>3, <2>4 DEF DoneMeansLoaded, StoredIn, OverLong
<1>7. CASE UNCHANGED vars
  BY <1>1, <1>7 DEF DoneMeansLoaded, StoredIn, Good, Skipped, OverLong, vars, file, stores,
                    typesense, pipeline, history
<1> QED
  BY <1>2, <1>4, <1>5, <1>6, <1>7, Steps, LoadSteps, FinishMeansLoaded DEF Besides

LEMMA RecordsKept ==
    ASSUME TypeOK, NoneTwice, Accounting, Fresh, ScannerStopped, [Next]_vars
    PROVE  NoneTwice' /\ Accounting'
<1>1. ASSUME UNCHANGED <<buf, channel, read, total>>,
             \A w \in Worker : worker'[w].batch = worker[w].batch
      PROVE  NoneTwice' /\ Accounting'
  <2>1. NoneTwice' /\ Underway' = Underway
    BY <1>1, SameRecords
  <2> QED
    BY <1>1, <2>1, GoodPrimed DEF Accounting
<1>2. CASE StopScan \/ CloseChannel
  BY <1>1, <1>2 DEF StopScan, CloseChannel
<1>3. CASE Besides
  BY <1>1, <1>3, BesidesStandStill
<1>4. ASSUME NEW w \in Worker, PgCopy(w) \/ TsImport(w) PROVE NoneTwice' /\ Accounting'
  BY <1>1, <1>4, TodoStandsStill
<1> QED
  BY <1>2, <1>3, <1>4, Steps, BeginKeepsRecords, ScanKeepsRecords, SendKeepsRecords,
     ReceiveKeepsRecords, EndBatchKeepsRecords

LEMMA NextImport == ImportInv /\ [Next]_vars => ImportInv'
<1> SUFFICES ASSUME ImportInv, [Next]_vars PROVE ImportInv'
  OBVIOUS
<1>1. /\ TypeOK /\ NoneTwice /\ Accounting /\ Fresh /\ StoredSoFar /\ FileIsWhole
      /\ ScannerStopped /\ MainGotHere
  BY DEF ImportInv
<1>2. NoneTwice' /\ Accounting'
  BY <1>1, RecordsKept
<1>3. TypeOK'
  <2>1. PipelineType' /\ StoreType' /\ MainType'
    BY <1>1, PipelineTypeKept, StoreTypeKept, MainTypeKept
  <2> QED
    BY <2>1 DEF TypeOK, PipelineType, StoreType, MainType
<1>4. Fresh' /\ FileIsWhole' /\ ScannerStopped' /\ MainGotHere'
  BY <1>1, FreshKept, FileIsWholeKept, ScannerStoppedKept, MainGotHereKept
<1>5. options'.pg /\ ~wiped' => Arrived(table, "pg")'
  BY <1>1, TableSoFar
<1>6. options'.ts /\ ~rejected' => Arrived(docs, "ts")'
  BY <1>1, DocsSoFar
<1>7. StoredSoFar'
  BY <1>5, <1>6 DEF StoredSoFar
<1>8. DoneMeansLoaded'
  BY DoneMeansLoadedKept
<1> QED
  BY <1>2, <1>3, <1>4, <1>7, <1>8 DEF ImportInv

-----------------------------------------------------------------------------
(* The theorems. *)

LEMMA ImportInvariant == Spec => []ImportInv
<1> QED
  BY InitImport, NextImport, PTL DEF Spec

\* Files, stores and goroutines stay within their types; no more is counted than the file
\* has lines.
THEOREM TypeCorrect == Spec => []TypeOK
<1>1. ImportInv => TypeOK
  BY DEF ImportInv
<1> QED
  BY <1>1, ImportInvariant, PTL

\* The scanner reuses its buffer, the channel and the workers hand batches on, and through
\* all of it a record that was scanned is in exactly one place until it has been counted;
\* then both stores have it, unless PostgreSQL emptied the table or Typesense complained.
THEOREM EveryRecordOnce == Spec => []EachRecordOnce
<1>1. ImportInv => EachRecordOnce
  <2> SUFFICES ASSUME ImportInv PROVE EachRecordOnce
    OBVIOUS
  <2>1. TypeOK /\ NoneTwice /\ Accounting /\ StoredSoFar
    BY DEF ImportInv
  <2>2. /\ IsFiniteSet(Underway)
        /\ total + Cardinality(Underway) = Cardinality(Good(read))
    BY <2>1, Counts
  <2>3. Cardinality(Underway) = Cardinality(Places)
    BY <2>1, <2>2, RecordsAreAsManyAsPlaces
  <2> QED
    BY <2>1, <2>2, <2>3 DEF EachRecordOnce, StoredSoFar, Arrived
<1> QED
  BY <1>1, ImportInvariant, PTL

\* A run that says "import complete" has loaded the whole file that it had, whatever was
\* killed, refused or emptied in the runs before it: main cannot miss the scanner's error,
\* and no worker is still at work.
THEOREM CompleteMeansLoaded == Spec => []DoneMeansLoaded
<1>1. ImportInv => DoneMeansLoaded
  BY DEF ImportInv
<1> QED
  BY <1>1, ImportInvariant, PTL

=============================================================================
