------------------------- MODULE PersonalizerProofs -------------------------
(***************************************************************************)
(* What holds of the consumer loop for any number of partitions, messages, *)
(* clients, faults and retries.                                            *)
(***************************************************************************)
EXTENDS Personalizer, SequenceTheorems, FiniteSetTheorems, TLAPS

-----------------------------------------------------------------------------
(* The profile and its commands. *)

\* Only useful events reach UpdateProfile.
UsefulEvent == { e \in SearchEvent : e.ip # Empty /\ e.query # Empty }

\* A command that can be sent: HINCRBY names a hash and a value, LPUSH a query.
SoundCommand ==
    { c \in Command :
        /\ c.op = "HINCRBY" => c.key \in HashKeys /\ c.arg \in Value
        /\ c.op = "LPUSH" => c.arg \in Query }

\* An event whose field is empty increments nothing, any other a sound value:
\* the guards at profile.go:76-84.
LEMMA IncrementSound ==
    ASSUME NEW e \in SearchEvent, NEW k \in HashKeys
    PROVE  Increment(e, k) \in Seq(SoundCommand)
<1>1. e[k] \in Value \union {Empty}
  BY DEF SearchEvent, HashKeys
<1>2. CASE e[k] = Empty
  BY <1>2 DEF Increment
<1>3. CASE e[k] # Empty
  <2>1. Cmd("HINCRBY", k, e[k]) \in SoundCommand
    BY <1>1, <1>3 DEF Cmd, SoundCommand, Command, ProfileKeys
  <2> QED
    BY <2>1, <1>3 DEF Increment
<1> QED
  BY <1>2, <1>3

\* UpdateProfile only ever sends sound commands.
LEMMA UpdateCommandsSound ==
    ASSUME NEW e \in UsefulEvent
    PROVE  UpdateCommands(e) \in Seq(SoundCommand)
<1>1. e \in SearchEvent /\ e.query \in Query
  BY DEF UsefulEvent, SearchEvent
<1>2. /\ Increment(e, "countries") \in Seq(SoundCommand)
      /\ Increment(e, "continents") \in Seq(SoundCommand)
      /\ Increment(e, "feature_codes") \in Seq(SoundCommand)
  BY <1>1, IncrementSound DEF HashKeys
<1>3. Increments(e) \in Seq(SoundCommand)
  BY <1>2 DEF Increments
<1>4. Cmd("LPUSH", "recent", e.query) \in SoundCommand
  BY <1>1 DEF Cmd, SoundCommand, Command, ProfileKeys
<1>5. Cmd("LTRIM", "recent", Empty) \in SoundCommand
  BY DEF Cmd, SoundCommand, Command, ProfileKeys
<1>6. Remember(e) \in Seq(SoundCommand)
  BY <1>4, <1>5 DEF Remember
<1>7. \A k \in ProfileKeys : Refreshed(k) \in SoundCommand
  BY DEF Refreshed, Cmd, SoundCommand, Command
<1>8. Refresh \in Seq(SoundCommand)
  BY <1>7 DEF Refresh, ProfileKeys, HashKeys
<1> QED
  BY <1>3, <1>6, <1>8 DEF UpdateCommands

\* LTRIM keeps some of the entries, never more than there are.
LEMMA KeptBounds ==
    ASSUME NEW n \in Nat
    PROVE  Kept(n) \in 0..n
BY ProfileAssumption DEF Kept

\* With a positive limit, what LTRIM keeps is within the limit.
LEMMA KeptWithinLimit ==
    ASSUME NEW n \in Nat, RecentLimit >= 1
    PROVE  Kept(n) <= RecentLimit
BY ProfileAssumption DEF Kept

\* Removing a key leaves a profile.
LEMMA DropKeyType ==
    ASSUME NEW prof \in ProfileType, NEW k \in ProfileKeys
    PROVE  DropKey(prof, k) \in ProfileType
<1>1. CASE k = "recent"
  <2>1. <<>> \in Seq(Query) /\ prof.ttl \ {k} \in SUBSET ProfileKeys
    BY DEF ProfileType
  <2> QED
    BY <1>1, <2>1 DEF DropKey, ProfileType
<1>2. CASE k # "recent"
  <2>1. k \in HashKeys /\ NoCounts \in [Value -> Nat]
    BY <1>2 DEF ProfileKeys, NoCounts
  <2>2. [prof.hash EXCEPT ![k] = NoCounts] \in [HashKeys -> [Value -> Nat]]
    BY <2>1 DEF ProfileType
  <2>3. prof.ttl \ {k} \in SUBSET ProfileKeys
    BY DEF ProfileType
  <2> QED
    BY <1>2, <2>2, <2>3 DEF DropKey, ProfileType
<1> QED
  BY <1>1, <1>2

\* Every sound command turns a profile into a profile.
LEMMA ExecuteType ==
    ASSUME NEW prof \in ProfileType, NEW c \in SoundCommand
    PROVE  Execute(prof, c) \in ProfileType
<1>1. CASE c.op = "HINCRBY"
  <2>1. c.key \in HashKeys /\ c.arg \in Value
    BY <1>1 DEF SoundCommand
  <2>2. [prof.hash EXCEPT ![c.key][c.arg] = @ + 1] \in [HashKeys -> [Value -> Nat]]
    BY <2>1 DEF ProfileType
  <2> QED
    BY <1>1, <2>2 DEF Execute, ProfileType
<1>2. CASE c.op = "LPUSH"
  <2>1. << c.arg >> \o prof.recent \in Seq(Query)
    BY <1>2 DEF SoundCommand, ProfileType
  <2> QED
    BY <1>2, <2>1 DEF Execute, ProfileType
<1>3. CASE c.op = "LTRIM"
  <2>1. CASE Kept(Len(prof.recent)) = 0
    BY <1>3, <2>1, DropKeyType DEF Execute, LTrim, ProfileKeys
  <2>2. CASE Kept(Len(prof.recent)) # 0
    <3>1. prof.recent \in Seq(Query)
      BY DEF ProfileType
    <3>2. Kept(Len(prof.recent)) \in 0..Len(prof.recent)
      BY <3>1, KeptBounds
    <3>3. SubSeq(prof.recent, 1, Kept(Len(prof.recent))) \in Seq(Query)
      BY <3>1, <3>2
    <3> QED
      BY <1>3, <2>2, <3>3 DEF Execute, LTrim, ProfileType
  <2> QED
    BY <2>1, <2>2
<1>4. CASE c.op = "EXPIRE"
  <2>1. c.key \in ProfileKeys
    BY DEF SoundCommand, Command
  <2>2. DropKey(prof, c.key) \in ProfileType
    BY <2>1, DropKeyType
  <2>3. [prof EXCEPT !.ttl = @ \union {c.key}] \in ProfileType
    BY <2>1 DEF ProfileType
  <2> QED
    BY <1>4, <2>2, <2>3 DEF Execute, Expire
<1> QED
  BY <1>1, <1>2, <1>3, <1>4 DEF SoundCommand, Command

\* A key that holds something and will not expire.
Loose(prof, k) == KeyExists(prof, k) /\ k \notin prof.ttl

\* Removing a key leaves no key loose that was not, and no list longer than it was.
LEMMA DropKeyEffect ==
    ASSUME NEW prof \in ProfileType, NEW j \in ProfileKeys
    PROVE  /\ \A k \in ProfileKeys : Loose(DropKey(prof, j), k) => Loose(prof, k) /\ k # j
           /\ Len(DropKey(prof, j).recent) <= Len(prof.recent)
<1> DEFINE d == DropKey(prof, j)
<1>1. /\ prof.hash \in [HashKeys -> [Value -> Nat]] /\ prof.recent \in Seq(Query)
      /\ HashKeys \subseteq ProfileKeys /\ "recent" \notin HashKeys
  BY DEF ProfileType, ProfileKeys, HashKeys
<1>2. CASE j = "recent"
  <2>1. d.recent = <<>> /\ d.hash = prof.hash /\ d.ttl = prof.ttl \ {j}
    BY <1>2 DEF DropKey, ProfileType
  <2> QED
    BY <1>1, <1>2, <2>1 DEF Loose, KeyExists
<1>3. CASE j # "recent"
  <2>1. j \in HashKeys
    BY <1>3 DEF ProfileKeys
  <2>2. /\ d.recent = prof.recent /\ d.ttl = prof.ttl \ {j}
        /\ d.hash = [prof.hash EXCEPT ![j] = NoCounts]
    BY <1>3 DEF DropKey, ProfileType
  <2>3. \A v \in Value : d.hash[j][v] = 0
    BY <1>1, <2>1, <2>2 DEF NoCounts
  <2>4. \A k \in HashKeys \ {j} : d.hash[k] = prof.hash[k]
    BY <1>1, <2>1, <2>2
  <2>5. ASSUME NEW k \in ProfileKeys, Loose(d, k) PROVE Loose(prof, k) /\ k # j
    <3>1. k # j
      BY <1>3, <2>3, <2>5 DEF Loose, KeyExists
    <3>2. CASE k = "recent"
      BY <2>2, <2>5, <3>1, <3>2 DEF Loose, KeyExists
    <3>3. CASE k \in HashKeys
      BY <1>1, <2>2, <2>4, <2>5, <3>1, <3>3 DEF Loose, KeyExists
    <3> QED
      BY <3>1, <3>2, <3>3 DEF ProfileKeys
  <2> QED
    BY <1>1, <2>2, <2>5
<1> QED
  BY <1>2, <1>3

\* What a command does to the length of the list.
LEMMA ExecuteLength ==
    ASSUME NEW prof \in ProfileType, NEW c \in SoundCommand
    PROVE  LET n == Len(prof.recent)
               m == Len(Execute(prof, c).recent)
           IN  /\ c.op = "LPUSH" => m = n + 1
               /\ c.op # "LPUSH" => m <= n
               /\ c.op = "LTRIM" /\ RecentLimit >= 1 => m <= RecentLimit
<1>1. prof.recent \in Seq(Query) /\ Len(prof.recent) \in Nat
  BY DEF ProfileType
<1>2. CASE c.op = "HINCRBY"
  <2>1. Execute(prof, c).recent = prof.recent
    BY <1>2 DEF Execute, ProfileType
  <2> QED
    BY <1>1, <1>2, <2>1
<1>3. CASE c.op = "LPUSH"
  BY <1>1, <1>3 DEF Execute, ProfileType
<1>4. CASE c.op = "LTRIM"
  <2> DEFINE kept == Kept(Len(prof.recent))
  <2>1. kept \in 0..Len(prof.recent) /\ (RecentLimit >= 1 => kept <= RecentLimit)
    BY <1>1, KeptBounds, KeptWithinLimit
  <2>2. Execute(prof, c) = LTrim(prof)
    BY <1>4 DEF Execute
  <2>3. CASE kept = 0
    <3>1. LTrim(prof).recent = <<>>
      BY <2>3 DEF LTrim, DropKey, ProfileType
    <3>2. Len(LTrim(prof).recent) = 0
      BY <3>1
    <3> QED
      BY <1>1, <1>4, <2>2, <3>2, ProfileAssumption
  <2>4. CASE kept # 0
    <3>1. LTrim(prof).recent = SubSeq(prof.recent, 1, kept)
      BY <2>4 DEF LTrim, ProfileType
    <3>2. Len(SubSeq(prof.recent, 1, kept)) = kept
      BY <1>1, <2>1
    <3> HIDE DEF kept
    <3> QED
      BY <1>1, <1>4, <2>1, <2>2, <3>1, <3>2
  <2> QED
    BY <2>3, <2>4
<1>5. CASE c.op = "EXPIRE"
  <2>1. c.key \in ProfileKeys
    BY DEF SoundCommand, Command
  <2>2. [prof EXCEPT !.ttl = @ \union {c.key}].recent = prof.recent
    BY DEF ProfileType
  <2>3. Len(DropKey(prof, c.key).recent) <= Len(prof.recent)
    BY <2>1, DropKeyEffect
  <2> QED
    BY <1>1, <1>5, <2>2, <2>3 DEF Execute, Expire
<1> QED
  BY <1>2, <1>3, <1>4, <1>5 DEF SoundCommand, Command

\* EXPIRE ties down its key and loosens none.
LEMMA ExpireTiesDown ==
    ASSUME NEW prof \in ProfileType, NEW c \in SoundCommand, c.op = "EXPIRE", TTLDays > 0,
           NEW k \in ProfileKeys, Loose(Execute(prof, c), k)
    PROVE  Loose(prof, k) /\ k # c.key
<1>1. Execute(prof, c) =
        IF ~KeyExists(prof, c.key) THEN prof ELSE [prof EXCEPT !.ttl = @ \union {c.key}]
  BY ProfileAssumption DEF Execute, Expire
<1>2. CASE ~KeyExists(prof, c.key)
  BY <1>1, <1>2 DEF Loose
<1>3. CASE KeyExists(prof, c.key)
  <2> DEFINE d == [prof EXCEPT !.ttl = @ \union {c.key}]
  <2>1. d.ttl = prof.ttl \union {c.key} /\ d.hash = prof.hash /\ d.recent = prof.recent
    BY DEF ProfileType
  <2>2. Loose(d, k)
    BY <1>1, <1>3
  <2> HIDE DEF d
  <2> QED
    BY <2>1, <2>2 DEF Loose, KeyExists
<1> QED
  BY <1>2, <1>3

\* How far from its end a pipeline refreshes the expiry of a key.
FromEnd(k) ==
    CASE k = "countries" -> 3 [] k = "continents" -> 2 [] k = "feature_codes" -> 1
      [] k = "recent" -> 0

\* The elements of two sequences in a row.
LEMMA TwoParts ==
    ASSUME NEW S, NEW s \in Seq(S), NEW t \in Seq(S), NEW n, NEW m, n = Len(s), m = Len(t)
    PROVE  /\ s \o t \in Seq(S) /\ Len(s \o t) = n + m
           /\ \A i \in 1..n : (s \o t)[i] = s[i]
           /\ \A i \in 1..m : (s \o t)[n + i] = t[i]
OBVIOUS

\* The shape of a pipeline: up to three HINCRBYs, LPUSH, LTRIM, an EXPIRE for each key.
LEMMA PipelineShape ==
    ASSUME NEW e \in UsefulEvent
    PROVE  LET cmds == UpdateCommands(e)
               len == Len(cmds)
           IN  /\ len \in 6..9 /\ len = Len(Increments(e)) + 6
               /\ \A i \in 1..(len - 6) : cmds[i] = Increments(e)[i]
               /\ \A i \in 1..(len - 6) : cmds[i].op = "HINCRBY"
               /\ cmds[len - 5].op = "LPUSH"
               /\ cmds[len - 4].op = "LTRIM"
               /\ \A k \in ProfileKeys : cmds[len - FromEnd(k)] = Refreshed(k)
<1> DEFINE inc == Increments(e)
           cmds == UpdateCommands(e)
<1>1. e \in SearchEvent /\ inc \in Seq(SoundCommand)
  <2>1. e \in SearchEvent
    BY DEF UsefulEvent
  <2>2. /\ Increment(e, "countries") \in Seq(SoundCommand)
        /\ Increment(e, "continents") \in Seq(SoundCommand)
        /\ Increment(e, "feature_codes") \in Seq(SoundCommand)
    BY <2>1, IncrementSound DEF HashKeys
  <2> QED
    BY <2>1, <2>2 DEF Increments
<1>2. \A k : Len(Increment(e, k)) \in 0..1
             /\ \A i \in 1..Len(Increment(e, k)) : Increment(e, k)[i].op = "HINCRBY"
  BY DEF Increment, Cmd
<1>3. Len(inc) \in 0..3 /\ \A i \in 1..Len(inc) : inc[i].op = "HINCRBY"
  <2>1. ASSUME NEW a, NEW b, NEW c,
               a \in Seq(SoundCommand), b \in Seq(SoundCommand), c \in Seq(SoundCommand),
               Len(a) \in 0..1, Len(b) \in 0..1, Len(c) \in 0..1,
               \A i \in 1..Len(a) : a[i].op = "HINCRBY",
               \A i \in 1..Len(b) : b[i].op = "HINCRBY",
               \A i \in 1..Len(c) : c[i].op = "HINCRBY"
        PROVE  /\ Len(a \o b \o c) \in 0..3
               /\ \A i \in 1..Len(a \o b \o c) : (a \o b \o c)[i].op = "HINCRBY"
    BY <2>1
  <2>2. /\ Increment(e, "countries") \in Seq(SoundCommand)
        /\ Increment(e, "continents") \in Seq(SoundCommand)
        /\ Increment(e, "feature_codes") \in Seq(SoundCommand)
    BY <1>1, IncrementSound DEF HashKeys
  <2> QED
    BY <1>2, <2>1, <2>2 DEF Increments
<1>4. PICK n \in 0..3 : n = Len(inc)
  BY <1>3
<1>5. /\ Remember(e) \in Seq(SoundCommand) /\ Len(Remember(e)) = 2
      /\ Remember(e)[1].op = "LPUSH" /\ Remember(e)[2].op = "LTRIM"
  <2>1. e.query \in Query
    BY <1>1 DEF UsefulEvent, SearchEvent
  <2>2. /\ Cmd("LPUSH", "recent", e.query) \in SoundCommand
        /\ Cmd("LTRIM", "recent", Empty) \in SoundCommand
    BY <2>1 DEF Cmd, SoundCommand, Command, ProfileKeys
  <2> QED
    BY <2>2 DEF Remember, Cmd
<1>6. /\ Refresh \in Seq(SoundCommand) /\ Len(Refresh) = 4
      /\ Refresh[1] = Refreshed("countries") /\ Refresh[2] = Refreshed("continents")
      /\ Refresh[3] = Refreshed("feature_codes") /\ Refresh[4] = Refreshed("recent")
  <2>1. \A k \in ProfileKeys : Refreshed(k) \in SoundCommand
    BY DEF Refreshed, Cmd, SoundCommand, Command
  <2> QED
    BY <2>1 DEF Refresh, ProfileKeys, HashKeys
<1>7. /\ Len(cmds) = n + 6
      /\ \A i \in 1..n : cmds[i] = inc[i]
      /\ cmds[n + 1] = Remember(e)[1] /\ cmds[n + 2] = Remember(e)[2]
      /\ cmds[n + 3] = Refresh[1] /\ cmds[n + 4] = Refresh[2]
      /\ cmds[n + 5] = Refresh[3] /\ cmds[n + 6] = Refresh[4]
  <2> DEFINE rem == Remember(e)
             both == inc \o rem
  <2>1. /\ both \in Seq(SoundCommand) /\ Len(both) = n + 2
        /\ \A i \in 1..n : both[i] = inc[i]
        /\ \A i \in 1..2 : both[n + i] = rem[i]
    <3> HIDE DEF inc, rem
    <3>1. inc \in Seq(SoundCommand) /\ rem \in Seq(SoundCommand)
      BY <1>1, <1>5 DEF rem
    <3>2. PICK m \in Nat : m = Len(rem)
      BY <3>1
    <3>3. /\ both \in Seq(SoundCommand) /\ Len(both) = n + m
          /\ \A i \in 1..n : both[i] = inc[i]
          /\ \A i \in 1..m : both[n + i] = rem[i]
      BY <1>4, <3>1, <3>2, TwoParts
    <3>4. m = 2
      BY <1>5, <3>2 DEF rem
    <3> QED
      BY <3>3, <3>4
  <2>2. cmds = both \o Refresh
    BY DEF UpdateCommands
  <2>3. /\ Len(cmds) = (n + 2) + 4
        /\ \A i \in 1..(n + 2) : cmds[i] = both[i]
        /\ \A i \in 1..4 : cmds[(n + 2) + i] = Refresh[i]
    <3> HIDE DEF both, cmds
    <3>1. PICK b \in Nat, m \in Nat : b = Len(both) /\ m = Len(Refresh)
      BY <1>6, <2>1
    <3>2. /\ Len(cmds) = b + m
          /\ \A i \in 1..b : cmds[i] = both[i]
          /\ \A i \in 1..m : cmds[b + i] = Refresh[i]
      <4>1. both \in Seq(SoundCommand) /\ Refresh \in Seq(SoundCommand)
        BY <1>6, <2>1
      <4> QED
        BY <2>2, <3>1, <4>1, TwoParts
    <3>3. b = n + 2 /\ m = 4
      BY <1>6, <2>1, <3>1
    <3> QED
      BY <3>2, <3>3
  <2>4. /\ 1..n \subseteq 1..(n + 2) /\ n + 1 \in 1..(n + 2) /\ n + 2 \in 1..(n + 2)
        /\ (n + 2) + 1 = n + 3 /\ (n + 2) + 2 = n + 4 /\ (n + 2) + 3 = n + 5
        /\ (n + 2) + 4 = n + 6
    OBVIOUS
  <2> HIDE DEF cmds, both, rem, inc
  <2>5. cmds[n + 1] = rem[1] /\ cmds[n + 2] = rem[2]
    BY <2>1, <2>3, <2>4
  <2>6. \A i \in 1..n : cmds[i] = inc[i]
    BY <2>1, <2>3, <2>4
  <2>7. /\ cmds[n + 3] = Refresh[1] /\ cmds[n + 4] = Refresh[2]
        /\ cmds[n + 5] = Refresh[3] /\ cmds[n + 6] = Refresh[4]
    BY <2>3, <2>4
  <2> QED
    BY <2>3, <2>4, <2>5, <2>6, <2>7 DEF rem
<1>8. /\ n + 6 \in 6..9 /\ (n + 6) - 6 = n /\ (n + 6) - 5 = n + 1 /\ (n + 6) - 4 = n + 2
      /\ (n + 6) - 3 = n + 3 /\ (n + 6) - 2 = n + 4 /\ (n + 6) - 1 = n + 5 /\ (n + 6) - 0 = n + 6
  OBVIOUS
<1> HIDE DEF inc, cmds
<1>9. \A k \in ProfileKeys : cmds[Len(cmds) - FromEnd(k)] = Refreshed(k)
  BY <1>6, <1>7, <1>8 DEF FromEnd, ProfileKeys, HashKeys
<1>10. /\ Len(cmds) \in 6..9
       /\ \A i \in 1..(Len(cmds) - 6) : cmds[i].op = "HINCRBY"
       /\ cmds[Len(cmds) - 5].op = "LPUSH" /\ cmds[Len(cmds) - 4].op = "LTRIM"
  BY <1>3, <1>4, <1>5, <1>7, <1>8
<1>11. Len(cmds) = Len(inc) + 6 /\ \A i \in 1..(Len(cmds) - 6) : cmds[i] = inc[i]
  BY <1>4, <1>7, <1>8
<1> QED
  BY <1>9, <1>10, <1>11 DEF cmds, inc

\* Where the HINCRBY of a hash stands in the pipeline of an event.
Place(e, k) ==
    CASE k = "countries" -> 1
      [] k = "continents" -> 1 + Len(Increment(e, "countries"))
      [] k = "feature_codes" ->
           1 + Len(Increment(e, "countries")) + Len(Increment(e, "continents"))

\* The increments of an event, one by one.
LEMMA IncrementsInPlace ==
    ASSUME NEW e \in UsefulEvent, NEW k \in HashKeys
    PROVE  LET inc == Increments(e)
           IN  /\ Place(e, k) \in 1..4
               /\ e[k] # Empty => /\ Place(e, k) \in 1..Len(inc)
                                  /\ inc[Place(e, k)] = Cmd("HINCRBY", k, e[k])
               /\ \A i \in 1..Len(inc) :
                    inc[i].key = k => i = Place(e, k) /\ e[k] # Empty
<1> DEFINE a == Increment(e, "countries")
           b == Increment(e, "continents")
           c == Increment(e, "feature_codes")
           x == Cmd("HINCRBY", "countries", e["countries"])
           y == Cmd("HINCRBY", "continents", e["continents"])
           z == Cmd("HINCRBY", "feature_codes", e["feature_codes"])
<1>1. /\ x.key = "countries" /\ y.key = "continents" /\ z.key = "feature_codes"
  BY DEF Cmd
<1>2. /\ a = IF e["countries"] = Empty THEN <<>> ELSE << x >>
      /\ b = IF e["continents"] = Empty THEN <<>> ELSE << y >>
      /\ c = IF e["feature_codes"] = Empty THEN <<>> ELSE << z >>
      /\ Increments(e) = a \o b \o c
  BY DEF Increment, Increments
<1>3. /\ Place(e, "countries") = 1 /\ Place(e, "continents") = 1 + Len(a)
      /\ Place(e, "feature_codes") = 1 + Len(a) + Len(b)
  BY DEF Place
<1> HIDE DEF a, b, c, x, y, z
<1>4. /\ a \in Seq(SoundCommand) /\ b \in Seq(SoundCommand) /\ c \in Seq(SoundCommand)
  <2>1. e \in SearchEvent
    BY DEF UsefulEvent
  <2> QED
    BY <2>1, IncrementSound DEF HashKeys, a, b, c
<1>5. PICK l \in 0..1, m \in 0..1, n \in 0..1 :
        /\ l = Len(a) /\ m = Len(b) /\ n = Len(c)
        /\ l = 1 <=> e["countries"] # Empty
        /\ m = 1 <=> e["continents"] # Empty
        /\ n = 1 <=> e["feature_codes"] # Empty
  <2>1. /\ Len(a) = IF e["countries"] = Empty THEN 0 ELSE 1
        /\ Len(b) = IF e["continents"] = Empty THEN 0 ELSE 1
        /\ Len(c) = IF e["feature_codes"] = Empty THEN 0 ELSE 1
    BY <1>2
  <2> QED
    BY <2>1
<1>6. /\ l = 1 => a[1] = x
      /\ m = 1 => b[1] = y
      /\ n = 1 => c[1] = z
  BY <1>2, <1>5
<1>7. /\ Len(Increments(e)) = l + m + n
      /\ \A i \in 1..l : Increments(e)[i] = a[i]
      /\ \A i \in 1..m : Increments(e)[l + i] = b[i]
      /\ \A i \in 1..n : Increments(e)[(l + m) + i] = c[i]
  <2>1. /\ a \o b \in Seq(SoundCommand) /\ Len(a \o b) = l + m
        /\ \A i \in 1..l : (a \o b)[i] = a[i]
        /\ \A i \in 1..m : (a \o b)[l + i] = b[i]
    BY <1>4, <1>5, TwoParts
  <2> DEFINE ab == a \o b
  <2> HIDE DEF ab
  <2>2. PICK lm \in Nat : lm = l + m
    OBVIOUS
  <2>3. ab \in Seq(SoundCommand) /\ lm = Len(ab)
    BY <2>1, <2>2 DEF ab
  <2>4. /\ Len(ab \o c) = lm + n
        /\ \A i \in 1..lm : (ab \o c)[i] = ab[i]
        /\ \A i \in 1..n : (ab \o c)[lm + i] = c[i]
    BY <1>4, <1>5, <2>3, TwoParts
  <2>5. (\A i \in 1..l : i \in 1..lm) /\ (\A i \in 1..m : l + i \in 1..lm)
    BY <2>2
  <2>6. Increments(e) = ab \o c
    BY <1>2 DEF ab
  <2>7. /\ \A i \in 1..l : ab[i] = a[i]
        /\ \A i \in 1..m : ab[l + i] = b[i]
    BY <2>1 DEF ab
  <2>8. /\ \A i \in 1..l : Increments(e)[i] = a[i]
        /\ \A i \in 1..m : Increments(e)[l + i] = b[i]
    BY <2>4, <2>5, <2>6, <2>7
  <2> QED
    BY <2>2, <2>4, <2>6, <2>8
<1>8. /\ l = 1 => Increments(e)[1] = x
      /\ m = 1 => Increments(e)[1 + l] = y
      /\ n = 1 => Increments(e)[1 + l + m] = z
  <2>1. l + 1 = 1 + l /\ (l + m) + 1 = 1 + l + m
    OBVIOUS
  <2> QED
    BY <1>6, <1>7, <2>1
<1>9. ASSUME NEW i \in 1..Len(Increments(e))
      PROVE  (l = 1 /\ i = 1) \/ (m = 1 /\ i = 1 + l) \/ (n = 1 /\ i = 1 + l + m)
  <2>1. ASSUME NEW j \in Int, 1 <= j, j <= l + m + n
        PROVE  (l = 1 /\ j = 1) \/ (m = 1 /\ j = 1 + l) \/ (n = 1 /\ j = 1 + l + m)
    BY <2>1
  <2>2. i \in Int /\ 1 <= i /\ i <= l + m + n
    BY <1>7
  <2> QED
    BY <2>1, <2>2
<1>10. /\ Place(e, k) \in 1..4
       /\ e[k] # Empty => /\ Place(e, k) \in 1..(l + m + n)
                          /\ Increments(e)[Place(e, k)] = Cmd("HINCRBY", k, e[k])
  <2>1. CASE k = "countries"
    <3>1. Place(e, k) = 1 /\ 1 \in 1..4 /\ (l = 1 => 1 \in 1..(l + m + n))
      BY <1>3, <2>1
    <3> QED
      BY <1>5, <1>8, <2>1, <3>1 DEF x
  <2>2. CASE k = "continents"
    <3>1. /\ Place(e, k) = 1 + l /\ 1 + l \in 1..4
          /\ m = 1 => 1 + l \in 1..(l + m + n)
      <4>1. /\ 1 + l \in 1..4
            /\ m = 1 => 1 + l \in 1..(l + m + n)
        OBVIOUS
      <4> QED
        BY <1>3, <1>5, <2>2, <4>1
    <3> QED
      BY <1>5, <1>8, <2>2, <3>1 DEF y
  <2>3. CASE k = "feature_codes"
    <3>1. /\ Place(e, k) = 1 + l + m /\ 1 + l + m \in 1..4
          /\ n = 1 => 1 + l + m \in 1..(l + m + n)
      <4>1. /\ 1 + l + m \in 1..4
            /\ n = 1 => 1 + l + m \in 1..(l + m + n)
        OBVIOUS
      <4> QED
        BY <1>3, <1>5, <2>3, <4>1
    <3> QED
      BY <1>5, <1>8, <2>3, <3>1 DEF z
  <2> QED
    BY <2>1, <2>2, <2>3 DEF HashKeys
<1>11. ASSUME NEW i \in 1..Len(Increments(e)), Increments(e)[i].key = k
       PROVE  i = Place(e, k) /\ e[k] # Empty
  <2>1. CASE l = 1 /\ i = 1
    BY <1>1, <1>3, <1>5, <1>8, <1>11, <2>1
  <2>2. CASE m = 1 /\ i = 1 + l
    BY <1>1, <1>3, <1>5, <1>8, <1>11, <2>2
  <2>3. CASE n = 1 /\ i = 1 + l + m
    BY <1>1, <1>3, <1>5, <1>8, <1>11, <2>3
  <2> QED
    BY <1>9, <2>1, <2>2, <2>3
<1> QED
  BY <1>7, <1>10, <1>11

\* A pipeline holds exactly one HINCRBY for each hash in which the event has a value.
LEMMA OneIncrement ==
    ASSUME NEW e \in UsefulEvent, NEW k \in HashKeys
    PROVE  LET cmds == UpdateCommands(e)
           IN  /\ Place(e, k) \in Nat \ {0}
               /\ e[k] # Empty => /\ Place(e, k) \in 1..Len(cmds)
                                  /\ cmds[Place(e, k)] = Cmd("HINCRBY", k, e[k])
               /\ \A i \in 1..Len(cmds) :
                    cmds[i].op = "HINCRBY" /\ cmds[i].key = k => i = Place(e, k) /\ e[k] # Empty
<1> DEFINE cmds == UpdateCommands(e)
           inc == Increments(e)
<1>1. /\ Len(cmds) \in 6..9 /\ Len(cmds) = Len(inc) + 6
      /\ \A i \in 1..(Len(cmds) - 6) : cmds[i] = inc[i]
      /\ cmds[Len(cmds) - 5].op = "LPUSH" /\ cmds[Len(cmds) - 4].op = "LTRIM"
      /\ \A j \in ProfileKeys : cmds[Len(cmds) - FromEnd(j)] = Refreshed(j)
  BY PipelineShape
<1>2. /\ Place(e, k) \in 1..4
      /\ e[k] # Empty => Place(e, k) \in 1..Len(inc) /\ inc[Place(e, k)] = Cmd("HINCRBY", k, e[k])
      /\ \A i \in 1..Len(inc) : inc[i].key = k => i = Place(e, k) /\ e[k] # Empty
  BY IncrementsInPlace
<1> HIDE DEF cmds, inc
<1>3. PICK len \in 6..9 : len = Len(cmds)
  BY <1>1
<1>4. /\ cmds[len - 3].op = "EXPIRE" /\ cmds[len - 2].op = "EXPIRE"
      /\ cmds[len - 1].op = "EXPIRE" /\ cmds[len - 0].op = "EXPIRE"
  BY <1>1, <1>3 DEF FromEnd, ProfileKeys, HashKeys, Refreshed, Cmd
<1>5. ASSUME NEW i \in 1..len, cmds[i].op = "HINCRBY" PROVE i \in 1..(len - 6)
  <2>1. \/ i \in 1..(len - 6) \/ i = len - 5 \/ i = len - 4 \/ i = len - 3
        \/ i = len - 2 \/ i = len - 1 \/ i = len - 0
    OBVIOUS
  <2> QED
    BY <1>1, <1>3, <1>4, <1>5, <2>1
<1>6. Len(inc) \in Nat /\ Len(inc) = len - 6
  <2>1. \A n : n + 6 = len /\ n \in Nat => n = len - 6
    OBVIOUS
  <2>2. Len(inc) \in Nat
    <3>1. inc \in Seq(SoundCommand)
      BY IncrementSound DEF inc, Increments, UsefulEvent, HashKeys
    <3> QED
      BY <3>1
  <2> QED
    BY <1>1, <1>3, <2>1, <2>2
<1>7. 1..(len - 6) \subseteq 1..len
  OBVIOUS
<1> QED
  BY <1>1, <1>2, <1>3, <1>5, <1>6, <1>7 DEF cmds

\* What a command adds to a counter: one if it is the counter's HINCRBY.
LEMMA ExecuteCount ==
    ASSUME NEW prof \in ProfileType, NEW c \in SoundCommand, NEW k \in HashKeys, NEW v \in Value
    PROVE  LET n == prof.hash[k][v]
               m == Execute(prof, c).hash[k][v]
               hit == c.op = "HINCRBY" /\ c.key = k /\ c.arg = v
           IN  /\ n \in Nat /\ m \in Nat
               /\ hit => m = n + 1
               /\ ~hit => m <= n
               /\ ~hit /\ TTLDays > 0 => m = n
<1> DEFINE hit == c.op = "HINCRBY" /\ c.key = k /\ c.arg = v
<1>1. prof.hash \in [HashKeys -> [Value -> Nat]] /\ prof.hash[k][v] \in Nat
  BY DEF ProfileType
<1>2. Execute(prof, c).hash[k][v] \in Nat
  <2>1. Execute(prof, c) \in ProfileType
    BY ExecuteType
  <2> HIDE DEF Execute
  <2> QED
    BY <2>1 DEF ProfileType
<1>3. ASSUME NEW j \in ProfileKeys
      PROVE  /\ DropKey(prof, j).hash[k][v] <= prof.hash[k][v]
             /\ j = "recent" => DropKey(prof, j).hash[k][v] = prof.hash[k][v]
  <2>1. CASE j = "recent"
    BY <1>1, <2>1 DEF DropKey, ProfileType
  <2>2. CASE j # "recent"
    <3>1. DropKey(prof, j).hash = [prof.hash EXCEPT ![j] = NoCounts]
      BY <2>2 DEF DropKey, ProfileType
    <3>2. NoCounts[v] = 0
      BY DEF NoCounts
    <3> QED
      BY <1>1, <2>2, <3>1, <3>2
  <2> QED
    BY <2>1, <2>2
<1>4. CASE c.op = "HINCRBY"
  <2>1. Execute(prof, c).hash = [prof.hash EXCEPT ![c.key][c.arg] = @ + 1]
    BY <1>4 DEF Execute, ProfileType
  <2>2. c.key \in HashKeys /\ c.arg \in Value
    BY <1>4 DEF SoundCommand
  <2>3. CASE c.key = k /\ c.arg = v
    BY <1>1, <1>4, <2>1, <2>2, <2>3
  <2>4. CASE ~(c.key = k /\ c.arg = v)
    BY <1>1, <1>4, <2>1, <2>2, <2>4
  <2> QED
    BY <1>2, <1>1, <2>3, <2>4
<1>5. CASE c.op = "LPUSH"
  <2>1. Execute(prof, c).hash = prof.hash
    BY <1>5 DEF Execute, ProfileType
  <2> QED
    BY <1>1, <1>5, <2>1
<1>6. CASE c.op = "LTRIM"
  <2>1. "recent" \in ProfileKeys
    BY DEF ProfileKeys
  <2>2. LTrim(prof).hash[k][v] = prof.hash[k][v]
    BY <1>3, <2>1 DEF LTrim, ProfileType
  <2>3. Execute(prof, c) = LTrim(prof)
    BY <1>6 DEF Execute
  <2> QED
    BY <1>1, <1>6, <2>2, <2>3
<1>7. CASE c.op = "EXPIRE"
  <2>1. c.key \in ProfileKeys /\ Execute(prof, c) = Expire(prof, c.key)
    BY <1>7 DEF SoundCommand, Command, Execute
  <2>2. [prof EXCEPT !.ttl = @ \union {c.key}].hash = prof.hash
    BY DEF ProfileType
  <2>3. /\ Expire(prof, c.key).hash[k][v] <= prof.hash[k][v]
        /\ TTLDays > 0 => Expire(prof, c.key).hash[k][v] = prof.hash[k][v]
    BY <1>1, <1>3, <2>1, <2>2, ProfileAssumption DEF Expire
  <2> QED
    BY <1>1, <1>2, <1>7, <2>1, <2>3
<1> QED
  BY <1>4, <1>5, <1>6, <1>7 DEF SoundCommand, Command

-----------------------------------------------------------------------------
(* The invariants. *)

Busy == pc \in {"update", "commit"}

\* The loop's bookkeeping: it holds a real message while it is busy, a useful one
\* while it updates, and no offset points past the end of its partition.
Bookkeeping ==
    /\ Busy => hand \in Partition \X Nat /\ hand[2] \in 1..Len(log[hand[1]])
    /\ pc = "update" => InHand \in Useful
    /\ \A p \in Partition : pos[p] <= Len(log[p]) /\ committed[p] <= Len(log[p])

\* Why a commit is safe: every offset the reader has passed is settled or in
\* hand, and so is every offset below the one in hand, wherever a rejoin has put
\* the reader since.
Passed ==
    /\ CommittedIsSettled
    /\ pc # "down" =>
          \A p \in Partition : \A o \in 1..pos[p] :
              Ledger!Settled(p, o) \/ (Busy /\ hand = <<p, o>>)
    /\ Busy =>
          \A p \in Partition, o \in Nat \ {0} :
              /\ p = hand[1]
              /\ o < hand[2] \/ (o = hand[2] /\ pc = "commit")
              => Ledger!Settled(p, o)

IInv == TypeOK /\ Bookkeeping /\ Passed

-----------------------------------------------------------------------------
(* The steps. *)

\* Messages are added at the ends of the partitions: one by Publish, several at a time
\* by a producer that sends batches.
Grow ==
    /\ log' \in [Partition -> Seq(Message)]
    /\ \A p \in Partition, o \in Nat \ {0} :
         o <= Len(log[p]) => o <= Len(log'[p]) /\ log'[p][o] = log[p][o]
    /\ UNCHANGED <<committed, consumer, redis, counted, refused, faults>>

\* What the lemmas look at: a step of the consumer, its clients or its faults, or any
\* growth of the log.
Step ==
    \/ Grow
    \/ Loop
    \/ \E ip \in IP : Reset(ip) \/ \E k \in ProfileKeys : ExpireKey(ip, k)
    \/ Resend
    \/ GiveUp
    \/ Sigterm
    \/ Crash
    \/ Rejoin
    \/ UNCHANGED vars

LEMMA NextIsStep == TypeOK /\ [Next]_vars => Step
<1> SUFFICES ASSUME TypeOK, NEW q \in Partition, NEW m \in Message, Publish(q, m) PROVE Grow
  BY DEF Next, Environment, Step
<1>1. log' \in [Partition -> Seq(Message)]
  BY DEF TypeOK, Publish
<1>2. ASSUME NEW p \in Partition, NEW o \in Nat \ {0}, o <= Len(log[p])
      PROVE  o <= Len(log'[p]) /\ log'[p][o] = log[p][o]
  BY <1>2 DEF TypeOK, Publish
<1> QED
  BY <1>1, <1>2 DEF Grow, Publish

-----------------------------------------------------------------------------

LEMMA UsefulIsEvent == Useful \subseteq UsefulEvent
BY PersonalizerAssumption DEF Useful, UsefulEvent

LEMMA InitIInv == Init => IInv
<1> SUFFICES ASSUME Init PROVE IInv
  OBVIOUS
<1>1. NoProfile \in ProfileType
  BY DEF NoProfile, ProfileType, NoCounts
<1>2. TypeOK
  <2>1. cancelled \in BOOLEAN
    BY DEF Init
  <2>2. <<>> \in Seq(Message)
    OBVIOUS
  <2> QED
    BY <1>1, <2>1, <2>2 DEF Init, TypeOK, Locations
<1>3. Bookkeeping
  BY DEF Init, Bookkeeping, Busy
<1>4. Passed
  BY DEF Init, Passed, Busy, CommittedIsSettled
<1> QED
  BY <1>2, <1>3, <1>4 DEF IInv

\* Type correctness: each step keeps the variables in their sets.
LEMMA TypeStep == TypeOK /\ Bookkeeping /\ Step => TypeOK'
<1> SUFFICES ASSUME TypeOK, Bookkeeping, Step PROVE TypeOK'
  OBVIOUS
<1> USE DEF TypeOK, Locations
<1>1. CASE Grow
  BY <1>1 DEF Grow, consumer, redis
<1>2. ASSUME NEW ip \in IP, Reset(ip) PROVE TypeOK'
  <2>1. NoProfile \in ProfileType
    BY DEF NoProfile, ProfileType, NoCounts
  <2> QED
    BY <1>2, <2>1 DEF Reset, consumer
<1>3. ASSUME NEW ip \in IP, NEW k \in ProfileKeys, ExpireKey(ip, k) PROVE TypeOK'
  BY <1>3, DropKeyType DEF ExpireKey, consumer
<1>4. CASE Start
  <2>1. [p \in Partition |-> StartAt(p)] \in [Partition -> Nat]
    BY DEF StartAt
  <2> QED
    BY <1>4, <2>1 DEF Start, redis
<1>5. ASSUME NEW p \in Partition, Fetch(p) PROVE TypeOK'
  BY <1>5 DEF Fetch, redis
<1>6. ASSUME NEW p \in Partition, FetchCancelled(p) PROVE TypeOK'
  BY <1>6 DEF FetchCancelled, redis
<1>7. CASE RunCommand
  <2>1. InHand \in UsefulEvent
    BY <1>7, UsefulIsEvent DEF RunCommand, Bookkeeping
  <2>2. Pipeline \in Seq(SoundCommand)
    BY <2>1, UpdateCommandsSound DEF Pipeline
  <2>3. Pipeline[next] \in SoundCommand
    BY <1>7, <2>2 DEF RunCommand
  <2>4. profile' \in [IP -> ProfileType]
    BY <1>7, <2>3, ExecuteType DEF RunCommand
  <2> QED
    BY <1>7, <2>4 DEF RunCommand
<1>8. CASE UpdateDone
  BY <1>8 DEF UpdateDone, redis, Bookkeeping, Busy
<1>9. CASE Resend
  BY <1>9 DEF Resend, Fault, redis
<1>10. CASE GiveUp
  BY <1>10 DEF GiveUp, Fault, redis, LetGo, Bookkeeping, Busy
<1>11. CASE Commit
  <2>1. hand[1] \in Partition /\ hand[2] \in Nat
    BY <1>11 DEF Commit, Bookkeeping, Busy
  <2>2. committed' \in [Partition -> Nat] /\ faults' \in Nat
    BY <1>11, <2>1 DEF Commit, CommitOffset, Fault
  <2> QED
    BY <1>11, <2>2 DEF Commit, redis, LetGo
<1>12. CASE Stop
  BY <1>12 DEF Stop, redis
<1>13. CASE Sigterm
  BY <1>13 DEF Sigterm, Fault, redis
<1>14. CASE Crash
  BY <1>14 DEF Crash, Fault, redis, LetGo
<1>15. CASE Rejoin
  <2>1. [p \in Partition |-> StartAt(p)] \in [Partition -> Nat]
    BY DEF StartAt
  <2> QED
    BY <1>15, <2>1 DEF Rejoin, Fault, redis
<1>16. CASE UNCHANGED vars
  BY <1>16 DEF vars, consumer, redis
<1> QED
  BY <1>1, <1>2, <1>3, <1>4, <1>5, <1>6, <1>7, <1>8, <1>9, <1>10, <1>11, <1>12, <1>13, <1>14,
     <1>15, <1>16 DEF Step, Loop

\* Messages stay where they are, and a settled message stays settled.
LEMMA LogGrows ==
    ASSUME TypeOK, Step, NEW p \in Partition, NEW o \in 1..Len(log[p])
    PROVE  o \in 1..Len(log'[p]) /\ log'[p][o] = log[p][o]
<1>1. CASE Grow
  <2>1. o \in Nat \ {0} /\ o <= Len(log[p]) /\ log'[p] \in Seq(Message)
    BY <1>1 DEF TypeOK, Grow
  <2>2. o <= Len(log'[p]) /\ log'[p][o] = log[p][o]
    BY <1>1, <2>1 DEF Grow
  <2> QED
    BY <2>1, <2>2
<1>2. CASE log' = log
  BY <1>2
<1>3. Grow \/ log' = log
  BY DEF Step, Loop, Reset, ExpireKey, Start, Fetch, FetchCancelled, RunCommand,
         UpdateDone, Resend, GiveUp, Commit, Stop, Sigterm, Crash, Rejoin, vars
<1> QED
  BY <1>1, <1>2, <1>3

LEMMA HistoryGrows == Step => counted \subseteq counted' /\ refused \subseteq refused'
BY DEF Step, Loop, Grow, Reset, ExpireKey, Start, Fetch, FetchCancelled,
       RunCommand, UpdateDone, Resend, GiveUp, Commit, Stop, Sigterm, Crash, Rejoin, vars

LEMMA SettledStable ==
    ASSUME TypeOK, Step, NEW p \in Partition, NEW o \in 1..Len(log[p]),
           Ledger!Settled(p, o)
    PROVE  Ledger!Settled(p, o)'
BY LogGrows, HistoryGrows DEF Ledger!Settled

\* The steps that leave the loop where it is, apart from the message it holds.
LEMMA BookkeepingStep == TypeOK /\ Bookkeeping /\ Step => Bookkeeping'
<1> SUFFICES ASSUME TypeOK, Bookkeeping, Step PROVE Bookkeeping'
  OBVIOUS
<1>1. \A p \in Partition : Len(log[p]) \in Nat /\ Len(log'[p]) >= Len(log[p])
  <2>1. \A p \in Partition : log[p] \in Seq(Message) /\ log'[p] \in Seq(Message)
    BY TypeStep DEF TypeOK
  <2>2. ASSUME NEW p \in Partition PROVE Len(log'[p]) >= Len(log[p])
    <3>1. CASE Len(log[p]) = 0
      BY <2>1, <3>1
    <3>2. CASE Len(log[p]) # 0
      <4>1. Len(log[p]) \in 1..Len(log[p])
        BY <2>1, <3>2
      <4> QED
        BY <2>1, <4>1, LogGrows
    <3> QED
      BY <3>1, <3>2
  <2> QED
    BY <2>1, <2>2
<1>2. CASE /\ hand' = hand
           /\ pc' = pc \/ ~Busy'
           /\ UNCHANGED <<pos, committed>>
  <2>1. Busy' => hand' \in Partition \X Nat /\ hand'[2] \in 1..Len(log'[hand'[1]])
    BY <1>2, LogGrows DEF Bookkeeping, Busy
  <2>2. pc' = "update" => InHand' \in Useful
    BY <1>2, LogGrows DEF Bookkeeping, Busy, InHand
  <2>3. \A p \in Partition : pos'[p] <= Len(log'[p]) /\ committed'[p] <= Len(log'[p])
    BY <1>1, <1>2, TypeStep DEF Bookkeeping, TypeOK
  <2> QED
    BY <2>1, <2>2, <2>3 DEF Bookkeeping, Busy
<1>3. CASE Start
  BY <1>1, <1>3, TypeStep DEF Start, StartAt, Bookkeeping, Busy, TypeOK
<1>4. ASSUME NEW p \in Partition, Fetch(p) PROVE Bookkeeping'
  BY <1>4 DEF Fetch, Bookkeeping, Busy, TypeOK, InHand
<1>5. ASSUME NEW p \in Partition, FetchCancelled(p) PROVE Bookkeeping'
  BY <1>5 DEF FetchCancelled, Bookkeeping, Busy, TypeOK
<1>6. CASE UpdateDone
  BY <1>6 DEF UpdateDone, Bookkeeping, Busy, TypeOK
<1>7. CASE GiveUp
  BY <1>7 DEF GiveUp, Bookkeeping, Busy, TypeOK
<1>8. CASE Commit
  <2>1. \A p \in Partition : committed'[p] <= Len(log[p])
    <3>1. hand[1] \in Partition /\ hand[2] \in 1..Len(log[hand[1]])
      BY <1>8 DEF Commit, Bookkeeping, Busy
    <3>2. committed' = [committed EXCEPT ![hand[1]] = hand[2]] \/ committed' = committed
      BY <1>8 DEF Commit, CommitOffset
    <3>3. committed \in [Partition -> Nat]
      BY DEF TypeOK
    <3> QED
      BY <3>1, <3>2, <3>3, <1>1 DEF Bookkeeping
  <2> QED
    BY <1>8, <2>1 DEF Commit, Bookkeeping, Busy
<1>9. CASE Crash
  BY <1>9 DEF Crash, Bookkeeping, Busy
<1>10. CASE Rejoin
  BY <1>10 DEF Rejoin, StartAt, Bookkeeping, Busy, InHand, TypeOK
<1> QED
  BY <1>2, <1>3, <1>4, <1>5, <1>6, <1>7, <1>8, <1>9, <1>10
  DEF Step, Loop, Grow, Reset, ExpireKey, RunCommand, Resend, Stop, Sigterm,
      vars, consumer, Busy

LEMMA PassedStep == IInv /\ Step => Passed'
<1> SUFFICES ASSUME IInv, Step PROVE Passed'
  OBVIOUS
<1>1. TypeOK /\ Bookkeeping /\ Passed
  BY DEF IInv
<1>2. \A p \in Partition, o \in Nat \ {0} :
         o <= Len(log[p]) /\ Ledger!Settled(p, o) => Ledger!Settled(p, o)'
  <2>1. ASSUME NEW p \in Partition, NEW o \in Nat \ {0}, o <= Len(log[p]), Ledger!Settled(p, o)
        PROVE  Ledger!Settled(p, o)'
    <3>1. o \in 1..Len(log[p])
      BY <2>1, <1>1 DEF TypeOK
    <3> QED
      BY <2>1, <3>1, <1>1, SettledStable
  <2> QED
    BY <2>1
<1>3. ASSUME NEW p \in Partition, NEW o \in 1..committed[p] PROVE Ledger!Settled(p, o)'
  BY <1>1, <1>2 DEF Passed, CommittedIsSettled, Bookkeeping, TypeOK
<1>4. ASSUME pc # "down", NEW p \in Partition, NEW o \in 1..pos[p]
      PROVE  Ledger!Settled(p, o)' \/ (Busy /\ hand = <<p, o>>)
  BY <1>1, <1>2, <1>4 DEF Passed, Bookkeeping, TypeOK
<1>5. ASSUME Busy, NEW p \in Partition, NEW o \in Nat \ {0}, p = hand[1],
             o < hand[2] \/ (o = hand[2] /\ pc = "commit")
      PROVE  Ledger!Settled(p, o)'
  <2>1. o <= Len(log[p])
    BY <1>1, <1>5 DEF Bookkeeping, TypeOK
  <2> QED
    BY <1>1, <1>2, <1>5, <2>1 DEF Passed
<1>6. Busy => /\ hand = << hand[1], hand[2] >>
              /\ hand[1] \in Partition
              /\ hand[2] \in Nat \ {0}
  BY <1>1 DEF Bookkeeping, TypeOK
\* Steps that move neither an offset nor the loop.
<1>7. CASE UNCHANGED <<pc, hand, pos, committed>>
  BY <1>3, <1>4, <1>5, <1>7 DEF Passed, Busy, CommittedIsSettled
\* Fetch takes the next message in hand: all below it is settled, because nothing
\* was in hand before.
<1>8. ASSUME NEW q \in Partition, Fetch(q) PROVE Passed'
  <2>1. /\ ~Busy /\ Busy' /\ pc # "down" /\ hand' = <<q, pos[q] + 1>>
        /\ pos' = [pos EXCEPT ![q] = @ + 1]
        /\ pos[q] \in Nat /\ UNCHANGED committed
    BY <1>8, <1>1 DEF Fetch, Busy, TypeOK
  <2>2. \A p \in Partition : \A o \in 1..pos[p] : Ledger!Settled(p, o)'
    BY <2>1, <1>4
  <2>3. ASSUME NEW p \in Partition, NEW o \in 1..pos'[p]
        PROVE  Ledger!Settled(p, o)' \/ hand' = <<p, o>>
    <3>1. CASE p = q /\ o = pos[q] + 1
      BY <2>1, <3>1
    <3>2. CASE ~(p = q /\ o = pos[q] + 1)
      <4>1. o \in 1..pos[p]
        BY <2>1, <3>2, <1>1 DEF TypeOK
      <4> QED
        BY <2>2, <4>1
    <3> QED
      BY <3>1, <3>2
  <2>4. ASSUME pc' = "commit", NEW o \in Nat, o = pos[q] + 1 PROVE Ledger!Settled(q, o)'
    BY <1>8, <2>4 DEF Fetch, Ledger!Settled
  <2>5. ASSUME NEW p \in Partition, NEW o \in Nat \ {0}, p = hand'[1],
               o < hand'[2] \/ (o = hand'[2] /\ pc' = "commit")
        PROVE  Ledger!Settled(p, o)'
    <3>1. p = q /\ hand'[2] = pos[q] + 1
      BY <2>1, <2>5
    <3>2. CASE o < pos[q] + 1
      <4>1. o \in 1..pos[q]
        BY <2>1, <3>2
      <4> QED
        BY <2>2, <3>1, <4>1
    <3>3. CASE o = pos[q] + 1 /\ pc' = "commit"
      BY <2>4, <3>1, <3>3
    <3> QED
      BY <2>5, <3>1, <3>2, <3>3
  <2>6. CommittedIsSettled'
    BY <1>3, <2>1 DEF CommittedIsSettled
  <2> QED
    BY <2>1, <2>3, <2>5, <2>6 DEF Passed
\* The same for an event that the cancelled context refuses on the spot.
<1>9. ASSUME NEW q \in Partition, FetchCancelled(q) PROVE Passed'
  <2>1. /\ ~Busy /\ ~Busy' /\ pc # "down" /\ pos' = [pos EXCEPT ![q] = @ + 1]
        /\ pos[q] \in Nat /\ UNCHANGED <<committed, pc>>
        /\ <<q, pos[q] + 1>> \in refused'
    BY <1>9, <1>1 DEF FetchCancelled, Busy, TypeOK
  <2>2. ASSUME NEW p \in Partition, NEW o \in 1..pos'[p] PROVE Ledger!Settled(p, o)'
    <3>1. CASE p = q /\ o = pos[q] + 1
      BY <2>1, <3>1 DEF Ledger!Settled
    <3>2. CASE ~(p = q /\ o = pos[q] + 1)
      <4>1. o \in 1..pos[p]
        BY <2>1, <3>2, <1>1 DEF TypeOK
      <4> QED
        BY <2>1, <1>4, <4>1
    <3> QED
      BY <3>1, <3>2
  <2>3. CommittedIsSettled'
    BY <1>3, <2>1 DEF CommittedIsSettled
  <2> QED
    BY <2>1, <2>2, <2>3 DEF Passed
\* An update that came through or was refused settles the message in hand.
<1>10. ASSUME UpdateDone \/ GiveUp, NEW p \in Partition, NEW o \in Nat \ {0}, hand = <<p, o>>
       PROVE  Ledger!Settled(p, o)'
  BY <1>10 DEF UpdateDone, GiveUp, Ledger!Settled
<1>11. CASE UpdateDone
  <2>1. /\ Busy /\ Busy' /\ pc # "down" /\ UNCHANGED <<hand, pos, committed>>
    BY <1>11 DEF UpdateDone, Busy
  <2>2. ASSUME NEW p \in Partition, NEW o \in Nat \ {0}, p = hand'[1],
               o < hand'[2] \/ (o = hand'[2] /\ pc' = "commit")
        PROVE  Ledger!Settled(p, o)'
    <3>1. CASE o < hand[2]
      BY <2>1, <2>2, <3>1, <1>5
    <3>2. CASE o = hand[2]
      BY <2>1, <2>2, <3>2, <1>6, <1>10, <1>11
    <3> QED
      BY <2>1, <2>2, <3>1, <3>2
  <2>3. CommittedIsSettled'
    BY <1>3, <2>1 DEF CommittedIsSettled
  <2>4. \A p \in Partition : \A o \in 1..pos[p] : Ledger!Settled(p, o)' \/ hand = <<p, o>>
    BY <2>1, <1>4
  <2> QED
    BY <2>1, <2>2, <2>3, <2>4 DEF Passed
<1>12. CASE GiveUp
  <2>1. /\ Busy /\ ~Busy' /\ pc # "down" /\ UNCHANGED <<pos, committed>>
    BY <1>12 DEF GiveUp, Busy
  <2>2. ASSUME NEW p \in Partition, NEW o \in 1..pos[p] PROVE Ledger!Settled(p, o)'
    <3>1. pos[p] \in Nat
      BY <1>1 DEF TypeOK
    <3> QED
      BY <2>1, <3>1, <1>4, <1>10, <1>12
  <2>3. CommittedIsSettled'
    BY <1>3, <2>1 DEF CommittedIsSettled
  <2> QED
    BY <2>1, <2>2, <2>3 DEF Passed
\* Commit moves the committed offset to the one in hand: all up to it is settled.
<1>13. CASE Commit
  <2>1. /\ Busy /\ ~Busy' /\ pc = "commit" /\ pc' = "read" /\ UNCHANGED pos
        /\ committed' = [committed EXCEPT ![hand[1]] = hand[2]] \/ committed' = committed
    BY <1>13 DEF Commit, CommitOffset, Busy
  <2>2. ASSUME NEW p \in Partition, NEW o \in Nat \ {0}, p = hand[1], o <= hand[2]
        PROVE  Ledger!Settled(p, o)'
    BY <2>1, <2>2, <1>5, <1>6
  <2>3. ASSUME NEW p \in Partition, NEW o \in 1..committed'[p] PROVE Ledger!Settled(p, o)'
    <3>1. CASE committed'[p] = committed[p]
      BY <2>3, <3>1, <1>3
    <3>2. CASE p = hand[1] /\ committed'[p] = hand[2]
      BY <2>2, <2>3, <3>2, <1>6, <2>1
    <3> QED
      BY <2>1, <3>1, <3>2, <1>1 DEF TypeOK
  <2>4. ASSUME NEW p \in Partition, NEW o \in 1..pos[p] PROVE Ledger!Settled(p, o)'
    <3>1. CASE hand = <<p, o>>
      <4>1. p = hand[1] /\ o = hand[2]
        BY <3>1
      <4> QED
        BY <4>1, <2>1, <2>2, <1>6
    <3>2. CASE hand # <<p, o>>
      BY <2>1, <3>2, <1>4
    <3> QED
      BY <3>1, <3>2
  <2> QED
    BY <2>1, <2>3, <2>4 DEF Passed, CommittedIsSettled
\* A stopped loop has passed nothing; a joining reader starts at the committed offsets.
<1>14. CASE Crash \/ Stop
  BY <1>14, <1>3 DEF Crash, Stop, Passed, Busy, CommittedIsSettled
<1>15. CASE Start \/ Rejoin
  <2>1. /\ pos' = committed /\ UNCHANGED committed
        /\ ~Busy' \/ (UNCHANGED <<pc, hand>>)
    BY <1>15, <1>1 DEF Start, Rejoin, StartAt, Busy, TypeOK
  <2>2. ASSUME Busy', NEW p \in Partition, NEW o \in Nat \ {0}, p = hand'[1],
               o < hand'[2] \/ (o = hand'[2] /\ pc' = "commit")
        PROVE  Ledger!Settled(p, o)'
    BY <2>1, <2>2, <1>5 DEF Busy
  <2> QED
    BY <2>1, <2>2, <1>3 DEF Passed, CommittedIsSettled
<1> QED
  BY <1>7, <1>8, <1>9, <1>11, <1>12, <1>13, <1>14, <1>15
  DEF Step, Loop, Grow, Reset, ExpireKey, RunCommand, Resend, Sigterm, vars,
      consumer

LEMMA InvariantHolds == Spec => []IInv
<1>1. Init => IInv
  BY InitIInv
<1>2. IInv /\ [Next]_vars => IInv'
  BY NextIsStep, TypeStep, BookkeepingStep, PassedStep DEF IInv
<1> QED
  BY <1>1, <1>2, PTL DEF Spec

\* The variables of the consumer and of Redis keep their types: in particular no
\* pipeline ever puts anything but queries into the list of recent searches and
\* counts into the hashes (profile.go:74-97).
THEOREM TypeCorrect == Spec => []TypeOK
BY InvariantHolds, PTL DEF IInv

\* No commit passes a message that is neither counted, refused nor useless, for
\* every interleaving of publishes, crashes, rejoins, shutdowns and failures
\* (main.go:80-123).
THEOREM CommitsAreSettled == Spec => []CommittedIsSettled
BY InvariantHolds, PTL DEF IInv, Passed

\* The consumer loop implements the ledger: each of its steps is one step of the
\* ledger or none.
THEOREM LedgerImplemented == Spec => ImplementsLedger
<1>1. Init => Ledger!Init
  BY DEF Init, Ledger!Init
<1>2. ASSUME IInv, [Next]_vars
      PROVE  Ledger!Next \/ UNCHANGED Ledger!ledger
  <2>1. ASSUME NEW p \in Partition, NEW m \in Message, Publish(p, m) PROVE Ledger!Next
    BY <2>1 DEF Publish, Ledger!Next, Ledger!Publish
  <2>2. Busy => hand[1] \in Partition /\ hand[2] \in 1..Len(log[hand[1]])
                /\ hand = << hand[1], hand[2] >>
    BY <1>2 DEF IInv, Bookkeeping
  <2>3. CASE UpdateDone
    <3>1. Ledger!Count(hand[1], hand[2])
      BY <2>2, <2>3 DEF UpdateDone, Busy, Ledger!Count
    <3> QED
      BY <2>2, <2>3, <3>1 DEF UpdateDone, Busy, Ledger!Next
  <2>4. CASE GiveUp
    <3>1. Ledger!Refuse(hand[1], hand[2])
      BY <2>2, <2>4 DEF GiveUp, Busy, Ledger!Refuse
    <3> QED
      BY <2>2, <2>4, <3>1 DEF GiveUp, Busy, Ledger!Next
  <2>5. ASSUME NEW p \in Partition, FetchCancelled(p) PROVE Ledger!Next
    <3>1. pos[p] + 1 \in 1..Len(log[p])
      BY <1>2, <2>5 DEF FetchCancelled, IInv, TypeOK
    <3>2. Ledger!Refuse(p, pos[p] + 1)
      BY <2>5, <3>1 DEF FetchCancelled, Ledger!Refuse
    <3> QED
      BY <3>1, <3>2 DEF Ledger!Next
  <2>6. CASE Commit
    <3>1. CASE committed' = committed
      BY <2>6, <3>1 DEF Commit, Ledger!ledger
    <3>2. CASE committed' = [committed EXCEPT ![hand[1]] = hand[2]]
      <4>1. Busy /\ pc = "commit"
        BY <2>6 DEF Commit, Busy
      <4>2. ASSUME NEW i \in 1..hand[2] PROVE Ledger!Settled(hand[1], i)
        <5>1. i \in Nat \ {0} /\ (i < hand[2] \/ i = hand[2])
          BY <2>2, <4>1, <4>2
        <5> QED
          BY <1>2, <2>2, <4>1, <5>1 DEF IInv, Passed
      <4>3. Ledger!Commit(hand[1], hand[2])
        BY <2>2, <2>6, <3>2, <4>1, <4>2 DEF Commit, Ledger!Commit
      <4> QED
        BY <2>2, <4>1, <4>3 DEF Ledger!Next
    <3> QED
      BY <2>6, <3>1, <3>2 DEF Commit, CommitOffset
  <2>7. CASE UNCHANGED <<log, committed, counted, refused>>
    BY <2>7 DEF Ledger!ledger
  <2> QED
    BY <1>2, <2>1, <2>3, <2>4, <2>5, <2>6, <2>7
    DEF Next, Loop, Environment, Reset, ExpireKey, Start, Fetch, RunCommand, Resend, Stop,
        Sigterm, Crash, Rejoin, vars
<1> QED
  BY <1>1, <1>2, InvariantHolds, PTL DEF Spec, ImplementsLedger, Ledger!Spec

-----------------------------------------------------------------------------
(* Redeploying the personalizer loses nothing while Redis answers.         *)
(*                                                                         *)
(* A cancelled loop may refuse events it has read, but it commits none of  *)
(* those behind them, because it can only read and refuse from then on.    *)
(* This is where it matters that every message is useful: a useless one is *)
(* committed even then.                                                    *)

NothingLost ==
    /\ CommittedIsCounted
    /\ pc # "down" /\ ~(cancelled /\ pc = "read") =>
          \A p \in Partition : \A o \in 1..pos[p] :
              <<p, o>> \in counted \/ (Busy /\ hand = <<p, o>>)
    /\ Busy =>
          \A p \in Partition, o \in Nat \ {0} :
              /\ p = hand[1]
              /\ o < hand[2] \/ (o = hand[2] /\ pc = "commit")
              => <<p, o>> \in counted

LEMMA NothingLostStep ==
    ASSUME Message \subseteq Useful, "break" \notin FaultKinds,
           IInv, NothingLost, Step
    PROVE  NothingLost'
<1>1. TypeOK /\ Bookkeeping
  BY DEF IInv
<1>2. counted \subseteq counted'
  BY HistoryGrows
<1>3. ASSUME NEW p \in Partition, NEW o \in 1..Len(log[p]) PROVE log[p][o] \in Useful
  BY <1>1, <1>3 DEF TypeOK
<1>4. ASSUME NEW p \in Partition, NEW o \in 1..committed[p] PROVE <<p, o>> \in counted'
  <2>1. o \in 1..Len(log[p])
    BY <1>1 DEF TypeOK, Bookkeeping
  <2> QED
    BY <1>2, <1>3, <2>1 DEF NothingLost, CommittedIsCounted
<1>5. ASSUME CommittedIsCounted, NEW p \in Partition, NEW o \in 1..committed[p]
      PROVE  <<p, o>> \in counted
  <2>1. o \in 1..Len(log[p])
    BY <1>1 DEF TypeOK, Bookkeeping
  <2> QED
    BY <1>3, <1>5, <2>1 DEF CommittedIsCounted
<1>6. ASSUME pc # "down", ~(cancelled /\ pc = "read"), NEW p \in Partition, NEW o \in 1..pos[p]
      PROVE  <<p, o>> \in counted' \/ (Busy /\ hand = <<p, o>>)
  BY <1>2, <1>6 DEF NothingLost
<1>7. ASSUME Busy, NEW p \in Partition, NEW o \in Nat \ {0}, p = hand[1],
             o < hand[2] \/ (o = hand[2] /\ pc = "commit")
      PROVE  <<p, o>> \in counted'
  BY <1>2, <1>7 DEF NothingLost
<1>8. Busy => /\ hand = << hand[1], hand[2] >>
              /\ hand[1] \in Partition
              /\ hand[2] \in Nat \ {0}
  BY <1>1 DEF Bookkeeping, TypeOK
<1>9. CASE UNCHANGED <<pc, hand, pos, committed, cancelled>>
  BY <1>4, <1>6, <1>7, <1>9 DEF NothingLost, CommittedIsCounted, Busy
<1>10. CASE Sigterm
  BY <1>10, <1>4, <1>6, <1>7 DEF Sigterm, NothingLost, CommittedIsCounted, Busy
<1>11. ASSUME NEW q \in Partition, Fetch(q) PROVE NothingLost'
  <2>1. log[q][pos[q] + 1] \in Useful
    BY <1>1, <1>11, <1>3 DEF Fetch, TypeOK
  <2>2. /\ ~Busy /\ pc' = "update" /\ pc = "read" /\ ~cancelled /\ hand' = <<q, pos[q] + 1>>
        /\ pos' = [pos EXCEPT ![q] = @ + 1]
        /\ pos[q] \in Nat /\ UNCHANGED <<committed, counted>>
    BY <1>1, <1>11, <2>1 DEF Fetch, Busy, TypeOK
  <2>3. ASSUME NEW p \in Partition, NEW o \in 1..pos'[p]
        PROVE  <<p, o>> \in counted' \/ hand' = <<p, o>>
    <3>1. CASE p = q /\ o = pos[q] + 1
      BY <2>2, <3>1
    <3>2. CASE ~(p = q /\ o = pos[q] + 1)
      <4>1. o \in 1..pos[p]
        BY <2>2, <3>2, <1>1 DEF TypeOK
      <4> QED
        BY <2>2, <1>6, <4>1
    <3> QED
      BY <3>1, <3>2
  <2>4. ASSUME NEW o \in Nat \ {0}, o < hand'[2] PROVE <<q, o>> \in counted'
    <3>1. o \in 1..pos[q]
      BY <2>2, <2>4
    <3> QED
      BY <2>2, <1>6, <3>1
  <2> QED
    BY <2>2, <2>3, <2>4, <1>4 DEF NothingLost, CommittedIsCounted, Busy
<1>12. ASSUME NEW q \in Partition, FetchCancelled(q) PROVE NothingLost'
  BY <1>12, <1>4 DEF FetchCancelled, NothingLost, CommittedIsCounted, Busy
<1>13. CASE UpdateDone
  <2>1. /\ Busy /\ pc' = "commit" /\ pc = "update" /\ UNCHANGED <<hand, pos, committed>>
        /\ hand \in counted'
    BY <1>13 DEF UpdateDone, Busy
  <2>2. ASSUME NEW p \in Partition, NEW o \in Nat \ {0}, p = hand[1], o <= hand[2]
        PROVE  <<p, o>> \in counted'
    BY <2>1, <2>2, <1>7, <1>8
  <2>3. \A p \in Partition : \A o \in 1..pos[p] : <<p, o>> \in counted' \/ hand = <<p, o>>
    BY <2>1, <1>6
  <2> QED
    BY <2>1, <2>2, <2>3, <1>4, <1>8 DEF NothingLost, CommittedIsCounted, Busy
\* The only step that could lose an event needs a connection that breaks.
<1>14. CASE Resend \/ GiveUp
  BY <1>14 DEF Resend, GiveUp, Fault
<1>15. CASE Commit
  <2>1. /\ Busy /\ pc = "commit" /\ pc' = "read" /\ UNCHANGED <<pos, counted>>
        /\ committed' = [committed EXCEPT ![hand[1]] = hand[2]] \/ committed' = committed
    BY <1>15 DEF Commit, CommitOffset, Busy
  <2>2. ASSUME NEW p \in Partition, NEW o \in Nat \ {0}, p = hand[1], o <= hand[2]
        PROVE  <<p, o>> \in counted'
    BY <2>1, <2>2, <1>7, <1>8
  <2>3. ASSUME NEW p \in Partition, NEW o \in 1..committed'[p] PROVE <<p, o>> \in counted'
    <3>1. CASE committed'[p] = committed[p]
      BY <2>3, <3>1, <1>4
    <3>2. CASE p = hand[1] /\ committed'[p] = hand[2]
      BY <2>2, <2>3, <3>2, <1>8, <2>1
    <3> QED
      BY <2>1, <3>1, <3>2, <1>1 DEF TypeOK
  <2>4. ASSUME NEW p \in Partition, NEW o \in 1..pos[p] PROVE <<p, o>> \in counted'
    <3>1. CASE hand = <<p, o>>
      <4>1. p = hand[1] /\ o = hand[2]
        BY <3>1
      <4> QED
        BY <4>1, <2>1, <2>2, <1>8
    <3>2. CASE hand # <<p, o>>
      BY <2>1, <3>2, <1>6
    <3> QED
      BY <3>1, <3>2
  <2> QED
    BY <2>1, <2>3, <2>4 DEF NothingLost, CommittedIsCounted, Busy
<1>16. CASE Crash \/ Stop
  BY <1>16, <1>4 DEF Crash, Stop, NothingLost, CommittedIsCounted, Busy
<1>17. CASE Start \/ Rejoin
  <2>1. /\ pos' = committed /\ UNCHANGED committed
        /\ ~Busy' \/ (UNCHANGED <<pc, hand>>)
    BY <1>17, <1>1 DEF Start, Rejoin, StartAt, Busy, TypeOK
  <2>2. ASSUME Busy', NEW p \in Partition, NEW o \in Nat \ {0}, p = hand'[1],
               o < hand'[2] \/ (o = hand'[2] /\ pc' = "commit")
        PROVE  <<p, o>> \in counted'
    BY <2>1, <2>2, <1>7 DEF Busy
  <2> QED
    BY <2>1, <2>2, <1>4 DEF NothingLost, CommittedIsCounted
<1> QED
  BY <1>9, <1>10, <1>11, <1>12, <1>13, <1>14, <1>15, <1>16, <1>17
  DEF Step, Loop, Grow, Reset, ExpireKey, RunCommand, vars, consumer

\* While Redis answers and the topic holds search events only, delivery is at
\* least once over any number of crashes, redeploys, rejoins and failed commits
\* (README.md:458).
THEOREM RedeployLosesNothing ==
    ASSUME Message \subseteq Useful, "break" \notin FaultKinds
    PROVE  Spec => []CommittedIsCounted
<1>1. Init => NothingLost
  BY DEF Init, NothingLost, CommittedIsCounted, Busy
<1>2. IInv /\ NothingLost /\ [Next]_vars => NothingLost'
  BY NextIsStep, NothingLostStep DEF IInv
<1> QED
  BY <1>1, <1>2, InvariantHolds, PTL DEF Spec, NothingLost

-----------------------------------------------------------------------------
(* What a pipeline leaves behind in Redis, wherever it is cut.             *)
(*                                                                         *)
(* LPUSH and LTRIM are next to each other in the pipeline, so between them *)
(* the list is one longer than before, and after the second it is at its   *)
(* limit again; each time the pipeline breaks off in between there is a    *)
(* fault to account for the extra entry.  The EXPIREs come last, so a key  *)
(* that lacks an expiry has its EXPIRE still before it.                    *)

ListInBounds ==
    \A ip \in IP :
        LET n == Len(profile[ip].recent)
            len == Len(Pipeline)
        IN  /\ ~Updating(ip) => n <= RecentLimit + faults
            /\ Updating(ip) =>
                 /\ next <= len - 5 => n <= RecentLimit + faults
                 /\ next = len - 4 => n <= RecentLimit + faults + 1
                 /\ next > len - 4 => n <= RecentLimit
            /\ JustUpdated(ip) => n <= RecentLimit

LooseOnlyBefore ==
    \A ip \in IP : \A k \in ProfileKeys : Loose(profile[ip], k) =>
        /\ ~Updating(ip) => faults > 0
        /\ Updating(ip) => next <= Len(Pipeline) - FromEnd(k)
        /\ ~JustUpdated(ip)

\* The message in hand stays what it is.
LEMMA InHandStays ==
    ASSUME TypeOK, Bookkeeping, Step, Busy, hand' = hand
    PROVE  InHand' = InHand
BY LogGrows DEF Bookkeeping, InHand

LEMMA PipelineFacts ==
    ASSUME TypeOK, Bookkeeping, pc = "update"
    PROVE  /\ Len(Pipeline) \in 6..9 /\ next \in Nat \ {0}
           /\ next <= Len(Pipeline) => Pipeline[next] \in SoundCommand
           /\ Pipeline[Len(Pipeline) - 5].op = "LPUSH"
           /\ Pipeline[Len(Pipeline) - 4].op = "LTRIM"
           /\ \A i \in 1..(Len(Pipeline) - 6) : Pipeline[i].op = "HINCRBY"
           /\ \A k \in ProfileKeys : Pipeline[Len(Pipeline) - FromEnd(k)] = Refreshed(k)
<1>1. InHand \in UsefulEvent
  BY UsefulIsEvent DEF Bookkeeping
<1>2. Pipeline \in Seq(SoundCommand) /\ next \in Nat \ {0}
  BY <1>1, UpdateCommandsSound DEF Pipeline, TypeOK
<1>3. next <= Len(Pipeline) => Pipeline[next] \in SoundCommand
  BY <1>2
<1> QED
  BY <1>1, <1>2, <1>3, PipelineShape DEF Pipeline

\* The steps that leave the profiles and the loop's place in the pipeline alone.
Still ==
    /\ profile' = profile /\ faults' >= faults
    /\ \/ UNCHANGED <<pc, hand, next>> /\ (Busy => InHand' = InHand)
       \/ ~Busy /\ ~Busy' /\ faults' = faults

\* The steps that give up a message with a fault.
Abandon ==
    /\ profile' = profile /\ faults' = faults + 1 /\ ~Busy'

LEMMA StepKinds ==
    ASSUME TypeOK, Bookkeeping, Step
    PROVE  \/ Still \/ Abandon \/ RunCommand \/ UpdateDone \/ Resend \/ Commit
           \/ \E p \in Partition : Fetch(p)
           \/ \E ip \in IP : Reset(ip) \/ \E k \in ProfileKeys : ExpireKey(ip, k)
<1> USE DEF TypeOK
<1>1. ASSUME UNCHANGED <<pc, hand, next, profile>>, faults' = faults \/ faults' = faults + 1
      PROVE  Still
  BY <1>1, InHandStays DEF Still
<1>2. CASE UNCHANGED vars
  BY <1>1, <1>2 DEF vars, consumer, redis
<1>3. CASE Grow
  BY <1>1, <1>3 DEF Grow, consumer, redis
<1>4. ASSUME NEW p \in Partition, FetchCancelled(p) PROVE Still
  BY <1>1, <1>4 DEF FetchCancelled, redis
<1>5. CASE Sigterm
  BY <1>1, <1>5 DEF Sigterm, Fault, redis
<1>6. CASE Rejoin
  BY <1>1, <1>6 DEF Rejoin, Fault, redis
<1>7. CASE Start \/ Stop
  BY <1>7 DEF Start, Stop, redis, Still, Busy
<1>8. CASE Crash \/ GiveUp
  BY <1>8 DEF Crash, GiveUp, Fault, redis, Abandon, Busy
<1> QED
  BY <1>2, <1>3, <1>4, <1>5, <1>6, <1>7, <1>8 DEF Step, Loop

\* The list: each command, and each way to leave the pipeline.
LEMMA ListStep ==
    ASSUME TypeOK, Bookkeeping, RecentLimit >= 1, ListInBounds, Step
    PROVE  ListInBounds'
<1>1. TypeOK' /\ Bookkeeping'
  BY TypeStep, BookkeepingStep
<1>2. /\ RecentLimit \in Nat \ {0} /\ faults \in Nat /\ faults' \in Nat /\ next \in Nat \ {0}
  BY <1>1, ProfileAssumption DEF TypeOK
<1>3. \A ip \in IP : Len(profile[ip].recent) \in Nat /\ Len(profile'[ip].recent) \in Nat
  BY <1>1 DEF TypeOK, ProfileType
<1>4. \A ip \in IP : ~(Updating(ip) /\ JustUpdated(ip))
  BY DEF Updating, JustUpdated
<1>5. CASE Still
  <2>1. CASE UNCHANGED <<pc, hand, next>> /\ (Busy => InHand' = InHand)
    <3>1. \A ip \in IP : Updating(ip)' = Updating(ip) /\ JustUpdated(ip)' = JustUpdated(ip)
      BY <2>1 DEF Updating, JustUpdated, Busy
    <3>2. \A ip \in IP : Updating(ip) => Pipeline' = Pipeline
      BY <2>1 DEF Updating, Pipeline, Busy
    <3> QED
      BY <1>2, <1>3, <1>5, <2>1, <3>1, <3>2 DEF ListInBounds, Still
  <2>2. CASE ~Busy /\ ~Busy'
    BY <1>2, <1>3, <1>5, <2>2 DEF ListInBounds, Still, Updating, JustUpdated, Busy
  <2> QED
    BY <1>5, <2>1, <2>2 DEF Still
<1>6. CASE Abandon
  <2>1. \A ip \in IP : Len(profile[ip].recent) <= RecentLimit + faults + 1
    <3> TAKE ip \in IP
    <3>1. CASE Updating(ip)
      <4>1. Len(Pipeline) \in 6..9
        BY <3>1, PipelineFacts DEF Updating
      <4> QED
        BY <1>2, <1>3, <3>1, <4>1 DEF ListInBounds
    <3>2. CASE ~Updating(ip)
      BY <1>2, <1>3, <3>2 DEF ListInBounds
    <3> QED
      BY <3>1, <3>2
  <2> QED
    BY <1>2, <1>3, <1>6, <2>1 DEF ListInBounds, Abandon, Updating, JustUpdated, Busy
<1>7. CASE Resend
  <2>1. /\ pc = "update" /\ pc' = pc /\ InHand' = InHand /\ next' = 1 /\ faults' = faults + 1
        /\ profile' = profile
    BY <1>7, InHandStays DEF Resend, Fault, redis, Busy
  <2>2. Len(Pipeline) \in 6..9 /\ Pipeline' = Pipeline
    BY <2>1, PipelineFacts DEF Pipeline
  <2>3. \A ip \in IP : Updating(ip)' = Updating(ip) /\ ~JustUpdated(ip)'
    BY <2>1 DEF Updating, JustUpdated
  <2> QED
    BY <1>2, <1>3, <2>1, <2>2, <2>3 DEF ListInBounds
<1>8. CASE UpdateDone
  <2>1. /\ pc = "update" /\ pc' = "commit" /\ InHand' = InHand /\ profile' = profile
        /\ faults' = faults /\ next > Len(Pipeline)
    BY <1>8, InHandStays DEF UpdateDone, redis, Busy
  <2>2. Len(Pipeline) \in 6..9
    BY <2>1, PipelineFacts
  <2>3. \A ip \in IP : ~Updating(ip)' /\ (JustUpdated(ip)' => Updating(ip))
    BY <2>1 DEF Updating, JustUpdated
  <2> QED
    BY <1>2, <1>3, <2>1, <2>2, <2>3 DEF ListInBounds
<1>9. CASE Commit
  <2>1. pc = "commit" /\ pc' = "read" /\ profile' = profile /\ faults' >= faults
    BY <1>2, <1>9 DEF Commit, redis, Fault
  <2> QED
    BY <1>2, <1>3, <2>1 DEF ListInBounds, Updating, JustUpdated
<1>10. ASSUME NEW p \in Partition, Fetch(p) PROVE ListInBounds'
  <2>1. /\ pc = "read" /\ profile' = profile /\ faults' = faults /\ next' = 1
        /\ pc' = "commit" => InHand' \notin Useful
    BY <1>10 DEF Fetch, redis, InHand
  <2>2. pc' = "update" => Len(Pipeline') \in 6..9
    <3>1. ASSUME pc' = "update" PROVE InHand' \in UsefulEvent
      BY <1>1, <3>1, UsefulIsEvent DEF Bookkeeping
    <3> QED
      BY <3>1, PipelineShape DEF Pipeline
  <2>3. \A ip \in IP : /\ ~Updating(ip) /\ ~JustUpdated(ip)' /\ ~JustUpdated(ip)
                       /\ Updating(ip)' => pc' = "update"
    BY <2>1 DEF Updating, JustUpdated
  <2>4. \A ip \in IP : Len(profile'[ip].recent) <= RecentLimit + faults'
    BY <2>1, <2>3 DEF ListInBounds
  <2>5. ASSUME NEW ip \in IP
        PROVE  LET n == Len(profile'[ip].recent)
                   l == Len(Pipeline')
               IN  /\ ~Updating(ip)' => n <= RecentLimit + faults'
                   /\ Updating(ip)' =>
                        /\ next' <= l - 5 => n <= RecentLimit + faults'
                        /\ next' = l - 4 => n <= RecentLimit + faults' + 1
                        /\ next' > l - 4 => n <= RecentLimit
                   /\ JustUpdated(ip)' => n <= RecentLimit
    <3>1. Len(profile'[ip].recent) <= RecentLimit + faults' /\ ~JustUpdated(ip)'
      BY <2>3, <2>4
    <3>2. CASE ~Updating(ip)'
      BY <3>1, <3>2
    <3>3. CASE Updating(ip)'
      <4>1. Len(Pipeline') \in 6..9 /\ next' = 1
        BY <2>1, <2>2, <2>3, <3>3
      <4>2. PICK l \in 6..9 : l = Len(Pipeline')
        BY <4>1
      <4>3. next' <= l - 5 /\ next' # l - 4 /\ ~(next' > l - 4)
        BY <4>1
      <4> QED
        BY <3>1, <3>3, <4>2, <4>3
    <3> QED
      BY <3>2, <3>3
  <2> QED
    BY <2>5 DEF ListInBounds
<1>11. ASSUME NEW ip \in IP, Reset(ip) \/ \E k \in ProfileKeys : ExpireKey(ip, k)
       PROVE  ListInBounds'
  <2>1. UNCHANGED <<pc, hand, next, log, faults>>
    BY <1>11 DEF Reset, ExpireKey, consumer
  <2>2. \A i \in IP : Len(profile'[i].recent) <= Len(profile[i].recent)
    <3>1. profile[ip] \in ProfileType /\ profile \in [IP -> ProfileType]
      BY DEF TypeOK
    <3>2. Len(profile'[ip].recent) <= Len(profile[ip].recent)
      <4>1. CASE Reset(ip)
        <5>1. profile'[ip].recent = <<>>
          BY <3>1, <4>1 DEF Reset, NoProfile
        <5>2. Len(profile'[ip].recent) = 0
          BY <5>1
        <5> QED
          BY <1>3, <5>2
      <4>2. ASSUME NEW k \in ProfileKeys, ExpireKey(ip, k)
            PROVE  Len(profile'[ip].recent) <= Len(profile[ip].recent)
        BY <3>1, <4>2, DropKeyEffect DEF ExpireKey
      <4> QED
        BY <1>11, <4>1, <4>2
    <3>3. \A i \in IP \ {ip} : profile'[i] = profile[i]
      BY <1>11, <3>1 DEF Reset, ExpireKey
    <3> QED
      BY <1>3, <3>2, <3>3
  <2>3. /\ \A i \in IP : Updating(i)' = Updating(i) /\ JustUpdated(i)' = JustUpdated(i)
        /\ Pipeline' = Pipeline
    BY <2>1 DEF Updating, JustUpdated, Pipeline, InHand
  <2>4. ASSUME NEW m \in Nat, NEW n \in Nat, m <= n, NEW b \in Nat, n <= b PROVE m <= b
    BY <2>4
  <2>5. RecentLimit + faults \in Nat /\ RecentLimit + faults + 1 \in Nat /\ RecentLimit \in Nat
    BY <1>2
  <2>6. ASSUME NEW i \in IP, NEW b \in Nat, Len(profile[i].recent) <= b
        PROVE  Len(profile'[i].recent) <= b
    BY <1>3, <2>2, <2>4, <2>6
  <2> QED
    BY <2>1, <2>3, <2>5, <2>6 DEF ListInBounds
<1>12. CASE RunCommand
  <2> DEFINE own == InHand.ip
             len == Len(Pipeline)
             c == Pipeline[next]
  <2>1. /\ pc = "update" /\ pc' = pc /\ InHand' = InHand /\ next' = next + 1 /\ next <= len
        /\ faults' = faults /\ profile' = [profile EXCEPT ![own] = Execute(@, c)]
    BY <1>12, InHandStays DEF RunCommand, Busy
  <2>2. /\ len \in 6..9 /\ c \in SoundCommand /\ Pipeline' = Pipeline
        /\ next = len - 5 => c.op = "LPUSH"
        /\ next = len - 4 => c.op = "LTRIM"
        /\ next # len - 5 => c.op # "LPUSH"
    <3>1. /\ len \in 6..9 /\ c \in SoundCommand /\ Pipeline' = Pipeline
          /\ Pipeline[len - 5].op = "LPUSH" /\ Pipeline[len - 4].op = "LTRIM"
          /\ \A i \in 1..(len - 6) : Pipeline[i].op = "HINCRBY"
          /\ \A k \in ProfileKeys : Pipeline[len - FromEnd(k)].op = "EXPIRE"
      <4>1. Pipeline' = Pipeline
        BY <2>1 DEF Pipeline
      <4>2. \A k : Refreshed(k).op = "EXPIRE"
        BY DEF Refreshed, Cmd
      <4> QED
        BY <2>1, <4>1, <4>2, PipelineFacts
    <3>2. /\ Pipeline[len - 3].op = "EXPIRE" /\ Pipeline[len - 2].op = "EXPIRE"
          /\ Pipeline[len - 1].op = "EXPIRE" /\ Pipeline[len - 0].op = "EXPIRE"
      BY <3>1 DEF FromEnd, ProfileKeys, HashKeys
    <3>3. \/ next \in 1..(len - 6) \/ next = len - 5 \/ next = len - 4 \/ next = len - 3
          \/ next = len - 2 \/ next = len - 1 \/ next = len - 0
      BY <1>2, <2>1, <3>1
    <3> HIDE DEF len
    <3> QED
      BY <3>1, <3>2, <3>3
  <2>3. \A ip \in IP : Updating(ip)' = Updating(ip) /\ ~JustUpdated(ip)'
    BY <2>1 DEF Updating, JustUpdated
  <2>4. ASSUME NEW ip \in IP, ip # own
        PROVE  ~Updating(ip) /\ profile'[ip] = profile[ip]
    BY <2>1, <2>4 DEF Updating, TypeOK
  <2>5. ASSUME own \in IP
        PROVE  /\ Updating(own)
               /\ c.op = "LPUSH" =>
                    Len(profile'[own].recent) = Len(profile[own].recent) + 1
               /\ c.op # "LPUSH" => Len(profile'[own].recent) <= Len(profile[own].recent)
               /\ c.op = "LTRIM" => Len(profile'[own].recent) <= RecentLimit
    <3>1. profile[own] \in ProfileType /\ profile'[own] = Execute(profile[own], c)
      BY <2>1, <2>5 DEF TypeOK
    <3> QED
      BY <2>1, <2>2, <3>1, ExecuteLength DEF Updating
  <2> HIDE DEF own, len, c
  <2>6. ASSUME NEW ip \in IP, ip = own
        PROVE  /\ next' <= len - 5 => Len(profile'[ip].recent) <= RecentLimit + faults
               /\ next' = len - 4 => Len(profile'[ip].recent) <= RecentLimit + faults + 1
               /\ next' > len - 4 => Len(profile'[ip].recent) <= RecentLimit
    <3>1. /\ next <= len - 5 => Len(profile[ip].recent) <= RecentLimit + faults
          /\ next > len - 4 => Len(profile[ip].recent) <= RecentLimit
      BY <2>5, <2>6 DEF ListInBounds, len
    <3>2. CASE next = len - 5
      BY <1>2, <1>3, <2>1, <2>2, <2>5, <2>6, <3>1, <3>2
    <3>3. CASE next = len - 4
      BY <1>2, <1>3, <2>1, <2>2, <2>5, <2>6, <3>1, <3>3
    <3>4. CASE next # len - 5 /\ next # len - 4
      BY <1>2, <1>3, <2>1, <2>2, <2>5, <2>6, <3>1, <3>4
    <3> QED
      BY <3>2, <3>3, <3>4
  <2>7. ASSUME NEW ip \in IP, ip # own
        PROVE  Len(profile'[ip].recent) <= RecentLimit + faults'
    BY <2>1, <2>4, <2>7 DEF ListInBounds
  <2>8. Len(Pipeline') = len
    BY <2>2 DEF len
  <2>9. \A ip \in IP : /\ Updating(ip)' => ip = own
                       /\ ip = own => Updating(ip)'
    BY <2>3, <2>4, <2>5
  <2>10. ASSUME NEW ip \in IP
         PROVE  LET n == Len(profile'[ip].recent)
                    l == Len(Pipeline')
                IN  /\ ~Updating(ip)' => n <= RecentLimit + faults'
                    /\ Updating(ip)' =>
                         /\ next' <= l - 5 => n <= RecentLimit + faults'
                         /\ next' = l - 4 => n <= RecentLimit + faults' + 1
                         /\ next' > l - 4 => n <= RecentLimit
                    /\ JustUpdated(ip)' => n <= RecentLimit
    <3>1. CASE ip = own
      <4>1. Updating(ip)' /\ ~JustUpdated(ip)'
        BY <2>3, <2>9, <3>1
      <4>2. faults' = faults
        BY <2>1
      <4> QED
        BY <2>6, <2>8, <3>1, <4>1, <4>2
    <3>2. CASE ip # own
      <4>1. ~Updating(ip)' /\ ~JustUpdated(ip)'
        BY <2>3, <2>9, <3>2
      <4> QED
        BY <2>7, <3>2, <4>1
    <3> QED
      BY <3>1, <3>2
  <2> QED
    BY <2>10 DEF ListInBounds
<1> QED
  BY <1>5, <1>6, <1>7, <1>8, <1>9, <1>10, <1>11, <1>12, StepKinds
\* The list of recent queries is at most one entry longer than its limit per fault,
\* and at its limit after every update that came through, whatever the clients,
\* the events and the limit (profile.go:87-88).
THEOREM ListStaysNearItsLimit == Spec => []RecentBounded
<1>1. CASE RecentLimit >= 1
  <2>1. Init => ListInBounds
    <3> SUFFICES ASSUME Init PROVE ListInBounds
      OBVIOUS
    <3>1. \A ip \in IP : Len(profile[ip].recent) = 0 /\ ~Updating(ip) /\ ~JustUpdated(ip)
      <4>1. NoProfile.recent = <<>>
        BY DEF NoProfile
      <4>2. Len(NoProfile.recent) = 0
        BY <4>1
      <4>3. \A ip \in IP : profile[ip] = NoProfile
        BY DEF Init
      <4> QED
        BY <4>2, <4>3 DEF Init, Updating, JustUpdated
    <3>2. RecentLimit \in Nat /\ faults = 0
      BY <1>1, ProfileAssumption DEF Init
    <3>3. 0 <= RecentLimit + faults /\ 0 <= RecentLimit
      BY <3>2
    <3> QED
      BY <3>1, <3>3 DEF ListInBounds
  <2>2. IInv /\ ListInBounds /\ [Next]_vars => ListInBounds'
    BY <1>1, NextIsStep, ListStep DEF IInv
  <2>3. IInv /\ ListInBounds => RecentBounded
    <3> SUFFICES ASSUME IInv, ListInBounds, NEW ip \in IP
                 PROVE  LET n == Len(profile[ip].recent)
                        IN  /\ n <= RecentLimit + faults + (IF Updating(ip) THEN 1 ELSE 0)
                            /\ JustUpdated(ip) => n <= RecentLimit
      BY DEF RecentBounded
    <3>1. /\ RecentLimit \in Nat /\ faults \in Nat /\ next \in Nat
          /\ Len(profile[ip].recent) \in Nat
      BY <1>1, ProfileAssumption DEF IInv, TypeOK, ProfileType
    <3>2. CASE Updating(ip)
      <4>1. PICK l \in 6..9 : l = Len(Pipeline)
        BY <3>2, PipelineFacts DEF Updating, IInv
      <4>2. next <= l - 5 \/ next = l - 4 \/ next > l - 4
        BY <3>1, <4>1
      <4>3. Len(profile[ip].recent) <= RecentLimit + faults + 1
        BY <3>1, <3>2, <4>1, <4>2 DEF ListInBounds
      <4> QED
        BY <3>2, <4>3 DEF ListInBounds
    <3>3. CASE ~Updating(ip)
      BY <3>1, <3>3 DEF ListInBounds
    <3> QED
      BY <3>2, <3>3
  <2> QED
    BY <2>1, <2>2, <2>3, InvariantHolds, PTL DEF Spec
<1>2. CASE ~(RecentLimit >= 1)
  <2>1. RecentBounded
    BY <1>2 DEF RecentBounded
  <2> QED
    BY <2>1, PTL
<1> QED
  BY <1>1, <1>2

\* The expiries: a command loosens a key only where its EXPIRE is still to come.
LEMMA LooseStep ==
    ASSUME TypeOK, Bookkeeping, TTLDays > 0, LooseOnlyBefore, Step
    PROVE  LooseOnlyBefore'
<1>1. TypeOK' /\ Bookkeeping'
  BY TypeStep, BookkeepingStep
<1>2. /\ faults \in Nat /\ faults' \in Nat /\ next \in Nat \ {0} /\ next' \in Nat \ {0}
      /\ profile \in [IP -> ProfileType]
  BY <1>1 DEF TypeOK
<1>3. \A k \in ProfileKeys : FromEnd(k) \in 0..3
  BY DEF FromEnd, ProfileKeys, HashKeys
<1>4. ASSUME NEW l \in 6..9, NEW k \in ProfileKeys PROVE 1 <= l - FromEnd(k)
  <2>1. PICK f \in 0..3 : f = FromEnd(k)
    BY <1>3
  <2> QED
    BY <2>1
<1>5. CASE Still
  <2>1. CASE UNCHANGED <<pc, hand, next>> /\ (Busy => InHand' = InHand)
    <3>1. \A ip \in IP : Updating(ip)' = Updating(ip) /\ JustUpdated(ip)' = JustUpdated(ip)
      BY <2>1 DEF Updating, JustUpdated, Busy
    <3>2. \A ip \in IP : Updating(ip) => Pipeline' = Pipeline
      BY <2>1 DEF Updating, Pipeline, Busy
    <3> QED
      BY <1>2, <1>5, <2>1, <3>1, <3>2 DEF LooseOnlyBefore, Still
  <2>2. CASE ~Busy /\ ~Busy'
    BY <1>2, <1>5, <2>2 DEF LooseOnlyBefore, Still, Updating, JustUpdated, Busy
  <2> QED
    BY <1>5, <2>1, <2>2 DEF Still
<1>6. CASE Abandon
  BY <1>2, <1>6 DEF LooseOnlyBefore, Abandon, Updating, JustUpdated, Busy
<1>7. CASE Resend
  <2>1. /\ pc = "update" /\ pc' = pc /\ InHand' = InHand /\ next' = 1 /\ faults' = faults + 1
        /\ profile' = profile
    BY <1>7, InHandStays DEF Resend, Fault, redis, Busy
  <2>2. Len(Pipeline) \in 6..9 /\ Pipeline' = Pipeline
    BY <2>1, PipelineFacts DEF Pipeline
  <2>3. \A ip \in IP : Updating(ip)' = Updating(ip) /\ ~JustUpdated(ip)'
    BY <2>1 DEF Updating, JustUpdated
  <2>4. \A k \in ProfileKeys : next' <= Len(Pipeline') - FromEnd(k)
    BY <1>4, <2>1, <2>2
  <2> QED
    BY <1>2, <2>1, <2>3, <2>4 DEF LooseOnlyBefore
<1>8. CASE UpdateDone
  <2>1. /\ pc = "update" /\ pc' = "commit" /\ InHand' = InHand /\ profile' = profile
        /\ faults' = faults /\ next > Len(Pipeline)
    BY <1>8, InHandStays DEF UpdateDone, redis, Busy
  <2>2. \A k \in ProfileKeys : ~(next <= Len(Pipeline) - FromEnd(k))
    <3>1. Len(Pipeline) \in 6..9
      BY <2>1, PipelineFacts
    <3> QED
      BY <1>2, <1>3, <2>1, <3>1
  <2>3. \A ip \in IP : /\ ~Updating(ip)' /\ (JustUpdated(ip)' => Updating(ip))
                       /\ ~Updating(ip) => ~JustUpdated(ip)'
    BY <2>1 DEF Updating, JustUpdated
  <2> QED
    BY <2>1, <2>2, <2>3 DEF LooseOnlyBefore
<1>9. CASE Commit
  <2>1. pc = "commit" /\ pc' = "read" /\ profile' = profile /\ faults' >= faults
    BY <1>2, <1>9 DEF Commit, redis, Fault
  <2> QED
    BY <1>2, <2>1 DEF LooseOnlyBefore, Updating, JustUpdated
<1>10. ASSUME NEW p \in Partition, Fetch(p) PROVE LooseOnlyBefore'
  <2>1. /\ pc = "read" /\ profile' = profile /\ faults' = faults /\ next' = 1
        /\ pc' = "commit" => InHand' \notin Useful
    BY <1>10 DEF Fetch, redis, InHand
  <2>2. pc' = "update" => Len(Pipeline') \in 6..9
    <3>1. ASSUME pc' = "update" PROVE InHand' \in UsefulEvent
      BY <1>1, <3>1, UsefulIsEvent DEF Bookkeeping
    <3> QED
      BY <3>1, PipelineShape DEF Pipeline
  <2>3. \A ip \in IP : /\ ~Updating(ip) /\ ~JustUpdated(ip)'
                       /\ Updating(ip)' => pc' = "update"
    BY <2>1 DEF Updating, JustUpdated
  <2>4. ASSUME NEW k \in ProfileKeys, pc' = "update"
        PROVE  next' <= Len(Pipeline') - FromEnd(k)
    BY <1>4, <2>1, <2>2, <2>4
  <2> QED
    BY <2>1, <2>3, <2>4 DEF LooseOnlyBefore
<1>11. ASSUME NEW ip \in IP, Reset(ip) \/ \E k \in ProfileKeys : ExpireKey(ip, k)
       PROVE  LooseOnlyBefore'
  <2>1. UNCHANGED <<pc, hand, next, log, faults>>
    BY <1>11 DEF Reset, ExpireKey, consumer
  <2>2. \A i \in IP : \A k \in ProfileKeys : Loose(profile'[i], k) => Loose(profile[i], k)
    <3>1. \A k \in ProfileKeys : Loose(profile'[ip], k) => Loose(profile[ip], k)
      <4>1. CASE Reset(ip)
        <5>1. profile'[ip] = NoProfile
          BY <1>2, <4>1 DEF Reset
        <5>2. \A k \in ProfileKeys : ~KeyExists(NoProfile, k)
          BY DEF KeyExists, NoProfile, NoCounts, ProfileKeys
        <5> QED
          BY <5>1, <5>2 DEF Loose
      <4>2. ASSUME NEW j \in ProfileKeys, ExpireKey(ip, j)
            PROVE  \A k \in ProfileKeys : Loose(profile'[ip], k) => Loose(profile[ip], k)
        <5>1. profile'[ip] = DropKey(profile[ip], j) /\ profile[ip] \in ProfileType
          BY <1>2, <4>2 DEF ExpireKey
        <5> QED
          BY <5>1, DropKeyEffect
      <4> QED
        BY <1>11, <4>1, <4>2
    <3>2. \A i \in IP \ {ip} : profile'[i] = profile[i]
      BY <1>2, <1>11 DEF Reset, ExpireKey
    <3> QED
      BY <3>1, <3>2
  <2>3. /\ \A i \in IP : Updating(i)' = Updating(i) /\ JustUpdated(i)' = JustUpdated(i)
        /\ Pipeline' = Pipeline
    BY <2>1 DEF Updating, JustUpdated, Pipeline, InHand
  <2> QED
    BY <2>1, <2>2, <2>3 DEF LooseOnlyBefore
<1>12. CASE RunCommand
  <2> DEFINE own == InHand.ip
             len == Len(Pipeline)
             c == Pipeline[next]
  <2>1. /\ pc = "update" /\ pc' = pc /\ InHand' = InHand /\ next' = next + 1 /\ next <= len
        /\ faults' = faults /\ profile' = [profile EXCEPT ![own] = Execute(@, c)]
    BY <1>12, InHandStays DEF RunCommand, Busy
  <2>2. /\ len \in 6..9 /\ c \in SoundCommand /\ Pipeline' = Pipeline
        /\ \A k \in ProfileKeys : Pipeline[len - FromEnd(k)] = Refreshed(k)
    <3>1. Pipeline' = Pipeline
      BY <2>1 DEF Pipeline
    <3> QED
      BY <2>1, <3>1, PipelineFacts
  <2>3. \A ip \in IP : Updating(ip)' = Updating(ip) /\ ~JustUpdated(ip)'
    BY <2>1 DEF Updating, JustUpdated
  <2>4. ASSUME NEW ip \in IP, ip # own
        PROVE  ~Updating(ip) /\ profile'[ip] = profile[ip]
    BY <1>2, <2>1, <2>4 DEF Updating
  <2>5. ASSUME own \in IP PROVE Updating(own) /\ profile'[own] = Execute(profile[own], c)
    BY <1>2, <2>1, <2>5 DEF Updating
  <2>6. \/ next <= len - 4
        \/ \E j \in ProfileKeys : next = len - FromEnd(j)
    <3>1. /\ FromEnd("countries") = 3 /\ FromEnd("continents") = 2
          /\ FromEnd("feature_codes") = 1 /\ FromEnd("recent") = 0
      BY DEF FromEnd
    <3>2. {"countries", "continents", "feature_codes", "recent"} \subseteq ProfileKeys
      BY DEF ProfileKeys, HashKeys
    <3>3. next <= len - 4 \/ next = len - 3 \/ next = len - 2 \/ next = len - 1 \/ next = len - 0
      BY <1>2, <2>1, <2>2
    <3> HIDE DEF len
    <3> QED
      BY <3>1, <3>2, <3>3
  <2> HIDE DEF own, len, c
  <2>7. ASSUME NEW ip \in IP, ip = own, NEW k \in ProfileKeys, Loose(profile'[ip], k)
        PROVE  next' <= len - FromEnd(k)
    <3>1. FromEnd(k) \in 0..3
      BY <1>3
    <3>2. CASE next <= len - 4
      BY <1>2, <2>1, <2>2, <3>1, <3>2
    <3>3. ASSUME NEW j \in ProfileKeys, next = len - FromEnd(j)
          PROVE  next' <= len - FromEnd(k)
      <4>1. c = Refreshed(j)
        BY <2>2, <3>3 DEF c, len
      <4>2. c.op = "EXPIRE" /\ c.key = j
        BY <4>1 DEF Refreshed, Cmd
      <4>3. /\ profile[ip] \in ProfileType /\ Loose(Execute(profile[ip], c), k)
        BY <1>2, <2>5, <2>7
      <4>4. Loose(profile[ip], k) /\ k # j
        BY <2>2, <4>2, <4>3, ExpireTiesDown
      <4>5. next <= len - FromEnd(k)
        BY <2>5, <2>7, <4>4 DEF LooseOnlyBefore, len
      <4>6. FromEnd(k) # FromEnd(j)
        BY <4>4 DEF FromEnd, ProfileKeys, HashKeys
      <4> QED
        BY <1>2, <1>3, <2>1, <2>2, <3>1, <3>3, <4>5, <4>6
    <3> QED
      BY <2>6, <3>2, <3>3
  <2>8. Len(Pipeline') = len
    BY <2>2 DEF len
  <2>9. ASSUME NEW ip \in IP, NEW k \in ProfileKeys, Loose(profile'[ip], k)
        PROVE  /\ ~Updating(ip)' => faults' > 0
               /\ Updating(ip)' => next' <= Len(Pipeline') - FromEnd(k)
               /\ ~JustUpdated(ip)'
    <3>1. CASE ip = own
      <4>1. Updating(ip)' /\ ~JustUpdated(ip)'
        BY <2>3, <2>5, <3>1
      <4> QED
        BY <2>7, <2>8, <2>9, <3>1, <4>1
    <3>2. CASE ip # own
      <4>1. ~Updating(ip)' /\ ~JustUpdated(ip)' /\ faults' = faults
        BY <2>1, <2>3, <2>4, <3>2
      <4>2. faults > 0
        BY <2>4, <2>9, <3>2 DEF LooseOnlyBefore
      <4> QED
        BY <4>1, <4>2
    <3> QED
      BY <3>1, <3>2
  <2> QED
    BY <2>9 DEF LooseOnlyBefore
<1> QED
  BY <1>5, <1>6, <1>7, <1>8, <1>9, <1>10, <1>11, <1>12, StepKinds

\* A profile key without an expiry is one whose EXPIRE is still to come in the update
\* under way, or one that a fault has cut off from it; the next update that comes
\* through repairs it (profile.go:91-94).
THEOREM KeysExpire == Spec => []NoKeyForever
<1>1. CASE TTLDays > 0
  <2>1. Init => LooseOnlyBefore
    <3> SUFFICES ASSUME Init PROVE LooseOnlyBefore
      OBVIOUS
    <3>1. \A k \in ProfileKeys : ~KeyExists(NoProfile, k)
      BY DEF KeyExists, NoProfile, NoCounts, ProfileKeys
    <3> QED
      BY <3>1 DEF Init, LooseOnlyBefore, Loose
  <2>2. IInv /\ LooseOnlyBefore /\ [Next]_vars => LooseOnlyBefore'
    BY <1>1, NextIsStep, LooseStep DEF IInv
  <2>3. LooseOnlyBefore => NoKeyForever
    BY DEF LooseOnlyBefore, NoKeyForever, Loose
  <2> QED
    BY <2>1, <2>2, <2>3, InvariantHolds, PTL DEF Spec
<1>2. CASE ~(TTLDays > 0)
  <2>1. NoKeyForever
    BY <1>2 DEF NoKeyForever
  <2> QED
    BY <2>1, PTL
<1> QED
  BY <1>1, <1>2

-----------------------------------------------------------------------------
(* Where commits move forward only.                                        *)
(*                                                                         *)
(* Each commit is of the message in hand, so the question is how far       *)
(* behind the committed offset that message can be.  A reader that nothing *)
(* moves back is never behind it.  A rejoin puts the reader back at the    *)
(* committed offset under a loop that is one message ahead, whose commit   *)
(* then leaves the reader one behind: it reads that one message a second   *)
(* time and commits the same offset again.  If a message stays uncommitted *)
(* while the loop goes on, the distance is no longer one.                  *)

\* Without rejoins the reader is never behind, and the loop holds what it read last.
NeverBehind ==
    pc # "down" =>
        /\ \A p \in Partition : committed[p] <= pos[p]
        /\ Busy => hand[2] = pos[hand[1]]

\* With rejoins the reader is at most one behind, as long as the loop can commit.
OneBehindAtMost ==
    /\ "sigterm" \notin FaultKinds => ~cancelled
    /\ pc # "down" /\ ~(cancelled /\ pc = "read") =>
          \A p \in Partition :
              IF Busy /\ hand[1] = p
              THEN \/ hand[2] = committed[p] + 1 /\ pos[p] \in {committed[p], hand[2]}
                   \/ hand[2] = committed[p] /\ pos[p] = committed[p]
              ELSE pos[p] = committed[p] \/ pos[p] + 1 = committed[p]

\* What the loop does to the offsets, and where it does nothing to them.
LEMMA OffsetSteps ==
    ASSUME TypeOK, Step
    PROVE  \/ UNCHANGED <<committed, pos, pc, hand, cancelled>>
           \/ Start \/ Stop \/ Commit \/ GiveUp \/ UpdateDone \/ Sigterm \/ Crash \/ Rejoin
           \/ \E p \in Partition : Fetch(p) \/ FetchCancelled(p)
BY DEF Step, Loop, vars, consumer, Grow, Reset, ExpireKey, RunCommand, Resend

\* Only Commit moves a committed offset, to the message in hand.
LEMMA OnlyCommitCommits ==
    ASSUME TypeOK, Bookkeeping, Step, NEW p \in Partition, committed'[p] # committed[p]
    PROVE  /\ pc = "commit" /\ hand[1] = p /\ committed'[p] = hand[2]
           /\ hand[2] \in Nat /\ committed[p] \in Nat
<1>1. CASE UNCHANGED committed
  BY <1>1
<1>2. CASE Commit
  BY <1>2 DEF Commit, CommitOffset, TypeOK, Bookkeeping, Busy
<1> QED
  BY <1>1, <1>2, OffsetSteps
  DEF Start, Stop, GiveUp, UpdateDone, Sigterm, Crash, Rejoin, Fetch, FetchCancelled

LEMMA NeverBehindStep ==
    ASSUME "rejoin" \notin FaultKinds, TypeOK, Bookkeeping, NeverBehind, Step
    PROVE  NeverBehind'
<1>1. /\ committed \in [Partition -> Nat] /\ pos \in [Partition -> Nat]
      /\ Busy => hand[1] \in Partition /\ hand[2] \in Nat
  BY DEF TypeOK, Bookkeeping
<1>2. CASE UNCHANGED <<committed, pos, pc, hand, cancelled>>
  BY <1>2 DEF NeverBehind, Busy
<1>3. CASE Start
  BY <1>1, <1>3 DEF Start, StartAt, NeverBehind, Busy
<1>4. CASE Stop \/ Crash
  BY <1>4 DEF Stop, Crash, NeverBehind
<1>5. CASE Commit
  BY <1>1, <1>5 DEF Commit, CommitOffset, NeverBehind, Busy
<1>6. CASE GiveUp
  BY <1>6 DEF GiveUp, NeverBehind, Busy
<1>7. CASE UpdateDone \/ Sigterm
  BY <1>7 DEF UpdateDone, Sigterm, NeverBehind, Busy
<1>8. CASE Rejoin
  BY <1>8 DEF Rejoin, Fault
<1>9. ASSUME NEW p \in Partition, Fetch(p) PROVE NeverBehind'
  <2>1. /\ pc = "read" /\ UNCHANGED committed /\ pos' = [pos EXCEPT ![p] = @ + 1]
        /\ hand' = <<p, pos[p] + 1>>
    BY <1>9 DEF Fetch
  <2>2. pos'[p] = pos[p] + 1 /\ \A q \in Partition : pos[q] <= pos'[q]
    BY <1>1, <2>1
  <2> QED
    BY <1>1, <2>1, <2>2 DEF NeverBehind
<1>10. ASSUME NEW p \in Partition, FetchCancelled(p) PROVE NeverBehind'
  <2>1. /\ pc = "read" /\ UNCHANGED <<committed, pc>> /\ pos' = [pos EXCEPT ![p] = @ + 1]
    BY <1>10 DEF FetchCancelled
  <2> QED
    BY <1>1, <2>1 DEF NeverBehind, Busy
<1> QED
  BY <1>2, <1>3, <1>4, <1>5, <1>6, <1>7, <1>8, <1>9, <1>10, OffsetSteps

LEMMA OneBehindAtMostStep ==
    ASSUME "break" \notin FaultKinds, "commit" \notin FaultKinds,
           Message \subseteq Useful \/ "sigterm" \notin FaultKinds,
           TypeOK, Bookkeeping, OneBehindAtMost, Step
    PROVE  OneBehindAtMost'
<1>1. /\ committed \in [Partition -> Nat] /\ pos \in [Partition -> Nat]
      /\ Busy => hand[1] \in Partition /\ hand[2] \in Nat
  BY DEF TypeOK, Bookkeeping
<1>2. CASE UNCHANGED <<committed, pos, pc, hand, cancelled>>
  BY <1>2 DEF OneBehindAtMost, Busy
<1>3. CASE Start
  BY <1>1, <1>3 DEF Start, StartAt, OneBehindAtMost, Busy
<1>4. CASE Stop \/ Crash
  BY <1>4 DEF Stop, Crash, OneBehindAtMost
<1>5. CASE Commit
  <2>1. /\ pc = "commit" /\ pc' = "read" /\ UNCHANGED <<pos, cancelled>>
        /\ \/ committed' = [committed EXCEPT ![hand[1]] = hand[2]]
           \/ cancelled
    BY <1>5 DEF Commit, CommitOffset, Fault
  <2>2. CASE cancelled
    BY <2>1, <2>2 DEF OneBehindAtMost
  <2>3. CASE ~cancelled /\ committed' = [committed EXCEPT ![hand[1]] = hand[2]]
    <3>1. ASSUME NEW p \in Partition
          PROVE  pos'[p] = committed'[p] \/ pos'[p] + 1 = committed'[p]
      <4>1. CASE p = hand[1]
        BY <1>1, <2>1, <2>3, <4>1 DEF OneBehindAtMost, Busy
      <4>2. CASE p # hand[1]
        BY <1>1, <2>1, <2>3, <4>2 DEF OneBehindAtMost, Busy
      <4> QED
        BY <4>1, <4>2
    <3> QED
      BY <2>1, <2>3, <3>1 DEF OneBehindAtMost, Busy
  <2> QED
    BY <2>1, <2>2, <2>3
<1>6. CASE GiveUp
  BY <1>6 DEF GiveUp, Fault
<1>7. CASE UpdateDone \/ Sigterm
  BY <1>7 DEF UpdateDone, Sigterm, Fault, OneBehindAtMost, Busy
<1>8. CASE Rejoin
  BY <1>1, <1>8 DEF Rejoin, StartAt, OneBehindAtMost, Busy
<1>9. ASSUME NEW p \in Partition, Fetch(p) PROVE OneBehindAtMost'
  <2>1. /\ pc = "read" /\ UNCHANGED <<committed, cancelled>>
        /\ pos' = [pos EXCEPT ![p] = @ + 1] /\ hand' = <<p, pos[p] + 1>>
        /\ pc' \in {"update", "commit"}
    BY <1>9 DEF Fetch
  <2>2. ~cancelled
    <3>1. CASE Message \subseteq Useful
      <4>1. log[p][pos[p] + 1] \in Message
        BY <1>1, <1>9 DEF Fetch, TypeOK
      <4> QED
        BY <1>9, <3>1, <4>1 DEF Fetch
    <3>2. CASE "sigterm" \notin FaultKinds
      BY <3>2 DEF OneBehindAtMost
    <3> QED
      BY <3>1, <3>2
  <2>3. \A q \in Partition : pos[q] = committed[q] \/ pos[q] + 1 = committed[q]
    BY <2>1, <2>2 DEF OneBehindAtMost, Busy
  <2>4. /\ hand'[1] = p /\ hand'[2] = pos[p] + 1 /\ pos'[p] = pos[p] + 1
        /\ \A q \in Partition \ {p} : pos'[q] = pos[q]
    BY <1>1, <2>1
  <2>5. \/ hand'[2] = committed[p] + 1 /\ pos'[p] = hand'[2]
        \/ hand'[2] = committed[p] /\ pos'[p] = committed[p]
    BY <1>1, <2>3, <2>4
  <2> QED
    BY <2>1, <2>2, <2>3, <2>4, <2>5 DEF OneBehindAtMost, Busy
<1>10. ASSUME NEW p \in Partition, FetchCancelled(p) PROVE OneBehindAtMost'
  BY <1>10 DEF FetchCancelled, OneBehindAtMost
<1> QED
  BY <1>2, <1>3, <1>4, <1>5, <1>6, <1>7, <1>8, <1>9, <1>10, OffsetSteps

\* No commit moves an offset back (CommitMessage, consumer.go:42-44), if the group
\* is never rebalanced, or else if Redis and the broker answer and the loop meets no
\* useless message under a cancelled context.  Each of these conditions is needed:
\* with a rejoin, a message left uncommitted is read and committed after later ones.
THEOREM CommitsOnlyAdvance ==
    ASSUME \/ "rejoin" \notin FaultKinds
           \/ /\ "break" \notin FaultKinds /\ "commit" \notin FaultKinds
              /\ Message \subseteq Useful \/ "sigterm" \notin FaultKinds
    PROVE  Spec => CommitsMoveForward
<1> DEFINE Advance == \A p \in Partition : committed'[p] >= committed[p]
<1>1. ASSUME TypeOK, UNCHANGED committed PROVE Advance
  BY <1>1 DEF TypeOK
<1>2. CASE "rejoin" \notin FaultKinds
  <2>1. Init => NeverBehind
    BY DEF Init, NeverBehind
  <2>2. IInv /\ NeverBehind /\ [Next]_vars => NeverBehind'
    BY <1>2, NextIsStep, NeverBehindStep DEF IInv
  <2>3. IInv /\ NeverBehind /\ [Next]_vars => [Advance]_vars
    <3>1. IInv /\ [Next]_vars => Step
      BY NextIsStep DEF IInv
    <3> QED
      BY <3>1, OnlyCommitCommits DEF IInv, TypeOK, NeverBehind, Busy
  <2> QED
    BY <2>1, <2>2, <2>3, InvariantHolds, PTL DEF Spec, CommitsMoveForward
<1>3. CASE /\ "break" \notin FaultKinds /\ "commit" \notin FaultKinds
           /\ Message \subseteq Useful \/ "sigterm" \notin FaultKinds
  <2>1. Init => OneBehindAtMost
    BY DEF Init, OneBehindAtMost
  <2>2. IInv /\ OneBehindAtMost /\ [Next]_vars => OneBehindAtMost'
    BY <1>3, NextIsStep, OneBehindAtMostStep DEF IInv
  <2>3. IInv /\ OneBehindAtMost /\ [Next]_vars => [Advance]_vars
    <3>1. IInv /\ [Next]_vars => Step
      BY NextIsStep DEF IInv
    <3>2. ASSUME IInv, OneBehindAtMost, Step, NEW p \in Partition PROVE committed'[p] >= committed[p]
      <4>1. CASE committed'[p] = committed[p]
        BY <3>2, <4>1 DEF IInv, TypeOK
      <4>2. CASE committed'[p] # committed[p]
        <5>1. /\ pc = "commit" /\ hand[1] = p /\ committed'[p] = hand[2]
              /\ hand[2] \in Nat /\ committed[p] \in Nat
          BY <3>2, <4>2, OnlyCommitCommits DEF IInv
        <5> QED
          BY <3>2, <5>1 DEF OneBehindAtMost, Busy
      <4> QED
        BY <4>1, <4>2
    <3> QED
      BY <3>1, <3>2
  <2> QED
    BY <2>1, <2>2, <2>3, InvariantHolds, PTL DEF Spec, CommitsMoveForward
<1> QED
  BY <1>2, <1>3

-----------------------------------------------------------------------------
(* The counters.                                                           *)
(*                                                                         *)
(* Every counter is compared with the number of messages that must be in   *)
(* it.  A message enters that set with its HINCRBY, and it may leave it    *)
(* again: a resend or a crash takes back nothing that Redis has done, so   *)
(* the counter is then ahead of the set.  Other steps add nothing to it.   *)

\* The pipeline in hand has passed the HINCRBY of hash k.
Incremented(k) == pc = "commit" \/ (pc = "update" /\ next > Place(InHand, k))

\* The messages the loop has put behind it, as far as hash k is concerned.
Behind(k) ==
    { q \in Published :
        \/ q[2] <= committed[q[1]]
        \/ pc # "down" /\ q[2] <= pos[q[1]] /\ (Busy => q # hand)
        \/ Busy /\ q[1] = hand[1] /\ q[2] < hand[2]
        \/ Busy /\ q = hand /\ Incremented(k) }

\* Those of them that carry a value of an IP and were not refused.
Through(ip, k, v) == (Carrying(ip, k, v) \intersect Behind(k)) \ refused

\* Those whose update has returned or is past its increment.
Credited(ip, k, v) ==
    { q \in Carrying(ip, k, v) : q \in counted \/ (Busy /\ q = hand /\ Incremented(k)) }

\* The counters hold what they must: after a reset what the loop has begun with since,
\* and before the first wipe also a message that was counted and later refused.
CountersCover ==
    \A ip \in IP : \A k \in HashKeys \ expired[ip], v \in Value :
        /\ Cardinality(After(Through(ip, k, v), reset[ip].begun)) <= profile[ip].hash[k][v]
        /\ wipes[ip] = 0 => Cardinality(Credited(ip, k, v)) <= profile[ip].hash[k][v]

\* While nothing has gone wrong the loop goes through each partition message by message.
InOrder ==
    /\ ~cancelled /\ refused = {}
    /\ \A p \in Partition :
         pos[p] = IF Busy /\ hand[1] = p THEN committed[p] + 1 ELSE committed[p]
    /\ Busy => hand[2] = pos[hand[1]]
    /\ \A ip \in IP, p \in Partition : reset[ip].done[p] <= committed[p]

Orderly == faults = 0 => InOrder

\* The committed messages with a value, and the one in hand once it is in the counter.
Entered(ip, k, v) ==
    { q \in Carrying(ip, k, v) :
        q[2] <= committed[q[1]] \/ (Busy /\ q = hand /\ Incremented(k)) }

CountersExact ==
    faults = 0 =>
        \A ip \in IP, k \in HashKeys, v \in Value :
            profile[ip].hash[k][v] <= Cardinality(After(Entered(ip, k, v), reset[ip].done))

\* The histories of resets and expiries.
HistoryType ==
    /\ reset \in [IP -> [done : [Partition -> Nat], begun : [Partition -> Nat]]]
    /\ expired \in [IP -> SUBSET ProfileKeys]

\* A step that adds message hand to the counter of a value.
Hit(ip, k, v) ==
    /\ RunCommand
    /\ next = Place(InHand, k) /\ InHand.ip = ip /\ InHand[k] = v

LEMMA PositionsOf ==
    ASSUME NEW L, NEW q
    PROVE  q \in UNION { {p} \X (1..Len(L[p])) : p \in Partition }
             <=> q = <<q[1], q[2]>> /\ q[1] \in Partition /\ q[2] \in 1..Len(L[q[1]])
OBVIOUS

LEMMA PublishedMember ==
    ASSUME NEW q
    PROVE  /\ q \in Published
                <=> q = <<q[1], q[2]>> /\ q[1] \in Partition /\ q[2] \in 1..Len(log[q[1]])
           /\ q \in Published'
                <=> q = <<q[1], q[2]>> /\ q[1] \in Partition /\ q[2] \in 1..Len(log'[q[1]])
BY PositionsOf DEF Published

\* What a published message carries never changes, and what is new is ahead of the loop.
LEMMA CarryingStep ==
    ASSUME TypeOK, Bookkeeping, Step, NEW ip \in IP, NEW k \in HashKeys, NEW v \in Value,
           NEW q
    PROVE  /\ q \in Carrying(ip, k, v) => q \in Carrying(ip, k, v)'
           /\ q \in Carrying(ip, k, v)' =>
                q \in Carrying(ip, k, v) \/ Grow
           /\ q \in Carrying(ip, k, v)' /\ q \in Published => q \in Carrying(ip, k, v)
<1>1. ASSUME q \in Published
      PROVE  q \in Published' /\ log'[q[1]][q[2]] = log[q[1]][q[2]]
  BY <1>1, LogGrows, PublishedMember
<1>2. log' = log \/ Grow
  BY DEF Step, Loop, Reset, ExpireKey, Start, Fetch, FetchCancelled, RunCommand,
         UpdateDone, Resend, GiveUp, Commit, Stop, Sigterm, Crash, Rejoin, vars
<1>3. log' = log => Published' = Published
  BY DEF Published
<1> QED
  BY <1>1, <1>2, <1>3 DEF Carrying

\* Only RunCommand takes the pipeline past the HINCRBY of a message with a value.
LEMMA IncrementedStep ==
    ASSUME TypeOK, Bookkeeping, Step, NEW k \in HashKeys,
           Busy', InHand' \in Useful, InHand'[k] # Empty, Incremented(k)'
    PROVE  /\ Busy /\ hand' = hand /\ InHand' = InHand
           /\ Incremented(k) \/ (RunCommand /\ next = Place(InHand, k))
<1>1. Busy /\ hand' = hand => InHand' = InHand
  BY InHandStays
<1>2. /\ InHand' \in UsefulEvent /\ next \in Nat \ {0} /\ next' \in Nat \ {0}
      /\ Place(InHand', k) \in Nat \ {0}
  BY TypeStep, UsefulIsEvent, OneIncrement DEF TypeOK
<1>3. CASE UNCHANGED <<pc, hand, next>>
  BY <1>1, <1>3 DEF Busy, Incremented
<1>4. CASE Start \/ Stop \/ Crash \/ GiveUp \/ Commit
  BY <1>4 DEF Start, Stop, Crash, GiveUp, Commit, Busy
<1>5. ASSUME NEW p \in Partition, Fetch(p) PROVE FALSE
  <2>1. /\ next' = 1 /\ hand' = <<p, pos[p] + 1>> /\ log' = log
        /\ pc' \in {"update", "commit"}
        /\ pc' = "commit" => log[p][pos[p] + 1] \notin Useful
    BY <1>5 DEF Fetch
  <2>2. pc' = "update"
    BY <2>1 DEF InHand
  <2> QED
    BY <1>2, <2>1, <2>2 DEF Incremented
<1>6. CASE RunCommand
  <2>1. pc = "update" /\ pc' = pc /\ hand' = hand /\ next' = next + 1
    BY <1>6 DEF RunCommand
  <2>2. InHand' = InHand
    BY <1>1, <2>1 DEF Busy
  <2> QED
    BY <1>2, <1>6, <2>1, <2>2 DEF Incremented, Busy
<1>7. CASE UpdateDone
  <2>1. pc = "update" /\ hand' = hand /\ next > Len(Pipeline)
    BY <1>7 DEF UpdateDone
  <2>2. InHand' = InHand
    BY <1>1, <2>1 DEF Busy
  <2>3. /\ Len(Pipeline) \in Nat
        /\ Place(InHand, k) \in 1..Len(Pipeline)
    BY <1>2, <2>1, <2>2, OneIncrement, PipelineFacts DEF Pipeline
  <2>4. next > Place(InHand, k)
    BY <1>2, <2>1, <2>3
  <2> QED
    BY <2>1, <2>2, <2>4 DEF Incremented, Busy
<1>8. CASE Resend
  BY <1>2, <1>8 DEF Resend, Incremented
<1> QED
  BY <1>3, <1>4, <1>5, <1>6, <1>7, <1>8
  DEF Step, Loop, vars, consumer, Grow, FetchCancelled, Reset, ExpireKey,
      Sigterm, Rejoin

\* Only its HINCRBY brings a message into the set.
LEMMA ThroughStep ==
    ASSUME TypeOK, Bookkeeping, Step, NEW ip \in IP, NEW k \in HashKeys, NEW v \in Value,
           NEW q \in Through(ip, k, v)', q \notin Through(ip, k, v)
    PROVE  Hit(ip, k, v) /\ q = hand
<1>1. /\ q \in Carrying(ip, k, v)' /\ q \notin refused'
      /\ \/ q[2] <= committed'[q[1]]
         \/ pc' # "down" /\ q[2] <= pos'[q[1]] /\ (Busy' => q # hand')
         \/ Busy' /\ q[1] = hand'[1] /\ q[2] < hand'[2]
         \/ Busy' /\ q = hand' /\ Incremented(k)'
  BY DEF Through, Behind
<1>2. q = <<q[1], q[2]>> /\ q[1] \in Partition /\ q[2] \in Nat \ {0}
  BY <1>1, PublishedMember DEF Carrying
<1>3. q \notin refused
  BY <1>1, HistoryGrows
<1>4. /\ committed \in [Partition -> Nat] /\ pos \in [Partition -> Nat] /\ next \in Nat \ {0}
      /\ Busy => hand = <<hand[1], hand[2]>> /\ hand[1] \in Partition /\ hand[2] \in Nat
      /\ \A p \in Partition : pos[p] <= Len(log[p]) /\ committed[p] <= Len(log[p])
      /\ Busy => hand[2] \in 1..Len(log[hand[1]])
      /\ \A p \in Partition : Len(log[p]) \in Nat
  BY DEF TypeOK, Bookkeeping
<1>5. ~( \/ q[2] <= committed[q[1]]
         \/ pc # "down" /\ q[2] <= pos[q[1]] /\ (Busy => q # hand)
         \/ Busy /\ q[1] = hand[1] /\ q[2] < hand[2]
         \/ Busy /\ q = hand /\ Incremented(k) )
  <2>1. CASE q \in Carrying(ip, k, v)
    <3>1. q \notin Behind(k) /\ q \in Published
      BY <1>3, <2>1 DEF Through, Carrying
    <3> QED
      BY <3>1 DEF Behind
  <2>2. CASE q \notin Carrying(ip, k, v)
    <3>1. q \notin Published
      BY <1>1, <2>2, CarryingStep
    <3>2. q[2] > Len(log[q[1]])
      BY <1>2, <1>4, <3>1, PublishedMember
    <3> QED
      BY <1>2, <1>4, <3>2
  <2> QED
    BY <2>1, <2>2
<1>6. q = hand' /\ Busy' =>
        /\ hand' = <<hand'[1], hand'[2]>> /\ ~(q[2] < hand'[2])
        /\ Incremented(k)' =>
             /\ Busy /\ hand' = hand
             /\ Incremented(k) \/ (RunCommand /\ next = Place(InHand, k)
                                    /\ InHand.ip = ip /\ InHand[k] = v)
  <2> SUFFICES ASSUME q = hand', Busy'
               PROVE  /\ hand' = <<hand'[1], hand'[2]>> /\ ~(q[2] < hand'[2])
                      /\ Incremented(k)' =>
                           /\ Busy /\ hand' = hand
                           /\ Incremented(k) \/ (RunCommand /\ next = Place(InHand, k)
                                                  /\ InHand.ip = ip /\ InHand[k] = v)
    OBVIOUS
  <2>1. InHand' \in Useful /\ InHand'.ip = ip /\ InHand'[k] = v /\ v # Empty
    BY <1>1, ProfileAssumption DEF Carrying, InHand
  <2> QED
    BY <1>2, <2>1, IncrementedStep
<1>7. \/ q[2] <= committed'[q[1]]
      \/ pc' # "down" /\ q[2] <= pos'[q[1]] /\ (Busy' => q # hand')
      \/ Busy' /\ q[1] = hand'[1] /\ q[2] < hand'[2]
      \/ /\ Busy /\ Busy' /\ q = hand /\ hand' = hand
         /\ Incremented(k) \/ Hit(ip, k, v)
  BY <1>1, <1>6 DEF Hit
<1> SUFFICES ASSUME \/ q[2] <= committed'[q[1]]
                    \/ pc' # "down" /\ q[2] <= pos'[q[1]] /\ (Busy' => q # hand')
                    \/ Busy' /\ q[1] = hand'[1] /\ q[2] < hand'[2]
             PROVE  FALSE
  BY <1>5, <1>7
<1>8. CASE UNCHANGED <<committed, pos, pc, hand>>
  BY <1>5, <1>8 DEF Busy
<1>9. CASE Start \/ Stop \/ Crash
  <2>1. UNCHANGED committed /\ ~Busy' /\ (pc' # "down" => pos' = committed)
    BY <1>4, <1>9 DEF Start, StartAt, Stop, Crash, Busy
  <2> QED
    BY <1>5, <2>1
<1>10. ASSUME NEW p \in Partition, Fetch(p) PROVE FALSE
  <2>1. /\ pc = "read" /\ UNCHANGED committed /\ pos' = [pos EXCEPT ![p] = @ + 1]
        /\ hand' = <<p, pos[p] + 1>> /\ pc' \in {"update", "commit"}
    BY <1>10 DEF Fetch
  <2>2. ~Busy /\ Busy' /\ hand'[1] = p /\ hand'[2] = pos[p] + 1
    BY <2>1 DEF Busy
  <2>3. q # hand' => q[1] # p \/ q[2] # pos[p] + 1
    BY <1>2, <2>1
  <2>4. q # hand' /\ q[2] <= pos'[q[1]] => q[2] <= pos[q[1]]
    BY <1>2, <1>4, <2>1, <2>3
  <2>5. q[1] = p /\ q[2] < pos[p] + 1 => q[2] <= pos[q[1]]
    BY <1>2, <1>4
  <2> QED
    BY <1>5, <2>1, <2>2, <2>4, <2>5
<1>11. ASSUME NEW p \in Partition, FetchCancelled(p) PROVE FALSE
  <2>1. /\ pc = "read" /\ UNCHANGED <<committed, pc>> /\ pos' = [pos EXCEPT ![p] = @ + 1]
        /\ <<p, pos[p] + 1>> \in refused'
    BY <1>11 DEF FetchCancelled
  <2>2. q[1] # p \/ q[2] # pos[p] + 1
    BY <1>1, <1>2, <2>1
  <2>3. q[2] <= pos'[q[1]] => q[2] <= pos[q[1]]
    BY <1>2, <1>4, <2>1, <2>2
  <2> QED
    BY <1>5, <2>1, <2>3 DEF Busy
<1>12. CASE UpdateDone
  <2>1. Busy /\ Busy' /\ pc # "down" /\ pc' # "down" /\ UNCHANGED <<committed, pos, hand>>
    BY <1>12 DEF UpdateDone, Busy
  <2> QED
    BY <1>5, <2>1
<1>13. CASE GiveUp
  <2>1. /\ pc = "update" /\ pc' = "read" /\ UNCHANGED <<committed, pos>>
        /\ hand \in refused'
    BY <1>13 DEF GiveUp
  <2> QED
    BY <1>1, <1>5, <2>1 DEF Busy
<1>14. CASE Commit
  <2>1. /\ pc = "commit" /\ pc' = "read" /\ UNCHANGED pos
        /\ committed' = committed \/ committed' = [committed EXCEPT ![hand[1]] = hand[2]]
    BY <1>14 DEF Commit, CommitOffset
  <2>2. q # hand
    BY <1>5, <2>1 DEF Busy, Incremented
  <2>3. q[1] # hand[1] \/ ~(q[2] <= hand[2])
    BY <1>2, <1>4, <1>5, <2>1, <2>2 DEF Busy
  <2>4. q[2] <= committed'[q[1]] => q[2] <= committed[q[1]]
    BY <1>2, <1>4, <2>1, <2>3 DEF Busy
  <2> QED
    BY <1>5, <2>1, <2>2, <2>4 DEF Busy
<1>15. CASE Rejoin
  <2>1. UNCHANGED <<committed, pc, hand>> /\ pos' = committed
    BY <1>4, <1>15 DEF Rejoin, StartAt
  <2> QED
    BY <1>5, <2>1 DEF Busy
<1> QED
  BY <1>8, <1>9, <1>10, <1>11, <1>12, <1>13, <1>14, <1>15
  DEF Step, Loop, vars, consumer, Grow, Reset, ExpireKey, Sigterm, RunCommand,
      Resend

\* What a step does to a counter: it adds one, or nothing, or the profile is reset, or
\* the hash has expired.  A time to live that is not positive empties the hash at once.
LEMMA CounterStep ==
    ASSUME TypeOK, HistoryType, Bookkeeping, Step,
           NEW ip \in IP, NEW k \in HashKeys, NEW v \in Value
    PROVE  LET n == profile[ip].hash[k][v]
               m == profile'[ip].hash[k][v]
           IN  /\ n \in Nat /\ m \in Nat
               /\ \/ /\ ~Hit(ip, k, v)
                     /\ reset'[ip] = HowFar /\ wipes'[ip] # 0 /\ m = 0
                     /\ UNCHANGED <<log, committed, consumer, counted, refused, faults>>
                  \/ /\ ~Hit(ip, k, v)
                     /\ reset'[ip] = reset[ip] /\ (wipes'[ip] = 0 => wipes[ip] = 0)
                     /\ expired[ip] \subseteq expired'[ip]
                     /\ m <= n
                     /\ TTLDays > 0 => m = n \/ k \in expired'[ip]
                  \/ /\ Hit(ip, k, v)
                     /\ UNCHANGED <<reset, wipes, expired>> /\ m = n + 1
<1>1. /\ profile \in [IP -> ProfileType] /\ profile' \in [IP -> ProfileType]
      /\ wipes \in [IP -> Nat] /\ DOMAIN reset = IP /\ DOMAIN expired = IP
  BY TypeStep DEF TypeOK, HistoryType
<1>2. profile[ip].hash[k][v] \in Nat /\ profile'[ip].hash[k][v] \in Nat
  BY <1>1 DEF ProfileType
<1>3. CASE UNCHANGED redis /\ ~RunCommand
  BY <1>2, <1>3 DEF redis, Hit
<1>4. ASSUME NEW i \in IP, Reset(i)
      PROVE  \/ /\ ~Hit(ip, k, v)
                /\ reset'[ip] = HowFar /\ wipes'[ip] # 0 /\ profile'[ip].hash[k][v] = 0
                /\ UNCHANGED <<log, committed, consumer, counted, refused, faults>>
             \/ /\ ~Hit(ip, k, v) /\ reset'[ip] = reset[ip] /\ wipes'[ip] = wipes[ip]
                /\ expired'[ip] = expired[ip] /\ profile'[ip] = profile[ip]
  <2>1. ~RunCommand
    BY <1>4 DEF RunCommand, Reset, consumer, TypeOK
  <2>2. CASE i = ip
    <3>1. profile'[ip] = NoProfile /\ reset'[ip] = HowFar /\ wipes'[ip] = wipes[ip] + 1
      BY <1>1, <1>4, <2>2 DEF Reset
    <3>2. NoProfile.hash[k][v] = 0
      BY DEF NoProfile, NoCounts
    <3>3. wipes'[ip] # 0
      BY <1>1, <3>1
    <3> QED
      BY <1>4, <2>1, <3>1, <3>2, <3>3 DEF Reset, Hit
  <2>3. CASE i # ip
    BY <1>1, <1>4, <2>1, <2>3 DEF Reset, Hit
  <2> QED
    BY <2>2, <2>3
<1>5. ASSUME NEW i \in IP, NEW j \in ProfileKeys, ExpireKey(i, j)
      PROVE  /\ ~Hit(ip, k, v) /\ reset'[ip] = reset[ip] /\ (wipes'[ip] = 0 => wipes[ip] = 0)
             /\ expired[ip] \subseteq expired'[ip]
             /\ profile'[ip].hash[k][v] <= profile[ip].hash[k][v]
             /\ profile'[ip].hash[k][v] = profile[ip].hash[k][v] \/ k \in expired'[ip]
  <2>1. ~RunCommand
    BY <1>5 DEF RunCommand, ExpireKey, consumer, TypeOK
  <2>2. reset'[ip] = reset[ip] /\ (wipes'[ip] = 0 => wipes[ip] = 0)
    BY <1>1, <1>5 DEF ExpireKey
  <2>3. CASE i # ip
    BY <1>1, <1>2, <1>5, <2>1, <2>2, <2>3 DEF ExpireKey, Hit
  <2>4. CASE i = ip
    <3>1. profile'[ip] = DropKey(profile[ip], j) /\ expired'[ip] = expired[ip] \union {j}
      BY <1>1, <1>5, <2>4 DEF ExpireKey
    <3>2. profile[ip] \in ProfileType
      BY <1>1
    <3>3. CASE j = k
      <4>1. DropKey(profile[ip], j).hash = [profile[ip].hash EXCEPT ![k] = NoCounts]
        BY <3>2, <3>3 DEF DropKey, ProfileType, HashKeys
      <4>2. profile'[ip].hash[k][v] = 0
        BY <3>1, <3>2, <4>1 DEF NoCounts, ProfileType
      <4> QED
        BY <1>2, <2>1, <2>2, <3>1, <3>3, <4>2 DEF Hit
    <3>4. CASE j # k
      <4>1. DropKey(profile[ip], j).hash[k] = profile[ip].hash[k]
        BY <3>2, <3>4 DEF DropKey, ProfileType
      <4> QED
        BY <1>2, <2>1, <2>2, <3>1, <4>1 DEF Hit
    <3> QED
      BY <3>3, <3>4
  <2> QED
    BY <2>3, <2>4
<1>6. CASE RunCommand
  <2> DEFINE c == Pipeline[next]
  <2>1. /\ pc = "update" /\ UNCHANGED <<reset, wipes, expired>> /\ next \in 1..Len(Pipeline)
        /\ profile' = [profile EXCEPT ![InHand.ip] = Execute(@, c)]
        /\ InHand \in UsefulEvent
    <3>1. pc = "update"
      BY <1>6 DEF RunCommand
    <3>2. next \in Nat \ {0} /\ Len(Pipeline) \in Nat /\ InHand \in UsefulEvent
      BY <3>1, PipelineFacts, UsefulIsEvent DEF Bookkeeping
    <3> QED
      BY <1>6, <3>1, <3>2 DEF RunCommand
  <2>2. CASE InHand.ip # ip
    <3>1. profile'[ip] = profile[ip] /\ ~Hit(ip, k, v)
      BY <1>1, <2>1, <2>2 DEF Hit
    <3> QED
      BY <1>2, <2>1, <3>1
  <2>3. CASE InHand.ip = ip
    <3>1. profile'[ip] = Execute(profile[ip], c) /\ profile[ip] \in ProfileType
      BY <1>1, <2>1, <2>3
    <3>2. c \in SoundCommand
      BY <2>1, PipelineFacts
    <3>3. Hit(ip, k, v) <=> c.op = "HINCRBY" /\ c.key = k /\ c.arg = v
      <4>1. /\ InHand[k] # Empty => Pipeline[Place(InHand, k)] = Cmd("HINCRBY", k, InHand[k])
            /\ c.op = "HINCRBY" /\ c.key = k => next = Place(InHand, k) /\ InHand[k] # Empty
        BY <2>1, OneIncrement DEF Pipeline
      <4>2. v # Empty
        BY ProfileAssumption
      <4>3. /\ Cmd("HINCRBY", k, InHand[k]).op = "HINCRBY"
            /\ Cmd("HINCRBY", k, InHand[k]).key = k
            /\ Cmd("HINCRBY", k, InHand[k]).arg = InHand[k]
        BY DEF Cmd
      <4> QED
        BY <1>6, <2>3, <4>1, <4>2, <4>3 DEF Hit
    <3> HIDE DEF c
    <3>4. LET n == profile[ip].hash[k][v]
              m == profile'[ip].hash[k][v]
          IN  /\ Hit(ip, k, v) => m = n + 1
              /\ ~Hit(ip, k, v) => m <= n
              /\ ~Hit(ip, k, v) /\ TTLDays > 0 => m = n
      BY <3>1, <3>2, <3>3, ExecuteCount
    <3> QED
      BY <1>2, <2>1, <3>4
  <2> QED
    BY <2>2, <2>3
<1> QED
  BY <1>2, <1>3, <1>4, <1>5, <1>6
  DEF Step, Loop, vars, consumer, redis, Grow, Start, Fetch, FetchCancelled,
      UpdateDone, Commit, Stop, Resend, GiveUp, Sigterm, Crash, Rejoin

\* A set that gains at most one element when its counter gains one stays covered by it.
LEMMA StaysCovered ==
    ASSUME NEW S, IsFiniteSet(S), NEW n \in Nat, Cardinality(S) <= n, NEW T
    PROVE  /\ T \subseteq S => Cardinality(T) <= n
           /\ \A x : T \subseteq S \union {x} => Cardinality(T) <= n + 1
<1>1. Cardinality(S) \in Nat
  BY FS_CardinalityType
<1>2. ASSUME T \subseteq S PROVE Cardinality(T) <= n
  <2>1. IsFiniteSet(T) /\ Cardinality(T) <= Cardinality(S)
    BY <1>2, FS_Subset
  <2>2. Cardinality(T) \in Nat
    BY <2>1, FS_CardinalityType
  <2> QED
    BY <1>1, <2>1, <2>2
<1>3. ASSUME NEW x, T \subseteq S \union {x} PROVE Cardinality(T) <= n + 1
  <2> DEFINE U == S \union {x}
  <2>1. IsFiniteSet(U) /\ Cardinality(U) \in Nat /\ Cardinality(U) <= Cardinality(S) + 1
    BY <1>1, FS_AddElement
  <2>2. T \in SUBSET U
    BY <1>3
  <2> HIDE DEF U
  <2>3. IsFiniteSet(T) /\ Cardinality(T) <= Cardinality(U)
    BY <2>1, <2>2, FS_Subset
  <2>4. Cardinality(T) \in Nat
    BY <2>3, FS_CardinalityType
  <2> QED
    BY <1>1, <2>1, <2>3, <2>4
<1> QED
  BY <1>2, <1>3

\* At every moment only finitely many messages have been published.
LEMMA FiniteLogs ==
    ASSUME IsFiniteSet(Partition), NEW L, \A p \in Partition : Len(L[p]) \in Nat
    PROVE  IsFiniteSet(UNION { {p} \X (1..Len(L[p])) : p \in Partition })
<1> DEFINE Of == [p \in Partition |-> {p} \X (1..Len(L[p]))]
           All == { Of[p] : p \in Partition }
<1>1. ASSUME NEW p \in Partition PROVE IsFiniteSet(Of[p])
  <2>1. 1 \in Int /\ Len(L[p]) \in Int
    OBVIOUS
  <2>2. IsFiniteSet(1..Len(L[p])) /\ IsFiniteSet({p})
    BY <2>1, FS_Interval, FS_Singleton
  <2>3. IsFiniteSet({p} \X (1..Len(L[p])))
    BY <2>2, FS_Product
  <2> QED
    BY <2>3
<1>3. Of \in Surjection(Partition, All)
  BY DEF Surjection
<1> HIDE DEF Of
<1>4. IsFiniteSet(All)
  BY <1>3, FS_Surjection
<1>5. IsFiniteSet(UNION All)
  BY <1>1, <1>4, FS_UNION
<1>6. UNION All = UNION { {p} \X (1..Len(L[p])) : p \in Partition }
  BY DEF Of
<1> QED
  BY <1>5, <1>6

LEMMA PublishedFinite ==
    ASSUME IsFiniteSet(Partition), TypeOK
    PROVE  \A S : S \subseteq Published => IsFiniteSet(S)
<1>1. \A p \in Partition : Len(log[p]) \in Nat
  BY DEF TypeOK
<1>2. IsFiniteSet(Published)
  BY <1>1, FiniteLogs DEF Published
<1> QED
  BY <1>2, FS_Subset

LEMMA HistoryTypeStep == TypeOK /\ Bookkeeping /\ HistoryType /\ Step => HistoryType'
<1> SUFFICES ASSUME TypeOK, Bookkeeping, HistoryType, Step PROVE HistoryType'
  OBVIOUS
<1>1. CASE UNCHANGED <<reset, expired>>
  BY <1>1 DEF HistoryType
<1>2. ASSUME NEW ip \in IP, Reset(ip) PROVE HistoryType'
  <2>1. HowFar \in [done : [Partition -> Nat], begun : [Partition -> Nat]]
    <3>1. \A p \in Partition : /\ committed[p] \in Nat /\ pos[p] \in Nat
                               /\ hand # Nothing => hand[2] \in Nat
      BY DEF TypeOK
    <3>2. [p \in Partition |->
             LET n == Greater(pos[p], committed[p])
             IN  IF hand # Nothing /\ hand[1] = p THEN Greater(hand[2], n) ELSE n]
            \in [Partition -> Nat]
      BY <3>1 DEF Greater
    <3>3. committed \in [Partition -> Nat]
      BY DEF TypeOK
    <3> QED
      BY <3>2, <3>3 DEF HowFar
  <2> QED
    BY <1>2, <2>1 DEF Reset, HistoryType
<1>3. ASSUME NEW ip \in IP, NEW k \in ProfileKeys, ExpireKey(ip, k) PROVE HistoryType'
  BY <1>3 DEF ExpireKey, HistoryType
<1> QED
  BY <1>1, <1>2, <1>3
  DEF Step, Loop, vars, consumer, redis, Grow, Start, Fetch, FetchCancelled,
      RunCommand, UpdateDone, Commit, Stop, Resend, GiveUp, Sigterm, Crash, Rejoin

\* The same for the messages that are credited.
LEMMA CreditedStep ==
    ASSUME TypeOK, Bookkeeping, Step, counted \subseteq Published,
           NEW ip \in IP, NEW k \in HashKeys, NEW v \in Value,
           NEW q \in Credited(ip, k, v)', q \notin Credited(ip, k, v)
    PROVE  Hit(ip, k, v) /\ q = hand
<1>1. q \in Carrying(ip, k, v)'
  BY DEF Credited
<1>2. CASE Busy' /\ q = hand' /\ Incremented(k)'
  <2>1. InHand' \in Useful /\ InHand'.ip = ip /\ InHand'[k] = v /\ v # Empty
    BY <1>1, <1>2, ProfileAssumption DEF Carrying, InHand
  <2>2. /\ Busy /\ hand' = hand /\ InHand' = InHand
        /\ Incremented(k) \/ (RunCommand /\ next = Place(InHand, k))
    BY <1>2, <2>1, IncrementedStep
  <2>3. q \in Published
    BY <1>1, <1>2, <2>2, PublishedMember DEF Carrying, Bookkeeping
  <2>4. q \in Carrying(ip, k, v)
    BY <1>1, <2>3, CarryingStep
  <2> QED
    BY <1>2, <2>1, <2>2, <2>4 DEF Credited, Hit
<1>3. ASSUME q \in counted PROVE FALSE
  <2>1. q \in Carrying(ip, k, v)
    BY <1>1, <1>3, CarryingStep
  <2> QED
    BY <1>3, <2>1 DEF Credited
<1>4. ASSUME q \in counted', q \notin counted PROVE Busy' /\ q = hand' /\ Incremented(k)'
  <2>1. CASE UpdateDone
    BY <1>4, <2>1 DEF UpdateDone, Busy, Incremented
  <2>2. CASE counted' = counted
    BY <1>4, <2>2
  <2> QED
    BY <2>1, <2>2
    DEF Step, Loop, vars, Grow, Reset, ExpireKey, Start, Fetch,
        FetchCancelled, RunCommand, Commit, Stop, Resend, GiveUp, Sigterm, Crash, Rejoin
<1> QED
  BY <1>2, <1>3, <1>4 DEF Credited

CountersInv == HistoryType /\ counted \subseteq Published /\ CountersCover

\* Whatever has begun at a reset is behind it: nothing of it is owed afterwards.
LEMMA ResetOwesNothing ==
    ASSUME TypeOK, Bookkeeping, NEW ip \in IP, NEW k \in HashKeys, NEW v \in Value
    PROVE  After(Through(ip, k, v), HowFar.begun) = {}
<1> SUFFICES ASSUME NEW q \in Through(ip, k, v), q[2] > HowFar.begun[q[1]] PROVE FALSE
  BY DEF After
<1>1. /\ q[1] \in Partition /\ q[2] \in Nat /\ q = <<q[1], q[2]>>
      /\ \/ q[2] <= committed[q[1]]
         \/ q[2] <= pos[q[1]]
         \/ Busy /\ q[1] = hand[1] /\ q[2] <= hand[2]
  <2>1. q \in Published /\ q \in Behind(k)
    BY DEF Through, Carrying
  <2>2. q[1] \in Partition /\ q[2] \in Nat /\ q = <<q[1], q[2]>>
    BY <2>1, PublishedMember
  <2>3. Busy => hand[2] \in Nat
    BY DEF Bookkeeping
  <2> QED
    BY <2>1, <2>2, <2>3 DEF Behind
<1>2. /\ committed[q[1]] \in Nat /\ pos[q[1]] \in Nat
      /\ Busy => hand # Nothing
      /\ hand # Nothing => hand[2] \in Nat
  BY <1>1 DEF TypeOK, Bookkeeping, Nothing
<1>3. HowFar.begun[q[1]] =
        LET n == Greater(pos[q[1]], committed[q[1]])
        IN  IF hand # Nothing /\ hand[1] = q[1] THEN Greater(hand[2], n) ELSE n
  BY <1>1 DEF HowFar
<1>4. /\ HowFar.begun[q[1]] >= committed[q[1]]
      /\ HowFar.begun[q[1]] >= pos[q[1]]
      /\ HowFar.begun[q[1]] \in Nat
      /\ Busy /\ q[1] = hand[1] => HowFar.begun[q[1]] >= hand[2]
  BY <1>2, <1>3 DEF Greater
<1> QED
  BY <1>1, <1>2, <1>4

LEMMA CountersCoverStep ==
    ASSUME IsFiniteSet(Partition), TTLDays > 0, TypeOK, Bookkeeping, CountersInv, Step
    PROVE  CountersCover'
<1> SUFFICES ASSUME NEW ip \in IP, NEW k \in HashKeys, k \notin expired'[ip], NEW v \in Value
             PROVE  /\ Cardinality(After(Through(ip, k, v), reset[ip].begun)')
                         <= profile'[ip].hash[k][v]
                    /\ wipes'[ip] = 0 =>
                         Cardinality(Credited(ip, k, v)') <= profile'[ip].hash[k][v]
  BY DEF CountersCover
<1> DEFINE n == profile[ip].hash[k][v]
           m == profile'[ip].hash[k][v]
           owed == After(Through(ip, k, v), reset[ip].begun)
           credited == Credited(ip, k, v)
<1>1. IsFiniteSet(owed) /\ IsFiniteSet(credited)
  <2>1. owed \subseteq Published /\ credited \subseteq Published
    BY DEF After, Through, Behind, Credited, Carrying
  <2> QED
    BY <2>1, PublishedFinite DEF CountersInv
<1>2. /\ n \in Nat /\ m \in Nat
      /\ \/ ~Hit(ip, k, v) /\ reset'[ip] = HowFar /\ wipes'[ip] # 0 /\ m = 0
             /\ UNCHANGED <<log, committed, consumer, counted, refused, faults>>
         \/ ~Hit(ip, k, v) /\ reset'[ip] = reset[ip] /\ (wipes'[ip] = 0 => wipes[ip] = 0)
             /\ expired[ip] \subseteq expired'[ip] /\ m = n
         \/ Hit(ip, k, v) /\ UNCHANGED <<reset, wipes, expired>> /\ m = n + 1
  BY CounterStep DEF CountersInv
<1>3. k \notin expired[ip] =>
        Cardinality(owed) <= n /\ (wipes[ip] = 0 => Cardinality(credited) <= n)
  BY DEF CountersInv, CountersCover
<1>4. CASE ~Hit(ip, k, v) /\ reset'[ip] = HowFar /\ wipes'[ip] # 0 /\ m = 0
             /\ UNCHANGED <<log, committed, consumer, counted, refused, faults>>
  <2>1. HowFar' = HowFar
    BY <1>4 DEF HowFar, consumer
  <2>2. After(Through(ip, k, v)', HowFar.begun) = {}
    <3>1. \A q : q \in Through(ip, k, v)' => q \in Through(ip, k, v)
      BY <1>4, ThroughStep
    <3> QED
      BY <3>1, ResetOwesNothing DEF After
  <2>3. owed' = {}
    BY <1>4, <2>2 DEF After
  <2> QED
    BY <1>4, <2>3, FS_EmptySet
<1>5. CASE ~Hit(ip, k, v) /\ reset'[ip] = reset[ip] /\ (wipes'[ip] = 0 => wipes[ip] = 0)
             /\ expired[ip] \subseteq expired'[ip] /\ m = n
  <2>1. owed' \subseteq owed
    BY <1>5, ThroughStep DEF After
  <2>2. Credited(ip, k, v)' \subseteq credited
    BY <1>5, CreditedStep DEF CountersInv
  <2> HIDE DEF n, m, owed, credited
  <2>3. Cardinality(owed') <= m
    BY <1>1, <1>2, <1>3, <1>5, <2>1, StaysCovered
  <2>4. wipes'[ip] = 0 => Cardinality(Credited(ip, k, v)') <= m
    BY <1>1, <1>2, <1>3, <1>5, <2>2, StaysCovered
  <2> QED
    BY <2>3, <2>4 DEF owed, m
<1>6. CASE Hit(ip, k, v) /\ UNCHANGED <<reset, wipes, expired>> /\ m = n + 1
  <2>1. owed' \subseteq owed \union {hand}
    BY <1>6, ThroughStep DEF After
  <2>2. Credited(ip, k, v)' \subseteq credited \union {hand}
    BY CreditedStep DEF CountersInv
  <2> HIDE DEF n, m, owed, credited
  <2>3. Cardinality(owed') <= m
    BY <1>1, <1>2, <1>3, <1>6, <2>1, StaysCovered
  <2>4. wipes'[ip] = 0 => Cardinality(Credited(ip, k, v)') <= m
    BY <1>1, <1>2, <1>3, <1>6, <2>2, StaysCovered
  <2> QED
    BY <2>3, <2>4 DEF owed, m
<1> QED
  BY <1>2, <1>4, <1>5, <1>6

LEMMA CountersInvStep ==
    ASSUME IsFiniteSet(Partition), TTLDays > 0, TypeOK, Bookkeeping, CountersInv, Step
    PROVE  CountersInv'
<1>1. counted' \subseteq Published'
  <2>1. \A q \in Published : q \in Published'
    BY LogGrows, PublishedMember
  <2>2. counted' = counted \/ (Busy /\ counted' = counted \union {hand})
    BY DEF Step, Loop, vars, Grow, Reset, ExpireKey, Start, Fetch,
           FetchCancelled, RunCommand, UpdateDone, Commit, Stop, Resend, GiveUp, Sigterm,
           Crash, Rejoin, Busy
  <2>3. Busy => hand \in Published
    BY PublishedMember DEF Bookkeeping
  <2> QED
    BY <2>1, <2>2, <2>3 DEF CountersInv
<1> QED
  BY <1>1, HistoryTypeStep, CountersCoverStep DEF CountersInv

LEMMA CountersInvInit == Init => CountersInv
<1> SUFFICES ASSUME Init PROVE CountersInv
  OBVIOUS
<1>1. HistoryType
  BY DEF Init, HistoryType, NotYet
<1>2. \A p \in Partition : Len(log[p]) = 0
  BY DEF Init
<1>4. Published = {}
  <2>1. \A q : q \notin Published
    BY <1>2, PublishedMember
  <2> QED
    BY <2>1
<1>5. CountersCover
  <2>1. \A ip \in IP, k \in HashKeys, v \in Value :
          /\ profile[ip].hash[k][v] = 0
          /\ After(Through(ip, k, v), reset[ip].begun) = {}
          /\ Credited(ip, k, v) = {}
    BY <1>4 DEF Init, NoProfile, NoCounts, After, Through, Behind, Credited, Carrying
  <2>2. Cardinality({}) <= 0
    BY FS_EmptySet
  <2>3. ASSUME NEW ip \in IP, NEW k \in HashKeys, NEW v \in Value
        PROVE  /\ Cardinality(After(Through(ip, k, v), reset[ip].begun)) <= profile[ip].hash[k][v]
               /\ Cardinality(Credited(ip, k, v)) <= profile[ip].hash[k][v]
    BY <2>1, <2>2
  <2> QED
    BY <2>3 DEF CountersCover
<1> QED
  BY <1>1, <1>4, <1>5 DEF CountersInv, Init

LEMMA CountersHold ==
    ASSUME IsFiniteSet(Partition), TTLDays > 0
    PROVE  Spec => []CountersInv
<1>1. IInv /\ CountersInv /\ [Next]_vars => CountersInv'
  BY NextIsStep, CountersInvStep DEF IInv
<1> QED
  BY <1>1, CountersInvInit, InvariantHolds, PTL DEF Spec

LEMMA CountersSuffice ==
    ASSUME IsFiniteSet(Partition), IInv, CountersInv
    PROVE  CommittedIsInProfile
<1> SUFFICES ASSUME NEW ip \in IP, NEW k \in HashKeys, k \notin expired[ip], NEW v \in Value
             PROVE  Cardinality(After(Committed(Carrying(ip, k, v)), reset[ip].begun)
                      \ (IF wipes[ip] = 0 THEN refused \ counted ELSE refused))
                        <= profile[ip].hash[k][v]
  BY DEF CommittedIsInProfile
<1> DEFINE n == profile[ip].hash[k][v]
           due == After(Committed(Carrying(ip, k, v)), reset[ip].begun)
           owed == After(Through(ip, k, v), reset[ip].begun)
           credited == Credited(ip, k, v)
<1>1. TypeOK /\ CommittedIsSettled
  BY DEF IInv, Passed, CountersInv
<1>2. IsFiniteSet(owed) /\ IsFiniteSet(credited)
  <2>1. owed \subseteq Published /\ credited \subseteq Published
    BY DEF After, Through, Behind, Credited, Carrying
  <2> QED
    BY <1>1, <2>1, PublishedFinite
<1>3. /\ n \in Nat /\ Cardinality(owed) <= n
      /\ wipes[ip] = 0 => Cardinality(credited) <= n
  BY <1>1 DEF CountersInv, CountersCover, TypeOK, ProfileType
<1>4. \A q \in due : /\ q \in Carrying(ip, k, v) /\ q \in Published
                     /\ q[2] <= committed[q[1]] /\ q[2] > reset[ip].begun[q[1]]
  BY DEF After, Committed, Carrying
<1>5. CASE wipes[ip] = 0
  <2>1. due \ (refused \ counted) \subseteq credited
    <3> SUFFICES ASSUME NEW q \in due, q \notin refused \/ q \in counted
                 PROVE  q \in counted
      BY <1>4 DEF Credited
    <3>1. /\ q = <<q[1], q[2]>> /\ q[1] \in Partition /\ q[2] \in 1..Len(log[q[1]])
          /\ q[2] <= committed[q[1]] /\ log[q[1]][q[2]] \in Useful
      BY <1>4, PublishedMember DEF Carrying
    <3>2. q[2] \in 1..committed[q[1]]
      BY <1>1, <3>1 DEF TypeOK
    <3>3. Ledger!Settled(q[1], q[2])
      BY <1>1, <3>1, <3>2 DEF CommittedIsSettled
    <3> QED
      BY <3>1, <3>3 DEF Ledger!Settled
  <2> HIDE DEF n, due, credited
  <2>2. Cardinality(due \ (refused \ counted)) <= n
    BY <1>2, <1>3, <1>5, <2>1, StaysCovered
  <2> QED
    BY <1>5, <2>2 DEF n, due
<1>6. CASE wipes[ip] # 0
  <2>1. due \ refused \subseteq owed
    BY <1>4 DEF After, Through, Behind
  <2> HIDE DEF n, due, owed
  <2>2. Cardinality(due \ refused) <= n
    BY <1>2, <1>3, <2>1, StaysCovered
  <2> QED
    BY <1>6, <2>2 DEF n, due
<1> QED
  BY <1>5, <1>6

\* Every committed search is in every counter of its client's profile, through crashes,
\* cut and repeated pipelines, lost commits, rejoins and resets, for any number of
\* partitions, clients and messages (main.go:78-122, profile.go:65-101).  A time to live
\* that is not positive makes each update delete its own counters: profile.go:91-94.
THEOREM CommittedSearchesAreCounted ==
    ASSUME IsFiniteSet(Partition), TTLDays > 0
    PROVE  Spec => []CommittedIsInProfile
<1>1. IInv /\ CountersInv => CommittedIsInProfile
  BY CountersSuffice
<1> QED
  BY <1>1, InvariantHolds, CountersHold, PTL

-----------------------------------------------------------------------------
(* The counters are exact while nothing has gone wrong. *)

\* What is left of the next-state relation while no fault has happened.
Undisturbed ==
    \/ UNCHANGED vars
    \/ Grow
    \/ \E ip \in IP : Reset(ip) \/ \E k \in ProfileKeys : ExpireKey(ip, k)
    \/ Start \/ RunCommand \/ UpdateDone
    \/ \E p \in Partition : Fetch(p)
    \/ Commit /\ committed' = [committed EXCEPT ![hand[1]] = CommitOffset]

LEMMA QuietSteps ==
    ASSUME TypeOK, Orderly, Step, faults' = 0
    PROVE  faults = 0 /\ Undisturbed
<1>1. faults \in Nat
  BY DEF TypeOK
<1>2. \A kind : ~Fault(kind)
  BY <1>1 DEF Fault
<1>3. ~(Resend \/ GiveUp \/ Sigterm \/ Crash \/ Rejoin)
  BY <1>2 DEF Resend, GiveUp, Sigterm, Crash, Rejoin
<1>4. faults = 0
  BY <1>2, <1>3 DEF Step, Loop, vars, Grow, Reset, ExpireKey, Start, Fetch,
     FetchCancelled, RunCommand, UpdateDone, Commit, Stop
<1>5. ~cancelled
  BY <1>4 DEF Orderly, InOrder
<1>6. Commit => committed' = [committed EXCEPT ![hand[1]] = CommitOffset]
  BY <1>2, <1>5 DEF Commit
<1>7. ~Stop /\ \A p \in Partition : ~FetchCancelled(p)
  BY <1>5 DEF Stop, FetchCancelled
<1> QED
  BY <1>3, <1>4, <1>6, <1>7 DEF Step, Loop, Undisturbed

LEMMA OrderlyStep ==
    ASSUME TypeOK, HistoryType, Bookkeeping, Orderly, Step
    PROVE  Orderly'
<1> SUFFICES ASSUME faults' = 0 PROVE InOrder'
  BY DEF Orderly
<1>1. InOrder /\ Undisturbed
  BY QuietSteps DEF Orderly
<1>2. /\ committed \in [Partition -> Nat] /\ pos \in [Partition -> Nat]
      /\ Busy => hand = <<hand[1], hand[2]>> /\ hand[1] \in Partition /\ hand[2] \in Nat
      /\ reset \in [IP -> [done : [Partition -> Nat], begun : [Partition -> Nat]]]
  BY DEF TypeOK, HistoryType, Bookkeeping
<1>3. CASE UNCHANGED <<committed, pos, pc, hand, cancelled, refused, reset>>
  BY <1>1, <1>3 DEF InOrder, Busy
<1>4. ASSUME NEW i \in IP, Reset(i) PROVE InOrder'
  <2>1. /\ UNCHANGED <<committed, pos, pc, hand, cancelled, refused>>
        /\ reset' = [reset EXCEPT ![i] = HowFar] /\ HowFar.done = committed
    BY <1>4 DEF Reset, consumer, HowFar
  <2>2. ASSUME NEW ip \in IP, NEW p \in Partition PROVE reset'[ip].done[p] <= committed[p]
    <3>1. CASE ip = i
      BY <1>2, <2>1, <3>1
    <3>2. CASE ip # i
      BY <1>1, <1>2, <2>1, <3>2 DEF InOrder
    <3> QED
      BY <3>1, <3>2
  <2> QED
    BY <1>1, <2>1, <2>2 DEF InOrder, Busy
<1>5. CASE Start
  <2>1. /\ ~Busy /\ ~Busy' /\ pos' = committed /\ ~cancelled'
        /\ UNCHANGED <<committed, refused, reset>>
    BY <1>2, <1>5 DEF Start, StartAt, Busy, redis
  <2> QED
    BY <1>1, <2>1 DEF InOrder
<1>6. ASSUME NEW p \in Partition, Fetch(p) PROVE InOrder'
  <2>1. /\ ~Busy /\ Busy' /\ pos' = [pos EXCEPT ![p] = @ + 1] /\ hand' = <<p, pos[p] + 1>>
        /\ UNCHANGED <<committed, refused, reset, cancelled>>
    BY <1>6 DEF Fetch, Busy, redis
  <2>2. /\ hand'[1] = p /\ hand'[2] = pos[p] + 1 /\ pos'[p] = pos[p] + 1 /\ pos[p] = committed[p]
        /\ \A o \in Partition \ {p} : pos'[o] = pos[o] /\ pos[o] = committed[o]
    BY <1>1, <1>2, <2>1 DEF InOrder
  <2>3. ASSUME NEW o \in Partition
        PROVE  pos'[o] = IF Busy' /\ hand'[1] = o THEN committed'[o] + 1 ELSE committed'[o]
    <3>1. CASE o = p
      BY <2>1, <2>2, <3>1
    <3>2. CASE o # p
      BY <2>1, <2>2, <3>2
    <3> QED
      BY <3>1, <3>2
  <2>4. hand'[2] = pos'[hand'[1]]
    BY <2>2
  <2>5. ~cancelled' /\ refused' = {} /\ \A ip \in IP, o \in Partition : reset'[ip].done[o] <= committed'[o]
    BY <1>1, <2>1 DEF InOrder
  <2> QED
    BY <2>3, <2>4, <2>5 DEF InOrder
<1>7. CASE UpdateDone
  <2>1. Busy /\ Busy' /\ UNCHANGED <<committed, pos, hand, cancelled, refused, reset>>
    BY <1>7 DEF UpdateDone, Busy, redis
  <2> QED
    BY <1>1, <2>1 DEF InOrder
<1>8. CASE Commit
  <2>1. /\ Busy /\ ~Busy' /\ UNCHANGED <<pos, cancelled, refused, reset>>
        /\ committed' = [committed EXCEPT ![hand[1]] = hand[2]]
    <3>1. ~cancelled /\ ~Fault("commit")
      BY <1>1 DEF InOrder, Fault, TypeOK
    <3> QED
      BY <1>8, <3>1 DEF Commit, CommitOffset, Busy, redis
  <2>2. hand[2] = committed[hand[1]] + 1 /\ hand[2] = pos[hand[1]]
    BY <1>1, <1>2, <2>1 DEF InOrder
  <2>3. \A p \in Partition : pos[p] = committed'[p] /\ committed[p] <= committed'[p]
    BY <1>1, <1>2, <2>1, <2>2 DEF InOrder
  <2>4. \A ip \in IP, p \in Partition : reset[ip].done[p] <= committed'[p]
    <3> SUFFICES ASSUME NEW ip \in IP, NEW p \in Partition
                 PROVE  reset[ip].done[p] <= committed'[p]
      OBVIOUS
    <3>1. reset[ip].done[p] \in Nat /\ committed[p] \in Nat /\ committed'[p] \in Nat
      BY <1>2, TypeStep DEF TypeOK
    <3> QED
      BY <1>1, <2>3, <3>1 DEF InOrder
  <2> QED
    BY <1>1, <2>1, <2>3, <2>4 DEF InOrder
<1> QED
  BY <1>1, <1>3, <1>4, <1>5, <1>6, <1>7, <1>8
  DEF Undisturbed, vars, consumer, redis, Grow, ExpireKey, RunCommand

\* While nothing goes wrong no message leaves the counters, and a HINCRBY brings in the
\* message in hand, which was not in them before.
LEMMA EnteredStep ==
    ASSUME TypeOK, HistoryType, Bookkeeping, Orderly, Step, faults' = 0,
           NEW ip \in IP, NEW k \in HashKeys, NEW v \in Value
    PROVE  /\ Entered(ip, k, v) \subseteq Entered(ip, k, v)'
           /\ Hit(ip, k, v) => /\ hand \in Entered(ip, k, v)'
                               /\ hand \notin Entered(ip, k, v)
                               /\ hand[2] > reset[ip].done[hand[1]]
<1>1. InOrder /\ Undisturbed
  BY QuietSteps DEF Orderly
<1>2. /\ committed \in [Partition -> Nat] /\ pos \in [Partition -> Nat] /\ next \in Nat \ {0}
      /\ Busy => hand = <<hand[1], hand[2]>> /\ hand[1] \in Partition /\ hand[2] \in Nat
      /\ reset \in [IP -> [done : [Partition -> Nat], begun : [Partition -> Nat]]]
  BY DEF TypeOK, HistoryType, Bookkeeping
<1>3. Busy => hand[2] = committed[hand[1]] + 1
  BY <1>1, <1>2 DEF InOrder
<1>4. ASSUME NEW q \in Entered(ip, k, v) PROVE q \in Entered(ip, k, v)'
  <2>1. /\ q \in Carrying(ip, k, v)'
        /\ q[1] \in Partition /\ q[2] \in Nat
        /\ q[2] <= committed[q[1]] \/ (Busy /\ q = hand /\ Incremented(k))
    <3>1. q \in Carrying(ip, k, v) /\ q \in Published
      BY DEF Entered, Carrying
    <3>2. q \in Carrying(ip, k, v)'
      BY <3>1, CarryingStep
    <3>3. q[1] \in Partition /\ q[2] \in Nat
      BY <3>1, PublishedMember
    <3> QED
      BY <3>2, <3>3 DEF Entered
  <2>2. \/ q[2] <= committed'[q[1]]
        \/ Busy' /\ q = hand' /\ Incremented(k)'
    <3>1. Busy /\ hand' = hand => InHand' = InHand
      BY InHandStays
    <3>2. CASE UNCHANGED <<committed, pc, hand, next>>
      BY <2>1, <3>1, <3>2 DEF Busy, Incremented
    <3>3. CASE Start \/ \E p \in Partition : Fetch(p)
      BY <2>1, <3>3 DEF Start, Fetch, Busy
    <3>4. CASE RunCommand
      <4>1. pc = "update" /\ UNCHANGED <<committed, pc, hand>> /\ next' = next + 1
        BY <3>4 DEF RunCommand
      <4>2. Incremented(k) => Incremented(k)'
        <5>1. InHand' = InHand /\ InHand \in UsefulEvent
          BY <3>1, <4>1, UsefulIsEvent DEF Busy, Bookkeeping
        <5>2. Place(InHand, k) \in Nat
          BY <5>1, OneIncrement
        <5>3. next > Place(InHand, k) => next + 1 > Place(InHand, k)
          BY <1>2, <5>2
        <5> QED
          BY <4>1, <5>1, <5>3 DEF Incremented
      <4> QED
        BY <2>1, <4>1, <4>2 DEF Busy
    <3>5. CASE UpdateDone
      BY <2>1, <3>5 DEF UpdateDone, Busy, Incremented
    <3>6. CASE Commit /\ committed' = [committed EXCEPT ![hand[1]] = CommitOffset]
      <4>1. Busy /\ committed' = [committed EXCEPT ![hand[1]] = hand[2]]
        BY <3>6 DEF Commit, CommitOffset, Busy
      <4>2. committed[q[1]] <= committed'[q[1]] /\ committed'[hand[1]] = hand[2]
        BY <1>2, <1>3, <2>1, <4>1
      <4>3. committed[q[1]] \in Nat /\ committed'[q[1]] \in Nat
        BY <2>1, TypeStep DEF TypeOK
      <4> QED
        BY <2>1, <4>2, <4>3
    <3> QED
      BY <1>1, <3>2, <3>3, <3>4, <3>5, <3>6
      DEF Undisturbed, vars, consumer, Grow, Reset, ExpireKey
  <2> QED
    BY <2>1, <2>2 DEF Entered
<1>5. ASSUME Hit(ip, k, v)
      PROVE  /\ hand \in Entered(ip, k, v)' /\ hand \notin Entered(ip, k, v)
             /\ hand[2] > reset[ip].done[hand[1]]
  <2>1. /\ pc = "update" /\ UNCHANGED <<pc, hand>> /\ next' = next + 1
        /\ next = Place(InHand, k) /\ InHand.ip = ip /\ InHand[k] = v /\ InHand' = InHand
    BY <1>5, InHandStays DEF Hit, RunCommand, Busy
  <2>2. hand \in Carrying(ip, k, v)'
    <3>1. InHand \in Useful /\ hand \in Published
      BY <2>1, PublishedMember DEF Bookkeeping, Busy
    <3>2. hand \in Carrying(ip, k, v)
      BY <2>1, <3>1 DEF Carrying, InHand
    <3> QED
      BY <3>2, CarryingStep
  <2>3. Incremented(k)' /\ ~Incremented(k)
    BY <1>2, <2>1 DEF Incremented
  <2>4. ~(hand[2] <= committed[hand[1]]) /\ hand[2] > reset[ip].done[hand[1]]
    <3>1. /\ hand[1] \in Partition /\ hand[2] = committed[hand[1]] + 1
          /\ reset[ip].done[hand[1]] <= committed[hand[1]]
      BY <1>1, <1>2, <1>3, <2>1 DEF Busy, InOrder
    <3>2. committed[hand[1]] \in Nat /\ reset[ip].done[hand[1]] \in Nat
      BY <1>2, <3>1
    <3> QED
      BY <3>1, <3>2
  <2> QED
    BY <2>1, <2>2, <2>3, <2>4 DEF Entered, Busy
<1> QED
  BY <1>4, <1>5

LEMMA CountersExactStep ==
    ASSUME IsFiniteSet(Partition), TypeOK, Bookkeeping, HistoryType, Orderly,
           CountersExact, Step
    PROVE  CountersExact'
<1> SUFFICES ASSUME faults' = 0, NEW ip \in IP, NEW k \in HashKeys, NEW v \in Value
             PROVE  profile'[ip].hash[k][v]
                      <= Cardinality(After(Entered(ip, k, v), reset[ip].done)')
  BY DEF CountersExact
<1> DEFINE n == profile[ip].hash[k][v]
           m == profile'[ip].hash[k][v]
           inside == After(Entered(ip, k, v), reset[ip].done)
<1>1. /\ IsFiniteSet(inside') /\ Cardinality(inside') \in Nat
      /\ IsFiniteSet(inside) /\ Cardinality(inside) \in Nat
  <2>1. inside \subseteq Published /\ inside' \subseteq Published'
    BY DEF After, Entered, Carrying
  <2>2. IsFiniteSet(Published) /\ IsFiniteSet(Published')
    <3>1. \A p \in Partition : Len(log'[p]) \in Nat
      BY TypeStep DEF TypeOK
    <3>2. IsFiniteSet(Published')
      BY <3>1, FiniteLogs DEF Published
    <3> QED
      BY <3>2, PublishedFinite
  <2> HIDE DEF inside
  <2> QED
    BY <2>1, <2>2, FS_Subset, FS_CardinalityType
<1>2. n <= Cardinality(inside)
  <2>1. faults = 0
    BY QuietSteps
  <2> QED
    BY <2>1 DEF CountersExact
<1>3. /\ n \in Nat /\ m \in Nat
      /\ \/ m = 0
         \/ ~Hit(ip, k, v) /\ reset'[ip] = reset[ip] /\ m <= n
         \/ Hit(ip, k, v) /\ reset'[ip] = reset[ip] /\ m = n + 1
  BY CounterStep
<1>4. CASE m = 0
  BY <1>1, <1>4
<1>5. CASE reset'[ip] = reset[ip] /\ m <= n
  <2>1. inside \subseteq inside'
    BY <1>5, EnteredStep DEF After
  <2> HIDE DEF n, m, inside
  <2>2. Cardinality(inside) <= Cardinality(inside')
    BY <1>1, <2>1, FS_Subset
  <2>3. m <= Cardinality(inside')
    BY <1>1, <1>2, <1>3, <1>5, <2>2
  <2> QED
    BY <2>3 DEF m, inside
<1>6. CASE Hit(ip, k, v) /\ reset'[ip] = reset[ip] /\ m = n + 1
  <2>1. inside \union {hand} \subseteq inside' /\ hand \notin inside
    BY <1>6, EnteredStep DEF After
  <2> HIDE DEF n, m, inside
  <2>2. Cardinality(inside \union {hand}) = Cardinality(inside) + 1
    BY <1>1, <2>1, FS_AddElement
  <2>3. Cardinality(inside \union {hand}) <= Cardinality(inside')
    BY <1>1, <2>1, FS_Subset
  <2>4. m <= Cardinality(inside')
    BY <1>1, <1>2, <1>3, <1>6, <2>2, <2>3
  <2> QED
    BY <2>4 DEF m, inside
<1> QED
  BY <1>3, <1>4, <1>5, <1>6

Exact == Orderly /\ CountersExact

LEMMA ExactInit ==
    ASSUME IsFiniteSet(Partition)
    PROVE  Init => Exact
<1> SUFFICES ASSUME Init PROVE Exact
  OBVIOUS
<1>1. InOrder
  BY DEF Init, InOrder, Busy, NotYet
<1>2. CountersInv /\ TypeOK
  BY CountersInvInit, InitIInv DEF IInv
<1>3. ASSUME NEW ip \in IP, NEW k \in HashKeys, NEW v \in Value
      PROVE  profile[ip].hash[k][v] <= Cardinality(After(Entered(ip, k, v), reset[ip].done))
  <2>1. profile[ip].hash[k][v] = 0
    BY DEF Init, NoProfile, NoCounts
  <2>2. After(Entered(ip, k, v), reset[ip].done) \subseteq Published
    BY DEF After, Entered, Carrying
  <2>3. Cardinality(After(Entered(ip, k, v), reset[ip].done)) \in Nat
    BY <1>2, <2>2, PublishedFinite, FS_CardinalityType DEF CountersInv
  <2> QED
    BY <2>1, <2>3
<1> QED
  BY <1>1, <1>3 DEF Exact, Orderly, CountersExact

LEMMA ExactStep ==
    ASSUME IsFiniteSet(Partition), TypeOK, Bookkeeping, CountersInv, Exact, Step
    PROVE  Exact'
BY OrderlyStep, CountersExactStep DEF CountersInv, Exact

\* As long as nothing has gone wrong the counters are exact between two messages: not
\* only is every committed search in them, but nothing is in them twice and nothing that
\* is not committed, also after resets and expiries.
THEOREM UndisturbedCountersAreExact ==
    ASSUME IsFiniteSet(Partition), TTLDays > 0
    PROVE  Spec => []CountedOnceIfUndisturbed
<1>1. Init => Exact
  BY ExactInit
<1>2. IInv /\ CountersInv /\ Exact /\ [Next]_vars => Exact'
  BY NextIsStep, ExactStep DEF IInv
<1>3. CommittedIsInProfile /\ IInv /\ Exact => CountedOnceIfUndisturbed
  <2> SUFFICES ASSUME CommittedIsInProfile, IInv, Exact, faults = 0, pc = "read",
                      NEW ip \in IP, NEW k \in HashKeys, NEW v \in Value
               PROVE  LET through == Committed(Carrying(ip, k, v))
                          count == profile[ip].hash[k][v]
                      IN  /\ count <= Cardinality(After(through, reset[ip].done))
                          /\ k \notin expired[ip] =>
                                 Cardinality(After(through, reset[ip].begun)) <= count
    BY DEF CountedOnceIfUndisturbed
  <2>1. Entered(ip, k, v) = Committed(Carrying(ip, k, v))
    BY DEF Entered, Committed, Busy
  <2>2. profile[ip].hash[k][v] <= Cardinality(After(Entered(ip, k, v), reset[ip].done))
    BY DEF Exact, CountersExact
  <2>3. refused = {}
    BY DEF Exact, Orderly, InOrder
  <2>4. \A S : S \ (IF wipes[ip] = 0 THEN refused \ counted ELSE refused) = S
    BY <2>3
  <2>5. k \notin expired[ip] =>
          Cardinality(After(Committed(Carrying(ip, k, v)), reset[ip].begun))
            <= profile[ip].hash[k][v]
    BY <2>4 DEF CommittedIsInProfile
  <2> QED
    BY <2>1, <2>2, <2>5
<1> QED
  BY <1>1, <1>2, <1>3, InvariantHolds, CountersHold, CommittedSearchesAreCounted, PTL DEF Spec

-----------------------------------------------------------------------------
(* The invariants together, for a specification that has this one as a part. *)

\* A profile that was never wiped owes the whole log.
Unwiped == \A ip \in IP : wipes[ip] = 0 => reset[ip] = NotYet /\ expired[ip] = {}

LEMMA UnwipedStep == TypeOK /\ HistoryType /\ Unwiped /\ Step => Unwiped'
<1> SUFFICES ASSUME TypeOK, HistoryType, Unwiped, Step PROVE Unwiped'
  OBVIOUS
<1>1. CASE UNCHANGED <<wipes, reset, expired>>
  BY <1>1 DEF Unwiped
<1>2. ASSUME NEW ip \in IP, Reset(ip) PROVE Unwiped'
  BY <1>2 DEF Reset, Unwiped, TypeOK, HistoryType
<1>3. ASSUME NEW ip \in IP, NEW k \in ProfileKeys, ExpireKey(ip, k) PROVE Unwiped'
  BY <1>3 DEF ExpireKey, Unwiped, TypeOK, HistoryType
<1> QED
  BY <1>1, <1>2, <1>3
  DEF Step, Loop, vars, redis, Grow, Start, Fetch, FetchCancelled, RunCommand, UpdateDone,
      Commit, Stop, Resend, GiveUp, Sigterm, Crash, Rejoin

Whole == IInv /\ CountersInv /\ Exact /\ Unwiped

LEMMA WholeInit ==
    ASSUME IsFiniteSet(Partition)
    PROVE  Init => Whole
<1>1. Init => Unwiped
  BY DEF Init, Unwiped
<1> QED
  BY <1>1, InitIInv, CountersInvInit, ExactInit DEF Whole

LEMMA WholeStep ==
    ASSUME IsFiniteSet(Partition), TTLDays > 0
    PROVE  Whole /\ Step => Whole'
BY TypeStep, BookkeepingStep, PassedStep, CountersInvStep, ExactStep, UnwipedStep
DEF Whole, IInv, CountersInv

\* What it says of an unwiped profile once everything published is committed.
LEMMA CaughtUpIsCounted ==
    ASSUME IsFiniteSet(Partition), Whole, NEW ip \in IP, wipes[ip] = 0,
           \A p \in Partition : committed[p] = Len(log[p]),
           NEW k \in HashKeys, NEW v \in Value
    PROVE  Cardinality(Carrying(ip, k, v) \ refused) <= profile[ip].hash[k][v]
<1>1. CommittedIsInProfile
  BY CountersSuffice DEF Whole
<1>2. k \notin expired[ip] /\ reset[ip] = NotYet
  BY DEF Whole, Unwiped
<1>3. After(Committed(Carrying(ip, k, v)), NotYet.begun) = Carrying(ip, k, v)
  <2> SUFFICES ASSUME NEW q \in Carrying(ip, k, v)
               PROVE  q[2] <= committed[q[1]] /\ q[2] > NotYet.begun[q[1]]
    BY DEF After, Committed
  <2>1. q[1] \in Partition /\ q[2] \in 1..Len(log[q[1]])
    BY PublishedMember DEF Carrying
  <2>2. NotYet.begun[q[1]] = 0
    BY <2>1 DEF NotYet
  <2> QED
    BY <2>1, <2>2
<1>4. Cardinality(Carrying(ip, k, v) \ (refused \ counted)) <= profile[ip].hash[k][v]
  BY <1>1, <1>2, <1>3 DEF CommittedIsInProfile
<1> DEFINE some == Carrying(ip, k, v) \ refused
           more == Carrying(ip, k, v) \ (refused \ counted)
<1>5. IsFiniteSet(more)
  BY PublishedFinite DEF Whole, IInv, Carrying
<1>6. some \in SUBSET more
  OBVIOUS
<1>7. profile[ip].hash[k][v] \in Nat
  BY DEF Whole, IInv, TypeOK, ProfileType
<1> HIDE DEF some, more
<1>8. /\ Cardinality(some) <= Cardinality(more)
      /\ Cardinality(some) \in Nat /\ Cardinality(more) \in Nat
  BY <1>5, <1>6, FS_Subset, FS_CardinalityType
<1>9. Cardinality(some) <= profile[ip].hash[k][v]
  BY <1>4, <1>7, <1>8 DEF more
<1> QED
  BY <1>9 DEF some

\* What it says of any profile while nothing has gone wrong.
LEMMA UndisturbedIsPublished ==
    ASSUME IsFiniteSet(Partition), Whole, faults = 0,
           NEW ip \in IP, NEW k \in HashKeys, NEW v \in Value
    PROVE  profile[ip].hash[k][v] <= Cardinality(Carrying(ip, k, v))
<1> DEFINE inside == After(Entered(ip, k, v), reset[ip].done)
           all == Carrying(ip, k, v)
<1>1. profile[ip].hash[k][v] <= Cardinality(inside)
  BY DEF Whole, Exact, CountersExact
<1>2. inside \in SUBSET all
  BY DEF After, Entered
<1>3. IsFiniteSet(all)
  BY PublishedFinite DEF Whole, IInv, Carrying
<1>4. profile[ip].hash[k][v] \in Nat
  BY DEF Whole, IInv, TypeOK, ProfileType
<1> HIDE DEF inside, all
<1>5. /\ Cardinality(inside) <= Cardinality(all)
      /\ Cardinality(inside) \in Nat /\ Cardinality(all) \in Nat
  BY <1>2, <1>3, FS_Subset, FS_CardinalityType
<1>6. profile[ip].hash[k][v] <= Cardinality(all)
  BY <1>1, <1>4, <1>5
<1> QED
  BY <1>6 DEF all
=============================================================================
