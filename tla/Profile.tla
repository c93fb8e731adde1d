------------------------------- MODULE Profile -------------------------------
(***************************************************************************)
(* The search profile of one IP as Redis keeps it, and the commands that   *)
(* internal/personalization/profile.go sends.                              *)
(*                                                                         *)
(* A profile is four keys: three hashes of counters and the list of recent *)
(* queries.  Redis has no empty hash and no empty list, so a key exists    *)
(* exactly when it holds something.  ttl is the set of keys that carry an  *)
(* expiry; the time left is not kept, because a key may then expire at any *)
(* moment as far as the other keys are concerned.                          *)
(*                                                                         *)
(* This module has no state: Personalizer holds a profile for each IP and  *)
(* changes it one Redis command at a time.                                 *)
(***************************************************************************)
EXTENDS Integers, Sequences

CONSTANTS
    IP,           \* client addresses
    Query,        \* search texts
    Value,        \* country codes, continent names and feature codes
    Empty,        \* the empty string, in any field of an event
    RecentLimit,  \* RECENT_SEARCHES_LIMIT; config.Load accepts any integer
    TTLDays       \* IP_PROFILE_TTL_DAYS; config.Load accepts any integer

ASSUME ProfileAssumption ==
    /\ RecentLimit \in Int
    /\ TTLDays \in Int
    /\ Empty \notin IP \union Query \union Value

HashKeys == {"countries", "continents", "feature_codes"}
ProfileKeys == HashKeys \union {"recent"}

ProfileType ==
    [hash : [HashKeys -> [Value -> Nat]], recent : Seq(Query), ttl : SUBSET ProfileKeys]

NoCounts == [v \in Value |-> 0]
NoProfile == [hash |-> [k \in HashKeys |-> NoCounts], recent |-> <<>>, ttl |-> {}]

\* What the event's JSON may carry: any field can be the empty string.
SearchEvent ==
    [ip : IP \union {Empty}, query : Query \union {Empty},
     countries : Value \union {Empty}, continents : Value \union {Empty},
     feature_codes : Value \union {Empty}]

-----------------------------------------------------------------------------
(* The commands of one UpdateProfile pipeline, in the order they are queued. *)

Command ==
    [op : {"HINCRBY", "LPUSH", "LTRIM", "EXPIRE"},
     key : ProfileKeys, arg : Query \union Value \union {Empty}]

Cmd(op, key, arg) == [op |-> op, key |-> key, arg |-> arg]

Increment(e, k) == IF e[k] = Empty THEN <<>> ELSE << Cmd("HINCRBY", k, e[k]) >>

\* What if one hash were named twice?
IncrementsCopied(e) ==
    Increment(e, "countries") \o Increment(e, "continents") \o Increment(e, "continents")
Increments(e) ==
    Increment(e, "countries") \o Increment(e, "continents") \o Increment(e, "feature_codes")

\* What if the wrong field were pushed?
RememberIP(e) == << Cmd("LPUSH", "recent", e.ip), Cmd("LTRIM", "recent", Empty) >>
Remember(e) == << Cmd("LPUSH", "recent", e.query), Cmd("LTRIM", "recent", Empty) >>

Refreshed(k) == Cmd("EXPIRE", k, Empty)

\* What if the list were left out?
RefreshHashes == << Refreshed("countries"), Refreshed("continents"), Refreshed("feature_codes") >>
Refresh ==
    << Refreshed("countries"), Refreshed("continents"), Refreshed("feature_codes"),
       Refreshed("recent") >>

UpdateCommands(e) == Increments(e) \o Remember(e) \o Refresh

-----------------------------------------------------------------------------
(* What Redis does with them. *)

KeyExists(prof, k) ==
    IF k = "recent" THEN prof.recent # <<>> ELSE \E v \in Value : prof.hash[k][v] # 0

DropKey(prof, k) ==
    IF k = "recent"
    THEN [prof EXCEPT !.recent = <<>>, !.ttl = @ \ {k}]
    ELSE [prof EXCEPT !.hash[k] = NoCounts, !.ttl = @ \ {k}]

\* What if the last index were the limit itself?
KeptOneMore(n) == IF n <= RecentLimit THEN n ELSE RecentLimit + 1

\* How many of n entries LTRIM key 0 (RecentLimit-1) keeps: a negative last
\* index counts from the end of the list, so a limit of 0 keeps everything and
\* a limit of -1 drops only the oldest entry.
Kept(n) ==
    IF RecentLimit >= 1
    THEN IF n < RecentLimit THEN n ELSE RecentLimit
    ELSE IF n + RecentLimit > 0 THEN n + RecentLimit ELSE 0

LTrim(prof) ==
    IF Kept(Len(prof.recent)) = 0
    THEN DropKey(prof, "recent")
    ELSE [prof EXCEPT !.recent = SubSeq(@, 1, Kept(Len(@)))]

\* EXPIRE does nothing to an absent key, and deletes the key at once when the
\* time to live is not positive.
Expire(prof, k) ==
    IF ~KeyExists(prof, k) THEN prof
    ELSE IF TTLDays <= 0 THEN DropKey(prof, k)
    ELSE [prof EXCEPT !.ttl = @ \union {k}]

Execute(prof, c) ==
    CASE c.op = "HINCRBY" -> [prof EXCEPT !.hash[c.key][c.arg] = @ + 1]
      [] c.op = "LPUSH"   -> [prof EXCEPT !.recent = << c.arg >> \o @]
      [] c.op = "LTRIM"   -> LTrim(prof)
      [] c.op = "EXPIRE"  -> Expire(prof, c.key)
=============================================================================
