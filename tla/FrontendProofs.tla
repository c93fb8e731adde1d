--------------------------- MODULE FrontendProofs ---------------------------
(* What the search page keeps in step, whatever the user does and in whatever *)
(* order the answers arrive.                                                  *)
EXTENDS Frontend, SequenceTheorems, TLAPS

-----------------------------------------------------------------------------
(* The selection. *)

\* A mouse click selects by the row's index, so every row's item is there.
RowsShow ==
    \A i \in DOMAIN rows :
        /\ rows[i].index \in DOMAIN lastResults
        /\ lastResults[rows[i].index] = rows[i].item

\* Among requests s, at most one is a loadMore.
OneMoreIn(s) ==
    \A i, j \in DOMAIN s : s[i].kind = "more" /\ s[j].kind = "more" => i = j

\* isLoadingMore lets one loadMore out at a time, and is set while it is out.
OneMore == OneMoreIn(inFlight) /\ (Sent("more") => isLoadingMore)

\* The rows are lastResults, in its order.
Aligned ==
    /\ Len(rows) = Len(lastResults)
    /\ \A i \in DOMAIN rows : rows[i].index = i

\* A list that was not replaced under a loadMore is the whole of lastResults, and has to
\* be when more is about to be appended.
RowsAligned ==
    ~crossed =>
        /\ rows # <<>> => Aligned
        /\ sentinel \/ isLoadingMore => Aligned

\* Then the marked row is the selected one; a list about to grow out of nothing has none.
MarkIsSelection ==
    ~crossed /\ selectedIndex > 0 /\ (rows # <<>> \/ sentinel \/ isLoadingMore)
        => marked = selectedIndex /\ marked \in DOMAIN rows

SelectionInv == TypeOK /\ RowsShow /\ OneMore /\ RowsAligned /\ MarkIsSelection

-----------------------------------------------------------------------------
(* The query. *)

\* Among requests s, no search was sent after the one at i.
NoSearchAfter(s, i) == \A j \in DOMAIN s : j > i => s[j].kind # "search"

\* The last search in s, and a loadMore after it, are for q.
AskedIn(s, q) ==
    \A i \in DOMAIN s :
        s[i].kind \in Ordered /\ NoSearchAfter(s, i) => s[i].query \in {q, None}

\* What the box holds waits for its timer or is what was searched for last.
BoxIsAsked ==
    searchInput # None =>
        \/ debounceTimer = searchInput
        \/ debounceTimer = None /\ currentQuery = searchInput

\* If no answer was overtaken, what was asked for last is the current query.
LastAsked == ~overtaken /\ currentQuery # None => AskedIn(inFlight, currentQuery)

\* Once that search is answered the rows are its answer.
RowsAnswer ==
    /\ ~overtaken /\ ~failed /\ searchInput # None /\ debounceTimer = None
    /\ ~Sent("search")
    => /\ \A i \in DOMAIN rows : rows[i].item.query = searchInput
       /\ rows = <<>> => Total[searchInput] = 0

AnswerInv == TypeOK /\ BoxIsAsked /\ LastAsked /\ RowsAnswer

-----------------------------------------------------------------------------
(* The pages. *)

\* A loadMore of s asks for the page of q after p, and every search of s was sent
\* before it.
ContinuesIn(s, q, p) ==
    \A i \in DOMAIN s : s[i].kind = "more" =>
        s[i].query = q /\ s[i].page = p + 1 /\ NoSearchAfter(s, i)

\* So does a loadMore that nothing crossed.
MoreContinues == ~crossed => ContinuesIn(inFlight, currentQuery, currentPage)

\* While a search is out the page is the first.
FirstPage == ~overtaken /\ ~crossed /\ Sent("search") => currentPage = 1

\* When all searches are in, the page after the current one continues lastResults, or
\* there is none.
NextPageContinues ==
    /\ ~overtaken /\ ~crossed
    /\ ~Sent("search")
    /\ sentinel \/ isLoadingMore
    => \/ currentQuery = None
       \/ currentPage = Len(lastResults)
       \/ Total[currentQuery] <= currentPage

PagesInv ==
    TypeOK /\ OneMore /\ LastAsked /\ MoreContinues /\ FirstPage /\ NextPageContinues
        /\ PagesInOrder

-----------------------------------------------------------------------------
(* Lemmas about the operators. *)

LEMMA RemoveAtFacts ==
    ASSUME NEW S, NEW s \in Seq(S), NEW i \in DOMAIN s
    PROVE  /\ RemoveAt(s, i) \in Seq(S)
           /\ Len(RemoveAt(s, i)) = Len(s) - 1
           /\ \A j \in 1..(Len(s) - 1) :
                RemoveAt(s, i)[j] = s[IF j < i THEN j ELSE j + 1]
<1>1. /\ SubSeq(s, 1, i - 1) \in Seq(S)
      /\ Len(SubSeq(s, 1, i - 1)) = i - 1
      /\ \A j \in 1..(i - 1) : SubSeq(s, 1, i - 1)[j] = s[j]
  BY SubSeqProperties
<1>2. /\ SubSeq(s, i + 1, Len(s)) \in Seq(S)
      /\ Len(SubSeq(s, i + 1, Len(s))) = Len(s) - i
      /\ \A j \in 1..(Len(s) - i) : SubSeq(s, i + 1, Len(s))[j] = s[i + j]
  BY SubSeqProperties
<1> DEFINE a == SubSeq(s, 1, i - 1)
           b == SubSeq(s, i + 1, Len(s))
<1>3. RemoveAt(s, i) = a \o b
  BY DEF RemoveAt
<1>4. a \in Seq(S) /\ b \in Seq(S)
  BY <1>1, <1>2
<1>5. Len(s) \in Nat /\ i \in 1..Len(s)
  OBVIOUS
<1>6. Len(a) = i - 1 /\ Len(b) = Len(s) - i
  BY <1>1, <1>2
<1> HIDE DEF a, b
<1>7. /\ a \o b \in Seq(S)
      /\ Len(a \o b) = Len(a) + Len(b)
      /\ \A j \in 1..(Len(a) + Len(b)) :
            (a \o b)[j] = IF j <= Len(a) THEN a[j] ELSE b[j - Len(a)]
  BY <1>4, ConcatProperties
<1>8. ASSUME NEW j \in 1..(Len(s) - 1)
      PROVE  (a \o b)[j] = s[IF j < i THEN j ELSE j + 1]
  <2>1. CASE j < i
    BY <2>1, <1>1, <1>5, <1>6, <1>7 DEF a
  <2>2. CASE j >= i
    <3>1. (a \o b)[j] = b[j - (i - 1)]
      BY <2>2, <1>5, <1>6, <1>7
    <3>2. j - (i - 1) \in 1..(Len(s) - i)
      BY <2>2, <1>5
    <3>3. b[j - (i - 1)] = s[i + (j - (i - 1))]
      BY <3>2, <1>2 DEF b
    <3>4. i + (j - (i - 1)) = j + 1 /\ ~(j < i)
      BY <2>2, <1>5
    <3>5. s[i + (j - (i - 1))] = s[j + 1]
      BY <3>4
    <3>6. (a \o b)[j] = s[j + 1]
      BY <3>1, <3>3, <3>5, Zenon
    <3>7. (IF j < i THEN j ELSE j + 1) = j + 1
      BY <2>2, <1>5
    <3> QED BY <3>6, <3>7
  <2>3. j < i \/ j >= i
    BY <1>5
  <2> QED BY <2>1, <2>2, <2>3, Zenon
<1> QED
  BY <1>3, <1>5, <1>6, <1>7, <1>8

\* What an answer leaves in flight: the other requests, in their order.
LEMMA OthersFacts ==
    ASSUME TypeOK, NEW i \in DOMAIN inFlight
    PROVE  /\ Others(i) \in Seq(Request)
           /\ Len(inFlight) \in Nat /\ i \in 1..Len(inFlight)
           /\ DOMAIN inFlight = 1..Len(inFlight)
           /\ DOMAIN Others(i) = 1..(Len(inFlight) - 1)
           /\ \A j \in 1..(Len(inFlight) - 1) :
                Others(i)[j] = inFlight[IF j < i THEN j ELSE j + 1]
<1>1. inFlight \in Seq(Request)
  BY DEF TypeOK
<1>2. Len(inFlight) \in Nat /\ i \in 1..Len(inFlight)
      /\ DOMAIN inFlight = 1..Len(inFlight)
  BY <1>1
<1>3. /\ Others(i) \in Seq(Request)
      /\ Len(Others(i)) = Len(inFlight) - 1
      /\ \A j \in 1..(Len(inFlight) - 1) :
            Others(i)[j] = inFlight[IF j < i THEN j ELSE j + 1]
  BY <1>1, RemoveAtFacts DEF Others
<1>4. DOMAIN Others(i) = 1..(Len(inFlight) - 1)
  BY <1>3
<1> QED BY <1>2, <1>3, <1>4

LEMMA RowsOfFacts ==
    ASSUME NEW items \in Seq(Item), NEW start \in Nat
    PROVE  /\ RowsOf(items, start) \in Seq([index : Nat \ {0}, item : Item])
           /\ Len(RowsOf(items, start)) = Len(items)
           /\ \A i \in 1..Len(items) :
                RowsOf(items, start)[i] = [index |-> start + i, item |-> items[i]]
<1>1. DOMAIN items = 1..Len(items) /\ Len(items) \in Nat
  OBVIOUS
<1>2. \A i \in 1..Len(items) : items[i] \in Item
  BY ElementOfSeq
<1>3. \A i \in 1..Len(items) :
        [index |-> start + i, item |-> items[i]] \in [index : Nat \ {0}, item : Item]
  BY <1>1, <1>2
<1> QED
  BY <1>1, <1>3, IsASeq DEF RowsOf

LEMMA PageFacts ==
    ASSUME NEW q \in Query \union {None}, NEW p \in Nat \ {0}
    PROVE  /\ Page(q, p) \in Seq(Item)
           /\ Page(q, p) # <<>> => /\ Page(q, p) = <<[query |-> q, page |-> p]>>
                                  /\ q \in Query /\ p <= Total[q]
           /\ Page(q, p) = <<>> /\ q \in Query => ~(p <= Total[q])
<1>1. q \in Query => [query |-> q, page |-> p] \in Item
  BY DEF Item
<1> QED BY <1>1 DEF Page

LEMMA RecsIsAnItem == <<[query |-> Recs, page |-> 1]>> \in Seq(Item)
<1>1. [query |-> Recs, page |-> 1] \in Item BY DEF Item
<1> QED BY <1>1

LEMMA TwoMinMax ==
    ASSUME NEW a \in Int, NEW b \in Int
    PROVE  /\ Min({a, b}) = IF a <= b THEN a ELSE b
           /\ Max({a, b}) = IF a <= b THEN b ELSE a
<1>1. ASSUME NEW m \in {a, b}, \A y \in {a, b} : m <= y
      PROVE  m = IF a <= b THEN a ELSE b
  BY <1>1
<1>2. ASSUME NEW m \in {a, b}, \A y \in {a, b} : m >= y
      PROVE  m = IF a <= b THEN b ELSE a
  BY <1>2
<1>3. /\ \E m \in {a, b} : \A y \in {a, b} : m <= y
      /\ \E m \in {a, b} : \A y \in {a, b} : m >= y
  OBVIOUS
<1>4. Min({a, b}) \in {a, b} /\ \A y \in {a, b} : Min({a, b}) <= y
  BY <1>3, Zenon DEF Min
<1>5. Max({a, b}) \in {a, b} /\ \A y \in {a, b} : Max({a, b}) >= y
  BY <1>3, Zenon DEF Max
<1>6. Min({a, b}) = IF a <= b THEN a ELSE b
  BY <1>1, <1>4
<1> QED BY <1>2, <1>5, <1>6

LEMMA MarkedAtFacts ==
    ASSUME TypeOK, NEW k \in Nat
    PROVE  MarkedAt(k) \in 0..Len(rows)
BY DEF MarkedAt, TypeOK

-----------------------------------------------------------------------------
(* Types. *)

LEMMA SimpleIsARequest ==
    \A kind \in {"resolve", "recs", "reload", "toggle", "reset"} : Simple(kind) \in Request
BY DEF Simple, Request

LEMMA RenderingTypes ==
    ASSUME TypeOK, NEW data, RenderRecommendations(data)
    PROVE  /\ lastResults' \in Seq(Item)
           /\ rows' \in Seq([index : Nat \ {0}, item : Item])
           /\ marked' \in 0..Len(rows') /\ sentinel' \in BOOLEAN /\ crossed' \in BOOLEAN
<1>1. lastResults' \in Seq(Item)
  BY RecsIsAnItem, EmptySeq DEF RenderRecommendations
<1>2. rows' \in Seq([index : Nat \ {0}, item : Item])
  BY <1>1, RowsOfFacts DEF RenderRecommendations
<1>3. marked' \in 0..Len(rows')
  BY <1>2 DEF RenderRecommendations
<1> QED
  BY <1>1, <1>2, <1>3 DEF RenderRecommendations, TypeOK

LEMMA EmptyTypes ==
    ASSUME TypeOK, NEW data, RenderEmpty(data)
    PROVE  /\ lastResults' \in Seq(Item)
           /\ rows' \in Seq([index : Nat \ {0}, item : Item])
           /\ marked' \in 0..Len(rows') /\ sentinel' \in BOOLEAN /\ crossed' \in BOOLEAN
           /\ currentQuery' \in Query \union {None}
           /\ currentPage' \in Nat \ {0} /\ currentTotal' \in Nat
           /\ selectedIndex' \in Nat
<1>1. RenderRecommendations(data)
  BY DEF RenderEmpty
<1>2. /\ lastResults' \in Seq(Item)
      /\ rows' \in Seq([index : Nat \ {0}, item : Item])
      /\ marked' \in 0..Len(rows') /\ sentinel' \in BOOLEAN /\ crossed' \in BOOLEAN
  BY <1>1, RenderingTypes
<1>3. /\ currentQuery' \in Query \union {None}
      /\ currentPage' \in Nat \ {0} /\ currentTotal' \in Nat
      /\ selectedIndex' \in Nat
  BY DEF RenderEmpty
<1> QED BY <1>2, <1>3

LEMMA SearchingTypes ==
    ASSUME TypeOK, NEW q \in Query, NEW others \in Seq(Request), DoSearch(q, others)
    PROVE  /\ lastResults' \in Seq(Item)
           /\ rows' \in Seq([index : Nat \ {0}, item : Item])
           /\ marked' \in 0..Len(rows') /\ sentinel' \in BOOLEAN /\ crossed' \in BOOLEAN
           /\ currentQuery' \in Query \union {None}
           /\ currentPage' \in Nat \ {0} /\ currentTotal' \in Nat
           /\ selectedIndex' \in Nat
           /\ spinner' \in BOOLEAN
           /\ inFlight' \in Seq(Request)
<1>1. [kind |-> "search", query |-> q, page |-> 1] \in Request
  BY DEF Request
<1>2. inFlight' \in Seq(Request)
  BY <1>1, AppendProperties DEF DoSearch
<1>3. rows' = <<>> /\ rows' \in Seq([index : Nat \ {0}, item : Item]) /\ marked' = 0
  BY EmptySeq DEF DoSearch
<1>4. marked' \in 0..Len(rows')
  BY <1>3
<1>5. sentinel' \in BOOLEAN /\ crossed' \in BOOLEAN /\ spinner' \in BOOLEAN
  BY DEF DoSearch, TypeOK
<1> QED
  BY <1>2, <1>3, <1>4, <1>5 DEF DoSearch, TypeOK

LEMMA EventTypes == ASSUME TypeOK, Event PROVE events' \in 0..MaxEvents
BY FrontendAssumption DEF Event, TypeOK

LEMMA TypeInit == Init => TypeOK
<1> SUFFICES ASSUME Init PROVE TypeOK
  OBVIOUS
<1>1. inFlight \in Seq(Request)
  <2>1. Simple("resolve") \in Request BY SimpleIsARequest
  <2> QED BY <2>1 DEF Init
<1>2. /\ lastResults \in Seq(Item)
      /\ rows \in Seq([index : Nat \ {0}, item : Item])
      /\ marked \in 0..Len(rows)
  BY EmptySeq DEF Init
<1>3. events \in 0..MaxEvents
  BY FrontendAssumption DEF Init
<1>4. /\ searchInput \in Query \union {None} /\ debounceTimer \in Query \union {None}
      /\ currentQuery \in Query \union {None} /\ cached \in {None, "empty", Recs}
  BY DEF Init
<1>5. currentPage \in Nat \ {0} /\ currentTotal \in Nat /\ selectedIndex \in Nat
  BY DEF Init
<1>6. /\ sentinel \in BOOLEAN /\ isLoadingMore \in BOOLEAN /\ spinner \in BOOLEAN
      /\ overtaken \in BOOLEAN /\ crossed \in BOOLEAN /\ failed \in BOOLEAN
  BY DEF Init
<1> QED
  BY <1>1, <1>2, <1>3, <1>4, <1>5, <1>6 DEF TypeOK

LEMMA TypeStep == TypeOK /\ [Next]_vars => TypeOK'
<1> SUFFICES ASSUME TypeOK, [Next]_vars PROVE TypeOK'
  OBVIOUS
<1>1. ASSUME NEW q \in Query, Type(q) PROVE TypeOK'
  BY <1>1, EventTypes DEF Type, TypeOK, search, screen, history
<1>2. CASE Erase
  <2>1. RenderEmpty(cached) BY <1>2 DEF Erase
  <2> QED
    BY <1>2, <2>1, EmptyTypes, EventTypes DEF Erase, TypeOK
<1>3. CASE Clear
  <2>1. RenderEmpty(cached) BY <1>3 DEF Clear
  <2> QED
    BY <1>3, <2>1, EmptyTypes, EventTypes DEF Clear, TypeOK
<1>4. CASE TimerFires
  <2>1. DoSearch(debounceTimer, inFlight) /\ debounceTimer \in Query
    BY <1>4 DEF TimerFires, TypeOK
  <2>2. inFlight \in Seq(Request) BY DEF TypeOK
  <2> QED
    BY <1>4, <2>1, <2>2, SearchingTypes DEF TimerFires, TypeOK
<1>5. CASE LoadMore
  <2>1. [kind |-> "more", query |-> currentQuery, page |-> currentPage + 1] \in Request
    BY DEF Request, TypeOK
  <2>2. inFlight' \in Seq(Request)
    BY <1>5, <2>1, AppendProperties DEF LoadMore, TypeOK
  <2> QED
    BY <1>5, <2>2, EventTypes DEF LoadMore, TypeOK, search, screen, history
<1>6. ASSUME NEW down \in BOOLEAN, Arrow(down) PROVE TypeOK'
  <2>1. Len(rows) \in Nat /\ selectedIndex \in Nat
    BY DEF TypeOK
  <2>2. selectedIndex' \in Nat
    <3>1. CASE down
      <4>1. selectedIndex' = Min({selectedIndex + 1, Len(rows)})
        BY <1>6, <3>1 DEF Arrow
      <4> QED BY <2>1, <4>1, TwoMinMax
    <3>2. CASE ~down
      <4>1. selectedIndex' = Max({selectedIndex - 1, 1})
        BY <1>6, <3>2 DEF Arrow
      <4>2. selectedIndex - 1 \in Int /\ 1 \in Int
        BY <2>1
      <4>3. selectedIndex' = IF selectedIndex - 1 <= 1 THEN 1 ELSE selectedIndex - 1
        BY <4>1, <4>2, TwoMinMax
      <4> QED BY <2>1, <4>3
    <3> QED BY <3>1, <3>2
  <2>3. marked' \in 0..Len(rows)
    BY <1>6, <2>2, MarkedAtFacts DEF Arrow
  <2> QED
    BY <1>6, <2>2, <2>3, EventTypes DEF Arrow, TypeOK, NoSelection, history
<1>7. ASSUME NEW i, SelectResult(i) PROVE TypeOK'
  <2>1. selectedIndex' \in Nat
    BY <1>7 DEF SelectResult, TypeOK
  <2>2. marked' \in 0..Len(rows)
    BY <1>7, <2>1, MarkedAtFacts DEF SelectResult
  <2> QED
    BY <1>7, <2>1, <2>2, EventTypes DEF SelectResult, TypeOK, NoSelection, history
<1>8. ASSUME NEW kind \in {"toggle", "reset"}, Ask(kind) PROVE TypeOK'
  <2>1. inFlight' \in Seq(Request)
    BY <1>8, SimpleIsARequest, AppendProperties DEF Ask, TypeOK
  <2> QED
    BY <1>8, <2>1, EventTypes DEF Ask, TypeOK, search, screen, history
<1>9. ASSUME NEW i \in DOMAIN inFlight, Answered(i) PROVE TypeOK'
  <2> DEFINE rest == Others(i)
  <2>1. rest \in Seq(Request)
    BY OthersFacts
  <2> HIDE DEF rest
  <2>2. ASSUME NEW kind, Answer(i, kind) PROVE overtaken' \in BOOLEAN
    BY <2>2 DEF Answer, Received, TypeOK
  <2>3. CASE Resolved(i)
    <3>1. inFlight' \in Seq(Request)
      BY <2>1, <2>3, SimpleIsARequest, AppendProperties DEF Resolved, rest
    <3> QED
      BY <2>2, <2>3, <3>1 DEF Resolved, TypeOK, search, screen
  <2>4. ASSUME NEW data, RecsAnswered(i, data) PROVE TypeOK'
    <3>1. CASE searchInput = None
      <4>1. RenderRecommendations(data)
        BY <2>4, <3>1 DEF RecsAnswered
      <4>2. selectedIndex' \in Nat
        BY <2>4, <3>1 DEF RecsAnswered, TypeOK
      <4> QED
        BY <2>1, <2>2, <2>4, <4>1, <4>2, RenderingTypes
        DEF RecsAnswered, TypeOK, Uncached, rest
    <3>2. CASE searchInput # None
      BY <2>1, <2>2, <2>4, <3>2 DEF RecsAnswered, TypeOK, Uncached, screen, rest
    <3> QED BY <3>1, <3>2
  <2>5. ASSUME NEW data \in {None, "empty", Recs}, Reloaded(i, data) PROVE TypeOK'
    <3>1. failed' \in BOOLEAN
      BY <2>5 DEF Reloaded, TypeOK
    <3>2. CASE searchInput = None
      BY <2>1, <2>2, <2>5, <3>1, <3>2, EmptyTypes DEF Reloaded, TypeOK, Uncached, rest
    <3>3. CASE searchInput # None
      BY <2>1, <2>2, <2>5, <3>1, <3>3
      DEF Reloaded, TypeOK, Uncached, search, screen, rest
    <3> QED BY <3>2, <3>3
  <2>6. CASE RecsFailed(i)
    BY <2>1, <2>2, <2>6 DEF RecsFailed, TypeOK, Uncached, search, screen, rest
  <2>7. ASSUME NEW refused \in BOOLEAN, SearchAnswered(i, refused) PROVE TypeOK'
    <3>1. inFlight[i] \in Request /\ inFlight[i].kind = "search"
      BY <2>7 DEF SearchAnswered, Answer, TypeOK
    <3>2. inFlight[i].query \in Query
      BY <3>1 DEF Request
    <3>3. Page(inFlight[i].query, 1) \in Seq(Item) /\ Total[inFlight[i].query] \in Nat
      BY <3>2, PageFacts, FrontendAssumption
    <3>4. lastResults' \in Seq(Item) /\ currentTotal' \in Nat
      BY <2>7, <3>3, EmptySeq DEF SearchAnswered
    <3>5. rows' \in Seq([index : Nat \ {0}, item : Item])
      BY <2>7, <3>4, RowsOfFacts DEF SearchAnswered
    <3>6. marked' \in 0..Len(rows') /\ selectedIndex' \in Nat
      BY <2>7, <3>5 DEF SearchAnswered, Unselected
    <3>7. sentinel' \in BOOLEAN /\ failed' \in BOOLEAN /\ crossed' \in BOOLEAN
      BY <2>7 DEF SearchAnswered, TypeOK
    <3> QED
      BY <2>1, <2>2, <2>7, <3>4, <3>5, <3>6, <3>7 DEF SearchAnswered, TypeOK, rest
  <2>8. CASE SearchFailed(i)
    <3>1. /\ rows' \in Seq([index : Nat \ {0}, item : Item])
          /\ marked' \in 0..Len(rows')
      BY <2>8, EmptySeq DEF SearchFailed
    <3> QED
      BY <2>1, <2>2, <2>8, <3>1 DEF SearchFailed, TypeOK, search, rest
  <2>9. CASE MoreAnswered(i)
    <3> DEFINE items == Page(inFlight[i].query, inFlight[i].page)
    <3>1. inFlight[i] \in Request /\ inFlight[i].kind = "more"
      BY <2>9 DEF MoreAnswered, Answer, TypeOK
    <3>2. inFlight[i].query \in Query \union {None} /\ inFlight[i].page \in Nat \ {0}
      BY <3>1 DEF Request
    <3>3. items \in Seq(Item)
      BY <3>2, PageFacts
    <3> HIDE DEF items
    <3>4. CASE items # <<>>
      <4>1. lastResults' = lastResults \o items /\ lastResults' \in Seq(Item)
        BY <2>9, <3>3, <3>4, ConcatProperties DEF MoreAnswered, Show, TypeOK, items
      <4>2. Len(lastResults) \in Nat
        BY DEF TypeOK
      <4>3. RowsOf(items, Len(lastResults)) \in Seq([index : Nat \ {0}, item : Item])
        BY <3>3, <4>2, RowsOfFacts
      <4>4. rows \in Seq([index : Nat \ {0}, item : Item])
        BY DEF TypeOK
      <4>5. rows' = rows \o RowsOf(items, Len(lastResults))
        BY <2>9, <3>4 DEF MoreAnswered, Show, items
      <4>6. rows' \in Seq([index : Nat \ {0}, item : Item]) /\ Len(rows') >= Len(rows)
        BY <4>3, <4>4, <4>5, ConcatProperties
      <4>7. marked' \in 0..Len(rows')
        BY <2>9, <3>4, <4>4, <4>6 DEF MoreAnswered, Show, TypeOK, items
      <4>8. sentinel' \in BOOLEAN
        BY <2>9, <3>4 DEF MoreAnswered, Show, items
      <4>9. currentPage' \in Nat \ {0} /\ selectedIndex' \in Nat
        BY <2>9, <3>2, <3>4 DEF MoreAnswered, Show, TypeOK, items
      <4> QED
        BY <2>1, <2>2, <2>9, <4>1, <4>6, <4>7, <4>8, <4>9
        DEF MoreAnswered, TypeOK, rest
    <3>5. CASE items = <<>>
      BY <2>1, <2>2, <2>9, <3>5 DEF MoreAnswered, TypeOK, screen, items, rest
    <3> QED BY <3>4, <3>5
  <2>10. CASE MoreFailed(i)
    BY <2>1, <2>2, <2>10 DEF MoreFailed, TypeOK, search, screen, rest
  <2>11. CASE Toggled(i)
    <3>1. CASE searchInput # None
      <4>1. searchInput \in Query /\ DoSearch(searchInput, Others(i))
        BY <2>11, <3>1 DEF Toggled, TypeOK
      <4> QED
        BY <2>1, <2>2, <2>11, <4>1, SearchingTypes DEF Toggled, TypeOK, rest
    <3>2. CASE searchInput = None
      BY <2>1, <2>2, <2>11, <3>2 DEF Toggled, TypeOK, search, screen, rest
    <3> QED BY <3>1, <3>2
  <2>12. CASE Reset(i)
    <3>1. Append(rest, Simple("reload")) \in Seq(Request)
      BY <2>1, SimpleIsARequest, AppendProperties
    <3>2. inFlight' \in Seq(Request)
      BY <2>1, <2>12, <3>1 DEF Reset, rest
    <3>3. failed' \in BOOLEAN
      BY <2>12 DEF Reset, TypeOK
    <3> QED
      BY <2>2, <2>12, <3>2, <3>3 DEF Reset, TypeOK, Uncached, search, screen
  <2> QED
    BY <1>9, <2>3, <2>4, <2>5, <2>6, <2>7, <2>8, <2>9, <2>10, <2>11, <2>12 DEF Answered
<1>10. CASE UNCHANGED vars
  BY <1>10 DEF vars, search, screen, history, TypeOK
<1> QED
  BY <1>1, <1>2, <1>3, <1>4, <1>5, <1>6, <1>7, <1>8, <1>9, <1>10
  DEF Next, Progress, Click, Enter

\* The state of the page keeps its types, whatever the user does and in whatever order
\* the answers arrive.
THEOREM TypeCorrect == Spec => []TypeOK
<1> QED BY TypeInit, TypeStep, PTL DEF Spec

-----------------------------------------------------------------------------
(* The requests in flight. *)

\* Some request of s is of that kind.
Has(s, kind) == \E i \in DOMAIN s : s[i].kind = kind

LEMMA SentIsHas == \A kind : (Sent(kind) <=> Has(inFlight, kind))
                             /\ (Sent(kind)' <=> Has(inFlight', kind))
BY DEF Sent, Has

LEMMA HasAppend ==
    ASSUME NEW s \in Seq(Request), NEW r \in Request, NEW kind
    PROVE  Has(Append(s, r), kind) <=> Has(s, kind) \/ r.kind = kind
<1>1. /\ Len(Append(s, r)) = Len(s) + 1
      /\ \A j \in 1..Len(s) : Append(s, r)[j] = s[j]
      /\ Append(s, r)[Len(s) + 1] = r
      /\ DOMAIN Append(s, r) = 1..(Len(s) + 1)
      /\ DOMAIN s = 1..Len(s) /\ Len(s) \in Nat
  BY AppendProperties
<1>2. Has(s, kind) => Has(Append(s, r), kind)
  BY <1>1 DEF Has
<1>3. r.kind = kind => Has(Append(s, r), kind)
  <2>1. Len(s) + 1 \in 1..(Len(s) + 1)
    BY <1>1
  <2> QED BY <1>1, <2>1 DEF Has
<1>4. ASSUME Has(Append(s, r), kind), r.kind # kind PROVE Has(s, kind)
  <2>1. PICK j \in 1..(Len(s) + 1) : Append(s, r)[j].kind = kind
    BY <1>1, <1>4 DEF Has
  <2>2. j \in 1..Len(s)
    BY <1>1, <1>4, <2>1
  <2> QED BY <1>1, <2>1, <2>2 DEF Has
<1> QED BY <1>2, <1>3, <1>4

LEMMA HasOthers ==
    ASSUME TypeOK, NEW i \in DOMAIN inFlight, NEW kind
    PROVE  /\ Has(Others(i), kind) => Has(inFlight, kind)
           /\ inFlight[i].kind # kind /\ Has(inFlight, kind) => Has(Others(i), kind)
<1>1. /\ Len(inFlight) \in Nat /\ i \in 1..Len(inFlight)
      /\ DOMAIN inFlight = 1..Len(inFlight)
      /\ DOMAIN Others(i) = 1..(Len(inFlight) - 1)
      /\ \A j \in 1..(Len(inFlight) - 1) :
            Others(i)[j] = inFlight[IF j < i THEN j ELSE j + 1]
  BY OthersFacts
<1>2. ASSUME Has(Others(i), kind) PROVE Has(inFlight, kind)
  <2>1. PICK j \in 1..(Len(inFlight) - 1) : Others(i)[j].kind = kind
    BY <1>1, <1>2 DEF Has
  <2>2. PICK k \in 1..Len(inFlight) : k = IF j < i THEN j ELSE j + 1
    BY <1>1
  <2> QED BY <1>1, <2>1, <2>2 DEF Has
<1>3. ASSUME inFlight[i].kind # kind, Has(inFlight, kind) PROVE Has(Others(i), kind)
  <2>1. PICK k \in 1..Len(inFlight) : inFlight[k].kind = kind
    BY <1>1, <1>3 DEF Has
  <2>2. k # i
    BY <1>3, <2>1
  <2>3. CASE k < i
    <3>1. k \in 1..(Len(inFlight) - 1) /\ Others(i)[k] = inFlight[k]
      BY <1>1, <2>3
    <3> QED BY <1>1, <2>1, <3>1 DEF Has
  <2>4. CASE k > i
    <3>1. k - 1 \in 1..(Len(inFlight) - 1) /\ ~(k - 1 < i) /\ (k - 1) + 1 = k
      BY <1>1, <2>4
    <3>2. Others(i)[k - 1] = inFlight[k]
      BY <1>1, <3>1
    <3> QED BY <1>1, <2>1, <3>1, <3>2 DEF Has
  <2> QED BY <1>1, <2>2, <2>3, <2>4
<1> QED BY <1>2, <1>3

LEMMA OneAppend ==
    ASSUME NEW s \in Seq(Request), NEW r \in Request, OneMoreIn(s),
           r.kind = "more" => ~Has(s, "more")
    PROVE  OneMoreIn(Append(s, r))
<1>1. /\ \A j \in 1..Len(s) : Append(s, r)[j] = s[j]
      /\ Append(s, r)[Len(s) + 1] = r
      /\ DOMAIN Append(s, r) = 1..(Len(s) + 1)
      /\ DOMAIN s = 1..Len(s) /\ Len(s) \in Nat
  BY AppendProperties
<1> QED BY <1>1 DEF OneMoreIn, Has

LEMMA OneOthers ==
    ASSUME TypeOK, NEW i \in DOMAIN inFlight, OneMoreIn(inFlight)
    PROVE  /\ OneMoreIn(Others(i))
           /\ inFlight[i].kind = "more" => ~Has(Others(i), "more")
<1>1. /\ Len(inFlight) \in Nat /\ i \in 1..Len(inFlight)
      /\ DOMAIN inFlight = 1..Len(inFlight)
      /\ DOMAIN Others(i) = 1..(Len(inFlight) - 1)
      /\ \A j \in 1..(Len(inFlight) - 1) :
            Others(i)[j] = inFlight[IF j < i THEN j ELSE j + 1]
  BY OthersFacts
<1>2. ASSUME NEW j \in 1..(Len(inFlight) - 1)
      PROVE  \E k \in 1..Len(inFlight) :
                /\ k = IF j < i THEN j ELSE j + 1
                /\ k # i /\ Others(i)[j] = inFlight[k]
  BY <1>1
<1>3. ASSUME NEW j \in 1..(Len(inFlight) - 1), NEW k \in 1..(Len(inFlight) - 1),
             Others(i)[j].kind = "more", Others(i)[k].kind = "more"
      PROVE  j = k
  <2>1. PICK a \in 1..Len(inFlight) :
            a = (IF j < i THEN j ELSE j + 1) /\ Others(i)[j] = inFlight[a]
    BY <1>2
  <2>2. PICK b \in 1..Len(inFlight) :
            b = (IF k < i THEN k ELSE k + 1) /\ Others(i)[k] = inFlight[b]
    BY <1>2
  <2>3. a = b
    BY <1>1, <1>3, <2>1, <2>2 DEF OneMoreIn
  <2> QED BY <1>1, <2>1, <2>2, <2>3
<1>4. ASSUME inFlight[i].kind = "more", NEW j \in 1..(Len(inFlight) - 1)
      PROVE  Others(i)[j].kind # "more"
  BY <1>1, <1>2, <1>4 DEF OneMoreIn
<1> QED BY <1>1, <1>3, <1>4 DEF OneMoreIn, Has

-----------------------------------------------------------------------------
(* The spinner. *)

\* Requests that keep a search in flight.
LEMMA SearchStaysSent ==
    ASSUME TypeOK, Sent("search")
    PROVE  /\ \A r \in Request : inFlight' = Append(inFlight, r) => Sent("search")'
           /\ \A i \in DOMAIN inFlight : inFlight[i].kind # "search" =>
                /\ inFlight' = Others(i) => Sent("search")'
                /\ \A r \in Request : inFlight' = Append(Others(i), r) => Sent("search")'
<1>1. inFlight \in Seq(Request) /\ Has(inFlight, "search")
  BY SentIsHas DEF TypeOK
<1>2. ASSUME NEW r \in Request, inFlight' = Append(inFlight, r) PROVE Sent("search")'
  <2>1. Has(Append(inFlight, r), "search")
    BY <1>1, HasAppend
  <2> QED BY <1>2, <2>1, SentIsHas
<1>3. ASSUME NEW i \in DOMAIN inFlight, inFlight[i].kind # "search"
      PROVE  Has(Others(i), "search") /\ Others(i) \in Seq(Request)
  BY <1>1, <1>3, HasOthers, OthersFacts
<1>4. ASSUME NEW i \in DOMAIN inFlight, inFlight[i].kind # "search",
             inFlight' = Others(i)
      PROVE  Sent("search")'
  BY <1>3, <1>4, SentIsHas
<1>5. ASSUME NEW i \in DOMAIN inFlight, inFlight[i].kind # "search",
             NEW r \in Request, inFlight' = Append(Others(i), r)
      PROVE  Sent("search")'
  <2>1. Has(Append(Others(i), r), "search")
    BY <1>3, <1>5, HasAppend
  <2> QED BY <1>5, <2>1, SentIsHas
<1> QED BY <1>2, <1>4, <1>5

LEMMA SearchIsSent ==
    ASSUME TypeOK, NEW q \in Query, NEW others \in Seq(Request), DoSearch(q, others)
    PROVE  Sent("search")'
<1>1. [kind |-> "search", query |-> q, page |-> 1] \in Request
  BY DEF Request
<1>2. Has(inFlight', "search")
  BY <1>1, HasAppend DEF DoSearch
<1> QED BY <1>2, SentIsHas

LEMMA SpinnerStep == TypeOK /\ SpinnerMeansWork /\ [Next]_vars => SpinnerMeansWork'
<1> SUFFICES ASSUME TypeOK, SpinnerMeansWork, [Next]_vars PROVE SpinnerMeansWork'
  OBVIOUS
<1>1. inFlight \in Seq(Request) /\ None \notin Query
  BY FrontendAssumption DEF TypeOK
\* What is left to show when the spinner, the timer and the box are as they were.
<1>2. ASSUME spinner' = spinner, debounceTimer' = debounceTimer, searchInput' = searchInput,
             Sent("search") => Sent("search")'
      PROVE  SpinnerMeansWork'
  BY <1>2 DEF SpinnerMeansWork
<1>3. ASSUME inFlight' = inFlight PROVE Sent("search") => Sent("search")'
  BY <1>3 DEF Sent
<1>4. ASSUME NEW q \in Query, Type(q) PROVE SpinnerMeansWork'
  BY <1>1, <1>4 DEF Type, SpinnerMeansWork
<1>5. CASE Erase
  BY <1>5 DEF Erase, SpinnerMeansWork
<1>6. CASE Clear
  BY <1>6 DEF Clear, SpinnerMeansWork
<1>7. CASE TimerFires
  <2>1. DoSearch(debounceTimer, inFlight) /\ debounceTimer \in Query
    BY <1>7 DEF TimerFires, TypeOK
  <2> QED BY <1>1, <2>1, SearchIsSent DEF SpinnerMeansWork
<1>8. CASE LoadMore
  <2>1. [kind |-> "more", query |-> currentQuery, page |-> currentPage + 1] \in Request
    BY DEF Request, TypeOK
  <2>2. Sent("search") => Sent("search")'
    BY <1>8, <2>1, SearchStaysSent DEF LoadMore
  <2> QED BY <1>2, <1>8, <2>2 DEF LoadMore
<1>9. ASSUME NEW down \in BOOLEAN, Arrow(down) PROVE SpinnerMeansWork'
  BY <1>2, <1>3, <1>9 DEF Arrow, NoSelection
<1>10. ASSUME NEW i, SelectResult(i) PROVE SpinnerMeansWork'
  BY <1>2, <1>3, <1>10 DEF SelectResult, NoSelection
<1>11. ASSUME NEW kind \in {"toggle", "reset"}, Ask(kind) PROVE SpinnerMeansWork'
  <2>1. Sent("search") => Sent("search")'
    BY <1>11, SimpleIsARequest, SearchStaysSent DEF Ask
  <2> QED BY <1>2, <1>11, <2>1 DEF Ask
<1>12. ASSUME NEW i \in DOMAIN inFlight, Answered(i) PROVE SpinnerMeansWork'
  <2>1. ASSUME NEW kind, Answer(i, kind), kind # "search", NEW r \in Request,
               inFlight' = Others(i) \/ inFlight' = Append(Others(i), r)
        PROVE  Sent("search") => Sent("search")'
    BY <2>1, SearchStaysSent DEF Answer
  <2>2. Simple("recs") \in Request /\ Simple("reload") \in Request
    BY SimpleIsARequest
  <2>3. CASE Resolved(i)
    BY <1>2, <2>1, <2>2, <2>3 DEF Resolved
  <2>4. ASSUME NEW data, RecsAnswered(i, data) PROVE SpinnerMeansWork'
    BY <1>2, <2>1, <2>2, <2>4 DEF RecsAnswered, Uncached
  <2>5. ASSUME NEW data \in {None, "empty", Recs}, Reloaded(i, data)
        PROVE  SpinnerMeansWork'
    BY <1>2, <2>1, <2>2, <2>5 DEF Reloaded, Uncached
  <2>6. CASE RecsFailed(i)
    BY <1>2, <2>1, <2>2, <2>6 DEF RecsFailed, Uncached
  <2>7. ASSUME NEW refused \in BOOLEAN, SearchAnswered(i, refused)
        PROVE  SpinnerMeansWork'
    BY <2>7 DEF SearchAnswered, SpinnerMeansWork
  <2>8. CASE SearchFailed(i)
    BY <2>8 DEF SearchFailed, SpinnerMeansWork
  <2>9. CASE MoreAnswered(i)
    BY <1>2, <2>1, <2>2, <2>9 DEF MoreAnswered
  <2>10. CASE MoreFailed(i)
    BY <1>2, <2>1, <2>2, <2>10 DEF MoreFailed
  <2>11. CASE Toggled(i)
    <3>1. CASE searchInput # None
      <4>1. /\ searchInput \in Query /\ DoSearch(searchInput, Others(i))
            /\ Others(i) \in Seq(Request)
        BY <2>11, <3>1, OthersFacts DEF Toggled, TypeOK
      <4> QED BY <4>1, SearchIsSent DEF SpinnerMeansWork
    <3>2. CASE searchInput = None
      BY <2>11, <3>2 DEF Toggled, SpinnerMeansWork
    <3> QED BY <3>1, <3>2
  <2>12. CASE Reset(i)
    BY <1>2, <2>1, <2>2, <2>12 DEF Reset, Uncached
  <2> QED
    BY <1>12, <2>3, <2>4, <2>5, <2>6, <2>7, <2>8, <2>9, <2>10, <2>11, <2>12 DEF Answered
<1>13. CASE UNCHANGED vars
  BY <1>2, <1>3, <1>13 DEF vars
<1> QED
  BY <1>4, <1>5, <1>6, <1>7, <1>8, <1>9, <1>10, <1>11, <1>12, <1>13
  DEF Next, Progress, Click, Enter

\* The spinner turns only while a timer or a search is out, or over an empty box.
THEOREM SpinnerStops == Spec => []SpinnerMeansWork
<1>1. Init => SpinnerMeansWork
  BY DEF Init, SpinnerMeansWork
<1>2. Spec => []TypeOK
  BY TypeCorrect
<1> QED BY <1>1, <1>2, SpinnerStep, PTL DEF Spec

-----------------------------------------------------------------------------
(* The selection. *)

LEMMA RenderingSelects ==
    ASSUME TypeOK, NEW data, RenderRecommendations(data)
    PROVE  RowsShow' /\ Aligned' /\ (rows' # <<>> => data = Recs)
<1>1. lastResults' \in Seq(Item) /\ rows' = RowsOf(lastResults', 0)
  BY RecsIsAnItem, EmptySeq DEF RenderRecommendations
<1>2. /\ rows' \in Seq([index : Nat \ {0}, item : Item])
      /\ Len(rows') = Len(lastResults')
      /\ \A i \in 1..Len(lastResults') :
            rows'[i] = [index |-> 0 + i, item |-> lastResults'[i]]
  BY <1>1, RowsOfFacts
<1>3. Len(rows') \in Nat /\ DOMAIN rows' = 1..Len(rows')
      /\ DOMAIN lastResults' = 1..Len(lastResults')
  BY <1>1, <1>2
<1>4. ASSUME NEW i \in 1..Len(rows')
      PROVE  rows'[i].index = i /\ rows'[i].item = lastResults'[i]
  BY <1>2, <1>3
<1>5. RowsShow'
  BY <1>2, <1>3, <1>4 DEF RowsShow
<1>6. Aligned'
  BY <1>2, <1>3, <1>4 DEF Aligned
<1>7. data # Recs => rows' = <<>>
  <2>1. data # Recs => lastResults' = <<>>
    BY DEF RenderRecommendations
  <2>2. data # Recs => Len(rows') = 0
    BY <1>2, <2>1
  <2> QED BY <1>2, <2>2, EmptySeq
<1> QED BY <1>5, <1>6, <1>7

\* What is rendered keeps the list aligned and nothing selected.
LEMMA RenderingKeeps ==
    ASSUME TypeOK, NEW data, RenderRecommendations(data), UNCHANGED isLoadingMore,
           data = Recs => selectedIndex' = 0
    PROVE  RowsShow' /\ RowsAligned' /\ MarkIsSelection'
<1>1. RowsShow' /\ Aligned' /\ (rows' # <<>> => data = Recs)
  BY RenderingSelects
<1>2. ~sentinel' /\ (~crossed' => ~isLoadingMore')
  BY DEF RenderRecommendations
<1>3. RowsAligned'
  BY <1>1 DEF RowsAligned
<1>4. data = Recs => ~(selectedIndex' > 0)
  OBVIOUS
<1>5. MarkIsSelection'
  BY <1>1, <1>2, <1>4 DEF MarkIsSelection
<1> QED BY <1>1, <1>3, <1>5

LEMMA EmptyKeeps ==
    ASSUME TypeOK, NEW data, RenderEmpty(data), UNCHANGED isLoadingMore
    PROVE  RowsShow' /\ RowsAligned' /\ MarkIsSelection'
<1>1. RenderRecommendations(data) /\ selectedIndex' = 0
  BY DEF RenderEmpty
<1> QED BY <1>1, RenderingKeeps

\* A page without rows has nothing to select, and a loadMore that is out is crossed.
LEMMA NoRowsKeep ==
    ASSUME rows' = <<>>, sentinel' = FALSE, crossed' = (crossed \/ isLoadingMore),
           UNCHANGED isLoadingMore
    PROVE  RowsShow' /\ RowsAligned' /\ MarkIsSelection'
<1>1. DOMAIN rows' = {}
  OBVIOUS
<1> QED BY <1>1 DEF RowsShow, RowsAligned, MarkIsSelection

\* Selecting a place, or moving over the rows, keeps the mark with the selection.
LEMMA SelectingKeeps ==
    ASSUME TypeOK, RowsShow, RowsAligned, NEW k \in Nat \ {0}, rows # <<>>,
           ~crossed => k \in DOMAIN lastResults \union DOMAIN rows,
           selectedIndex' = k, marked' = MarkedAt(k),
           UNCHANGED <<lastResults, rows, sentinel, isLoadingMore, crossed>>
    PROVE  RowsShow' /\ RowsAligned' /\ MarkIsSelection'
<1>1. RowsShow' /\ RowsAligned'
  BY DEF RowsShow, RowsAligned, Aligned
<1>2. ASSUME ~crossed PROVE marked' = k /\ k \in DOMAIN rows
  <2>1. Len(rows) = Len(lastResults) /\ Len(rows) \in Nat
        /\ DOMAIN rows = 1..Len(rows) /\ DOMAIN lastResults = 1..Len(lastResults)
    BY <1>2 DEF RowsAligned, Aligned, TypeOK
  <2>2. k \in DOMAIN rows
    BY <1>2, <2>1
  <2> QED BY <2>1, <2>2 DEF MarkedAt
<1>3. MarkIsSelection'
  BY <1>2 DEF MarkIsSelection
<1> QED BY <1>1, <1>3

\* A page of more results continues a list that is aligned.
LEMMA ShowKeeps ==
    ASSUME TypeOK, RowsShow, RowsAligned, MarkIsSelection, isLoadingMore,
           NEW items \in Seq(Item), items # <<>>, Show(items),
           isLoadingMore' = FALSE, UNCHANGED crossed
    PROVE  RowsShow' /\ RowsAligned' /\ MarkIsSelection'
<1> DEFINE n == Len(lastResults)
           new == RowsOf(items, n)
<1>1. /\ lastResults \in Seq(Item) /\ n \in Nat
      /\ rows \in Seq([index : Nat \ {0}, item : Item]) /\ Len(rows) \in Nat
      /\ DOMAIN rows = 1..Len(rows) /\ DOMAIN lastResults = 1..n
      /\ Len(items) \in Nat
  BY DEF TypeOK
<1>2. /\ new \in Seq([index : Nat \ {0}, item : Item])
      /\ Len(new) = Len(items)
      /\ \A i \in 1..Len(items) : new[i] = [index |-> n + i, item |-> items[i]]
  BY <1>1, RowsOfFacts
<1>3. lastResults' = lastResults \o items /\ rows' = rows \o new
      /\ marked' = marked /\ selectedIndex' = selectedIndex
  BY DEF Show
<1> HIDE DEF n, new
<1>4. /\ lastResults' \in Seq(Item)
      /\ Len(lastResults') = n + Len(items)
      /\ \A i \in 1..(n + Len(items)) :
            lastResults'[i] = IF i <= n THEN lastResults[i] ELSE items[i - n]
  <2>1. /\ lastResults \o items \in Seq(Item)
        /\ Len(lastResults \o items) = Len(lastResults) + Len(items)
        /\ \A i \in 1..(Len(lastResults) + Len(items)) :
              (lastResults \o items)[i]
                = IF i <= Len(lastResults) THEN lastResults[i]
                                           ELSE items[i - Len(lastResults)]
    BY <1>1, ConcatProperties
  <2> QED BY <1>3, <2>1 DEF n
<1>5. /\ rows' \in Seq([index : Nat \ {0}, item : Item])
      /\ Len(rows') = Len(rows) + Len(items)
      /\ \A i \in 1..(Len(rows) + Len(items)) :
            rows'[i] = IF i <= Len(rows) THEN rows[i] ELSE new[i - Len(rows)]
  <2> DEFINE Row == [index : Nat \ {0}, item : Item]
  <2>1. rows \in Seq(Row) /\ new \in Seq(Row)
    BY <1>1, <1>2
  <2> HIDE DEF Row
  <2>2. /\ rows \o new \in Seq(Row)
        /\ Len(rows \o new) = Len(rows) + Len(new)
        /\ \A i \in 1..(Len(rows) + Len(new)) :
              (rows \o new)[i] = IF i <= Len(rows) THEN rows[i] ELSE new[i - Len(rows)]
    BY <2>1, ConcatProperties
  <2>3. Len(new) = Len(items) /\ rows' = rows \o new
    BY <1>2, <1>3
  <2> QED BY <2>2, <2>3 DEF Row
<1>6. /\ DOMAIN rows' = 1..(Len(rows) + Len(items))
      /\ DOMAIN lastResults' = 1..(n + Len(items))
  BY <1>1, <1>4, <1>5
<1>7. ASSUME NEW i \in DOMAIN rows'
      PROVE  /\ rows'[i].index \in DOMAIN lastResults'
             /\ lastResults'[rows'[i].index] = rows'[i].item
             /\ Aligned => rows'[i].index = i
  <2>1. CASE i <= Len(rows)
    <3>1. i \in DOMAIN rows /\ rows'[i] = rows[i]
      BY <1>1, <1>5, <1>6, <2>1
    <3>2. rows[i].index \in 1..n /\ lastResults[rows[i].index] = rows[i].item
      BY <1>1, <3>1 DEF RowsShow
    <3>3. rows[i].index \in 1..(n + Len(items)) /\ rows[i].index <= n
      BY <1>1, <3>2
    <3>4. lastResults'[rows[i].index] = lastResults[rows[i].index]
      BY <1>4, <3>3
    <3>5. Aligned => rows[i].index = i
      BY <3>1 DEF Aligned
    <3> QED BY <1>6, <3>1, <3>2, <3>3, <3>4, <3>5
  <2>2. CASE ~(i <= Len(rows))
    <3> DEFINE k == i - Len(rows)
    <3>1. k \in 1..Len(items) /\ i \in 1..(Len(rows) + Len(items))
      BY <1>1, <1>6, <2>2
    <3>2. rows'[i] = new[k]
      BY <1>5, <2>2, <3>1
    <3>3. new[k].index = n + k /\ new[k].item = items[k]
      <4>1. new[k] = [index |-> n + k, item |-> items[k]]
        BY <1>2, <3>1
      <4> QED BY <4>1
    <3>4. n + k \in 1..(n + Len(items)) /\ ~(n + k <= n) /\ (n + k) - n = k
      BY <1>1, <3>1
    <3>5. lastResults'[n + k] = items[k]
      BY <1>4, <3>4
    <3>6. Aligned => Len(rows) = n
      BY DEF Aligned, n
    <3>7. Aligned => n + k = i
      BY <1>1, <3>1, <3>6
    <3> QED BY <1>6, <3>2, <3>3, <3>4, <3>5, <3>7
  <2> QED BY <2>1, <2>2
<1>8. RowsShow'
  BY <1>7 DEF RowsShow
<1>9. RowsAligned'
  <2>1. ~crossed => Aligned
    BY DEF RowsAligned
  <2>2. Aligned => Len(rows') = Len(lastResults')
    BY <1>4, <1>5 DEF Aligned, n
  <2>3. Aligned => Aligned'
    BY <1>7, <2>2 DEF Aligned
  <2> QED BY <2>1, <2>3 DEF RowsAligned
<1>10. MarkIsSelection'
  <2>1. DOMAIN rows \subseteq DOMAIN rows'
    BY <1>1, <1>6
  <2> QED BY <1>3, <2>1 DEF MarkIsSelection
<1> QED BY <1>8, <1>9, <1>10

\* Requests other than loadMore leave the one that may be out.
LEMMA OneMoreStays ==
    ASSUME TypeOK, OneMore
    PROVE  /\ inFlight' = inFlight /\ UNCHANGED isLoadingMore => OneMore'
           /\ \A r \in Request :
                inFlight' = Append(inFlight, r) /\ r.kind # "more" /\ UNCHANGED isLoadingMore
                => OneMore'
           /\ \A i \in DOMAIN inFlight : inFlight' = Others(i) /\ UNCHANGED isLoadingMore
                => OneMore'
           /\ \A i \in DOMAIN inFlight, r \in Request :
                /\ inFlight' = Append(Others(i), r) /\ r.kind # "more"
                /\ UNCHANGED isLoadingMore
                => OneMore'
<1>1. inFlight \in Seq(Request) /\ OneMoreIn(inFlight)
      /\ (Has(inFlight, "more") => isLoadingMore)
  BY SentIsHas DEF TypeOK, OneMore
<1>2. ASSUME OneMoreIn(inFlight'), Has(inFlight', "more") => Has(inFlight, "more"),
             UNCHANGED isLoadingMore
      PROVE  OneMore'
  BY <1>1, <1>2, SentIsHas DEF OneMore, OneMoreIn
<1>3. ASSUME inFlight' = inFlight, UNCHANGED isLoadingMore PROVE OneMore'
  BY <1>1, <1>2, <1>3
<1>4. ASSUME NEW r \in Request, inFlight' = Append(inFlight, r), r.kind # "more",
             UNCHANGED isLoadingMore
      PROVE  OneMore'
  <2>1. /\ OneMoreIn(Append(inFlight, r))
        /\ Has(Append(inFlight, r), "more") => Has(inFlight, "more")
    BY <1>1, <1>4, OneAppend, HasAppend
  <2> QED BY <1>2, <1>4, <2>1
<1>5. ASSUME NEW i \in DOMAIN inFlight
      PROVE  /\ OneMoreIn(Others(i)) /\ Others(i) \in Seq(Request)
             /\ Has(Others(i), "more") => Has(inFlight, "more")
  BY <1>1, OneOthers, OthersFacts, HasOthers
<1>6. ASSUME NEW i \in DOMAIN inFlight, inFlight' = Others(i), UNCHANGED isLoadingMore
      PROVE  OneMore'
  BY <1>2, <1>5, <1>6
<1>7. ASSUME NEW i \in DOMAIN inFlight, NEW r \in Request,
             inFlight' = Append(Others(i), r), r.kind # "more", UNCHANGED isLoadingMore
      PROVE  OneMore'
  <2>1. /\ OneMoreIn(Append(Others(i), r))
        /\ Has(Append(Others(i), r), "more") => Has(Others(i), "more")
    BY <1>5, <1>7, OneAppend, HasAppend
  <2> QED BY <1>2, <1>5, <1>7, <2>1
<1> QED BY <1>3, <1>4, <1>6, <1>7

\* The answer to the loadMore leaves none.
LEMMA NoMoreLeft ==
    ASSUME TypeOK, OneMore, NEW i \in DOMAIN inFlight, inFlight[i].kind = "more",
           inFlight' = Others(i)
    PROVE  OneMore'
<1>1. OneMoreIn(Others(i)) /\ ~Has(Others(i), "more")
  BY OneOthers DEF OneMore
<1>2. OneMoreIn(inFlight') /\ ~Has(inFlight', "more")
  BY <1>1
<1> QED BY <1>2, SentIsHas DEF OneMore, OneMoreIn

LEMMA SimpleKinds ==
    \A kind \in {"resolve", "recs", "reload", "toggle", "reset"} :
        Simple(kind) \in Request /\ Simple(kind).kind # "more"
        /\ Simple(kind).kind # "search"
BY SimpleIsARequest DEF Simple

LEMMA OneMoreStep == TypeOK /\ OneMore /\ [Next]_vars => OneMore'
<1> SUFFICES ASSUME TypeOK, OneMore, [Next]_vars PROVE OneMore'
  OBVIOUS
<1>1. inFlight \in Seq(Request)
  BY DEF TypeOK
<1>2. ASSUME NEW q \in Query
      PROVE  /\ [kind |-> "search", query |-> q, page |-> 1] \in Request
             /\ [kind |-> "search", query |-> q, page |-> 1].kind # "more"
  BY DEF Request
<1>3. ASSUME inFlight' = inFlight, UNCHANGED isLoadingMore PROVE OneMore'
  BY <1>3, OneMoreStays
<1>4. ASSUME NEW q \in Query, Type(q) PROVE OneMore'
  BY <1>3, <1>4 DEF Type
<1>5. CASE Erase \/ Clear
  BY <1>3, <1>5 DEF Erase, Clear
<1>6. CASE TimerFires
  <2>1. DoSearch(debounceTimer, inFlight) /\ debounceTimer \in Query
    BY <1>6 DEF TimerFires, TypeOK
  <2> QED BY <1>2, <1>6, <2>1, OneMoreStays DEF TimerFires, DoSearch
<1>7. CASE LoadMore
  <2> DEFINE r == [kind |-> "more", query |-> currentQuery, page |-> currentPage + 1]
  <2>1. r \in Request /\ r.kind = "more"
    BY DEF Request, TypeOK
  <2>2. inFlight' = Append(inFlight, r) /\ isLoadingMore' = TRUE
    BY <1>7 DEF LoadMore
  <2> HIDE DEF r
  <2>3. ~Has(inFlight, "more")
    BY <1>7, SentIsHas DEF OneMore, LoadMore
  <2>4. OneMoreIn(inFlight')
    BY <1>1, <2>1, <2>2, <2>3, OneAppend DEF OneMore
  <2> QED BY <2>2, <2>4 DEF OneMore, OneMoreIn
<1>8. ASSUME NEW down \in BOOLEAN, Arrow(down) PROVE OneMore'
  BY <1>3, <1>8 DEF Arrow, NoSelection
<1>9. ASSUME NEW i, SelectResult(i) PROVE OneMore'
  BY <1>3, <1>9 DEF SelectResult, NoSelection
<1>10. ASSUME NEW kind \in {"toggle", "reset"}, Ask(kind) PROVE OneMore'
  BY <1>10, SimpleKinds, OneMoreStays DEF Ask
<1>11. ASSUME NEW i \in DOMAIN inFlight, Answered(i) PROVE OneMore'
  <2>1. ASSUME inFlight' = Others(i), UNCHANGED isLoadingMore PROVE OneMore'
    BY <2>1, OneMoreStays
  <2>2. CASE Resolved(i)
    BY <2>2, SimpleKinds, OneMoreStays DEF Resolved
  <2>3. ASSUME NEW data, RecsAnswered(i, data) PROVE OneMore'
    BY <2>1, <2>3 DEF RecsAnswered, Uncached
  <2>4. ASSUME NEW data, Reloaded(i, data) PROVE OneMore'
    BY <2>1, <2>4 DEF Reloaded, Uncached
  <2>5. CASE RecsFailed(i)
    BY <2>1, <2>5 DEF RecsFailed, Uncached
  <2>6. ASSUME NEW refused, SearchAnswered(i, refused) PROVE OneMore'
    BY <2>1, <2>6 DEF SearchAnswered
  <2>7. CASE SearchFailed(i)
    BY <2>1, <2>7 DEF SearchFailed
  <2>8. CASE MoreAnswered(i)
    BY <2>8, NoMoreLeft DEF MoreAnswered, Answer
  <2>9. CASE MoreFailed(i)
    BY <2>9, NoMoreLeft DEF MoreFailed, Answer
  <2>10. CASE Toggled(i)
    <3>1. CASE searchInput # None
      <4>1. searchInput \in Query /\ DoSearch(searchInput, Others(i))
        BY <2>10, <3>1 DEF Toggled, TypeOK
      <4> QED BY <1>2, <2>10, <4>1, OneMoreStays DEF Toggled, DoSearch
    <3>2. CASE searchInput = None
      BY <2>1, <2>10, <3>2 DEF Toggled
    <3> QED BY <3>1, <3>2
  <2>11. CASE Reset(i)
    BY <2>1, <2>11, SimpleKinds, OneMoreStays DEF Reset, Uncached
  <2> QED
    BY <1>11, <2>2, <2>3, <2>4, <2>5, <2>6, <2>7, <2>8, <2>9, <2>10, <2>11 DEF Answered
<1>12. CASE UNCHANGED vars
  BY <1>3, <1>12 DEF vars
<1> QED
  BY <1>4, <1>5, <1>6, <1>7, <1>8, <1>9, <1>10, <1>11, <1>12
  DEF Next, Progress, Click, Enter

LEMMA SelectionStep == SelectionInv /\ [Next]_vars => SelectionInv'
<1> SUFFICES ASSUME SelectionInv, [Next]_vars
             PROVE  RowsShow' /\ RowsAligned' /\ MarkIsSelection'
  BY TypeStep, OneMoreStep DEF SelectionInv
<1>1. TypeOK /\ RowsShow /\ OneMore /\ RowsAligned /\ MarkIsSelection
  BY DEF SelectionInv
<1> DEFINE Goal == RowsShow' /\ RowsAligned' /\ MarkIsSelection'
\* What is left to show when the list and the selection are as they were.
<1>2. ASSUME UNCHANGED <<lastResults, selectedIndex, screen, crossed>>,
             isLoadingMore' => isLoadingMore \/ sentinel
      PROVE  Goal
  <2>1. RowsShow' /\ (Aligned => Aligned')
    BY <1>1, <1>2 DEF RowsShow, Aligned, screen
  <2>2. RowsAligned'
    BY <1>1, <1>2, <2>1 DEF RowsAligned, screen
  <2>3. MarkIsSelection'
    BY <1>1, <1>2 DEF MarkIsSelection, screen
  <2> QED BY <2>1, <2>2, <2>3
<1>3. ASSUME NEW q \in Query, NEW others, DoSearch(q, others), UNCHANGED isLoadingMore
      PROVE  Goal
  BY <1>3, NoRowsKeep DEF DoSearch
<1> HIDE DEF Goal
<1>4. ASSUME NEW q \in Query, Type(q) PROVE Goal
  BY <1>2, <1>4 DEF Type, search, history
<1>5. CASE Erase \/ Clear
  BY <1>1, <1>5, EmptyKeeps DEF Erase, Clear, Goal
<1>6. CASE TimerFires
  <2>1. debounceTimer \in Query /\ DoSearch(debounceTimer, inFlight)
        /\ UNCHANGED isLoadingMore
    BY <1>1, <1>6 DEF TimerFires, TypeOK
  <2> QED BY <1>3, <2>1 DEF Goal
<1>7. CASE LoadMore
  <2>1. /\ sentinel
        /\ UNCHANGED <<lastResults, selectedIndex, screen, crossed>>
    BY <1>7 DEF LoadMore, search, history
  <2> QED BY <1>2, <2>1 DEF Goal
<1>8. ASSUME NEW down \in BOOLEAN, Arrow(down) PROVE Goal
  <2>1. Len(rows) \in Nat \ {0} /\ selectedIndex \in Nat /\ DOMAIN rows = 1..Len(rows)
    BY <1>1, <1>8, EmptySeq DEF Arrow, TypeOK
  <2>2. /\ down => selectedIndex' = Min({selectedIndex + 1, Len(rows)})
        /\ ~down => selectedIndex' = Max({selectedIndex - 1, 1})
    BY <1>8 DEF Arrow
  <2>3. selectedIndex + 1 \in Int /\ selectedIndex - 1 \in Int /\ Len(rows) \in Int
        /\ 1 \in Int
    BY <2>1
  <2>4. /\ down => selectedIndex' = IF selectedIndex + 1 <= Len(rows)
                                    THEN selectedIndex + 1 ELSE Len(rows)
        /\ ~down => selectedIndex' = IF selectedIndex - 1 <= 1
                                     THEN 1 ELSE selectedIndex - 1
    BY <2>2, <2>3, TwoMinMax
  <2>5. selectedIndex' \in Nat \ {0}
    BY <2>1, <2>4
  <2>6. ~crossed /\ selectedIndex > 0 => selectedIndex \in 1..Len(rows)
    BY <1>1, <1>8, <2>1 DEF MarkIsSelection, Arrow
  <2>7. ~crossed => selectedIndex' \in DOMAIN rows
    BY <2>1, <2>4, <2>6
  <2>8. rows # <<>> /\ marked' = MarkedAt(selectedIndex')
        /\ UNCHANGED <<lastResults, rows, sentinel, isLoadingMore, crossed>>
    BY <1>8 DEF Arrow, NoSelection, history
  <2> QED BY <1>1, <2>5, <2>7, <2>8, SelectingKeeps DEF Goal
<1>9. ASSUME NEW i, SelectResult(i), rows # <<>> PROVE Goal
  <2>1. i \in Nat \ {0} /\ i \in DOMAIN lastResults
    BY <1>1, <1>9 DEF SelectResult, TypeOK
  <2> QED BY <1>1, <1>9, <2>1, SelectingKeeps DEF SelectResult, NoSelection, history, Goal
<1>10. ASSUME NEW kind \in {"toggle", "reset"}, Ask(kind) PROVE Goal
  BY <1>2, <1>10 DEF Ask, search, history
<1>11. ASSUME NEW i \in DOMAIN inFlight, Answered(i) PROVE Goal
  <2>1. CASE Resolved(i)
    BY <1>2, <2>1 DEF Resolved, search
  <2>2. ASSUME NEW data, RecsAnswered(i, data) PROVE Goal
    <3>1. CASE searchInput = None
      <4>1. RenderRecommendations(data) /\ (data = Recs => selectedIndex' = 0)
            /\ UNCHANGED isLoadingMore
        BY <2>2, <3>1 DEF RecsAnswered, Uncached
      <4> QED BY <1>1, <4>1, RenderingKeeps DEF Goal
    <3>2. CASE searchInput # None
      BY <1>2, <2>2, <3>2 DEF RecsAnswered, Uncached
    <3> QED BY <3>1, <3>2
  <2>3. ASSUME NEW data, Reloaded(i, data) PROVE Goal
    <3>1. CASE searchInput = None
      <4>1. RenderEmpty(data) /\ UNCHANGED isLoadingMore
        BY <2>3, <3>1 DEF Reloaded, Uncached
      <4> QED BY <1>1, <4>1, EmptyKeeps DEF Goal
    <3>2. CASE searchInput # None
      BY <1>2, <2>3, <3>2 DEF Reloaded, Uncached, search
    <3> QED BY <3>1, <3>2
  <2>4. CASE RecsFailed(i)
    BY <1>2, <2>4 DEF RecsFailed, Uncached, search
  <2>5. ASSUME NEW refused \in BOOLEAN, SearchAnswered(i, refused) PROVE Goal
    <3>1. inFlight[i] \in Request /\ inFlight[i].kind = "search"
      BY <1>1, <2>5 DEF SearchAnswered, Answer, TypeOK
    <3>2. inFlight[i].query \in Query
      BY <3>1 DEF Request
    <3>3. lastResults' \in Seq(Item)
      BY <2>5, <3>2, PageFacts, EmptySeq DEF SearchAnswered
    <3>4. rows' = RowsOf(lastResults', 0)
      BY <2>5 DEF SearchAnswered
    <3>5. /\ rows' \in Seq([index : Nat \ {0}, item : Item])
          /\ Len(rows') = Len(lastResults')
          /\ \A k \in 1..Len(lastResults') :
                rows'[k] = [index |-> 0 + k, item |-> lastResults'[k]]
      BY <3>3, <3>4, RowsOfFacts
    <3>6. Len(rows') \in Nat /\ DOMAIN rows' = 1..Len(rows')
          /\ DOMAIN lastResults' = 1..Len(lastResults')
      BY <3>3, <3>5
    <3>7. ASSUME NEW k \in 1..Len(rows')
          PROVE  rows'[k].index = k /\ rows'[k].item = lastResults'[k]
      BY <3>5, <3>6, <3>7
    <3>8. RowsShow' /\ Aligned'
      BY <3>5, <3>6, <3>7 DEF RowsShow, Aligned
    <3>9. RowsAligned'
      BY <3>8 DEF RowsAligned
    <3>10. MarkIsSelection'
      BY <2>5 DEF SearchAnswered, Unselected, MarkIsSelection
    <3> QED BY <3>8, <3>9, <3>10 DEF Goal
  <2>6. CASE SearchFailed(i)
    BY <2>6, NoRowsKeep DEF SearchFailed, Goal
  <2>7. CASE MoreAnswered(i)
    <3> DEFINE items == Page(inFlight[i].query, inFlight[i].page)
    <3>1. inFlight[i] \in Request /\ inFlight[i].kind = "more"
      BY <1>1, <2>7 DEF MoreAnswered, Answer, TypeOK
    <3>2. inFlight[i].query \in Query \union {None} /\ inFlight[i].page \in Nat \ {0}
      BY <3>1 DEF Request
    <3>3. items \in Seq(Item)
      BY <3>2, PageFacts
    <3>4. isLoadingMore
      BY <1>1, <3>1 DEF OneMore, Sent
    <3>5. isLoadingMore' = FALSE /\ UNCHANGED crossed
          /\ (items # <<>> => Show(items))
          /\ (items = <<>> => UNCHANGED <<lastResults, selectedIndex, screen>>)
      BY <2>7 DEF MoreAnswered
    <3> HIDE DEF items
    <3>6. CASE items # <<>>
      BY <1>1, <3>3, <3>4, <3>5, <3>6, ShowKeeps DEF Goal
    <3>7. CASE items = <<>>
      BY <1>2, <3>5, <3>7
    <3> QED BY <3>6, <3>7
  <2>8. CASE MoreFailed(i)
    BY <1>2, <2>8 DEF MoreFailed, search
  <2>9. CASE Toggled(i)
    <3>1. CASE searchInput # None
      BY <1>1, <1>3, <2>9, <3>1 DEF Toggled, TypeOK
    <3>2. CASE searchInput = None
      BY <1>2, <2>9, <3>2 DEF Toggled, search
    <3> QED BY <3>1, <3>2
  <2>10. CASE Reset(i)
    BY <1>2, <2>10 DEF Reset, Uncached, search
  <2> QED
    BY <1>11, <2>1, <2>2, <2>3, <2>4, <2>5, <2>6, <2>7, <2>8, <2>9, <2>10 DEF Answered
<1>12. CASE UNCHANGED vars
  BY <1>2, <1>12 DEF vars, search, history, Goal
<1>13. ASSUME NEW i \in DOMAIN rows, Click(i) PROVE Goal
  <2>1. rows # <<>>
    OBVIOUS
  <2> QED BY <1>9, <1>13, <2>1 DEF Click
<1>14. CASE Enter
  BY <1>9, <1>14 DEF Enter, Goal
<1> QED
  BY <1>4, <1>5, <1>6, <1>7, <1>8, <1>10, <1>11, <1>12, <1>13, <1>14
  DEF Next, Progress, Goal

LEMMA SelectionInit == Init => SelectionInv
<1> SUFFICES ASSUME Init PROVE SelectionInv
  OBVIOUS
<1>1. TypeOK
  BY TypeInit
<1>2. rows = <<>> /\ lastResults = <<>> /\ DOMAIN rows = {}
  BY DEF Init
<1>3. OneMore
  BY DEF OneMore, OneMoreIn, Init, Sent, Simple
<1> QED
  BY <1>1, <1>2, <1>3 DEF SelectionInv, RowsShow, RowsAligned, Aligned, MarkIsSelection, Init

\* Every row is where its index says in lastResults, so that a click posts what it shows;
\* and so is the marked row, unless the rows were replaced under a loadMore.
THEOREM ClicksPostWhatTheyShow == Spec => []SelectsWhatItShows
<1>1. SelectionInv => SelectsWhatItShows
  <2> SUFFICES ASSUME SelectionInv, rows # <<>>, selectedIndex > 0, ~crossed
               PROVE  marked \in DOMAIN rows /\ lastResults[selectedIndex] = rows[marked].item
    BY DEF SelectionInv, SelectsWhatItShows, RowsShow
  <2>1. marked = selectedIndex /\ marked \in DOMAIN rows /\ Aligned
    BY DEF SelectionInv, MarkIsSelection, RowsAligned
  <2> QED BY <2>1 DEF SelectionInv, RowsShow, Aligned
<1> QED BY <1>1, SelectionInit, SelectionStep, PTL DEF Spec

-----------------------------------------------------------------------------
(* The query. *)

\* What Append and Others do with what was asked for last.
LEMMA AskedAppend ==
    ASSUME NEW s \in Seq(Request), NEW r \in Request, NEW q,
           \/ r.kind = "search" /\ r.query = q
           \/ r.kind # "search" /\ AskedIn(s, q) /\ (r.kind = "more" => r.query = q)
    PROVE  AskedIn(Append(s, r), q)
<1>1. /\ \A j \in 1..Len(s) : Append(s, r)[j] = s[j]
      /\ Append(s, r)[Len(s) + 1] = r
      /\ DOMAIN Append(s, r) = 1..(Len(s) + 1)
      /\ DOMAIN s = 1..Len(s) /\ Len(s) \in Nat
  BY AppendProperties
<1> SUFFICES ASSUME NEW i \in 1..(Len(s) + 1), Append(s, r)[i].kind \in Ordered,
                    NoSearchAfter(Append(s, r), i)
             PROVE  Append(s, r)[i].query \in {q, None}
  BY <1>1 DEF AskedIn
<1>2. CASE i = Len(s) + 1
  BY <1>1, <1>2 DEF Ordered
<1>3. CASE i # Len(s) + 1
  <2>1. i \in 1..Len(s) /\ Append(s, r)[i] = s[i]
    BY <1>1, <1>3
  <2>2. r.kind # "search"
    <3>1. Len(s) + 1 \in DOMAIN Append(s, r) /\ Len(s) + 1 > i
      BY <1>1, <2>1
    <3> QED BY <1>1, <3>1 DEF NoSearchAfter
  <2>3. NoSearchAfter(s, i)
    BY <1>1 DEF NoSearchAfter
  <2> QED BY <1>1, <2>1, <2>2, <2>3 DEF AskedIn
<1> QED BY <1>2, <1>3

LEMMA AskedOthers ==
    ASSUME TypeOK, NEW i \in DOMAIN inFlight, NEW q, AskedIn(inFlight, q),
           \/ inFlight[i].kind # "search"
           \/ \A j \in 1..(i - 1) : inFlight[j].kind \notin Ordered
    PROVE  AskedIn(Others(i), q)
<1> DEFINE n == Len(inFlight)
           Was(j) == IF j < i THEN j ELSE j + 1
<1>1. /\ n \in Nat /\ i \in 1..n /\ DOMAIN inFlight = 1..n
      /\ DOMAIN Others(i) = 1..(n - 1)
      /\ \A j \in 1..(n - 1) : Others(i)[j] = inFlight[Was(j)]
  BY OthersFacts
<1> HIDE DEF n
<1> SUFFICES ASSUME NEW j \in 1..(n - 1), Others(i)[j].kind \in Ordered,
                    NoSearchAfter(Others(i), j)
             PROVE  Others(i)[j].query \in {q, None}
  BY <1>1 DEF AskedIn
<1>2. Was(j) \in 1..n /\ Others(i)[j] = inFlight[Was(j)]
  BY <1>1
<1>3. NoSearchAfter(inFlight, Was(j))
  <2> SUFFICES ASSUME NEW b \in 1..n, b > Was(j), inFlight[b].kind = "search"
               PROVE  FALSE
    BY <1>1 DEF NoSearchAfter
  <2>1. CASE b = i
    <3>1. j < i /\ Was(j) \in 1..(i - 1)
      BY <1>1, <1>2, <2>1
    <3> QED BY <1>2, <2>1, <3>1
  <2>2. CASE b < i
    <3>1. b \in 1..(n - 1) /\ Was(b) = b /\ b > j
      BY <1>1, <2>2
    <3> QED BY <1>1, <3>1 DEF NoSearchAfter
  <2>3. CASE b > i
    <3>1. b - 1 \in 1..(n - 1) /\ Was(b - 1) = b /\ b - 1 > j
      BY <1>1, <2>3
    <3>2. Others(i)[b - 1].kind = "search"
      BY <1>1, <3>1
    <3> QED BY <1>1, <3>1, <3>2 DEF NoSearchAfter
  <2> QED BY <1>1, <2>1, <2>2, <2>3
<1> QED BY <1>1, <1>2, <1>3 DEF AskedIn

\* An answer that overtakes none leaves the others as they were asked.
LEMMA AnswerKeepsAsked ==
    ASSUME TypeOK, LastAsked, NEW i \in DOMAIN inFlight, NEW kind, Answer(i, kind),
           ~overtaken', currentQuery # None
    PROVE  AskedIn(Others(i), currentQuery) /\ ~overtaken
<1>1. inFlight[i].kind = kind
  BY DEF Answer
<1>2. ~overtaken
  BY DEF Answer, Received
<1>3. inFlight[i].kind \in Ordered =>
        \A j \in 1..(i - 1) : inFlight[j].kind \notin Ordered
  BY DEF Answer, Received
<1>4. inFlight[i].kind = "search" => inFlight[i].kind \in Ordered
  BY DEF Ordered
<1> QED BY <1>2, <1>3, <1>4, AskedOthers DEF LastAsked

LEMMA SearchAsks ==
    ASSUME TypeOK, NEW q \in Query, NEW others \in Seq(Request), DoSearch(q, others)
    PROVE  LastAsked'
<1> DEFINE r == [kind |-> "search", query |-> q, page |-> 1]
<1>1. r \in Request /\ r.kind = "search" /\ r.query = q
  BY DEF Request
<1> HIDE DEF r
<1>2. AskedIn(Append(others, r), q)
  BY <1>1, AskedAppend
<1>3. inFlight' = Append(others, r) /\ currentQuery' = q
  BY DEF DoSearch, r
<1> QED BY <1>2, <1>3 DEF LastAsked

LEMMA AskedStep == TypeOK /\ LastAsked /\ [Next]_vars => LastAsked'
<1> SUFFICES ASSUME TypeOK, LastAsked, [Next]_vars PROVE LastAsked'
  OBVIOUS
<1>1. inFlight \in Seq(Request)
  BY DEF TypeOK
<1>2. ASSUME inFlight' = inFlight, currentQuery' = currentQuery, overtaken' = overtaken
      PROVE  LastAsked'
  BY <1>2 DEF LastAsked
<1>3. ASSUME currentQuery' = None PROVE LastAsked'
  BY <1>3 DEF LastAsked
<1>4. ASSUME NEW r \in Request, inFlight' = Append(inFlight, r), r.kind # "search",
             r.kind = "more" => r.query = currentQuery,
             currentQuery' = currentQuery, overtaken' = overtaken
      PROVE  LastAsked'
  <2>1. ~overtaken /\ currentQuery # None => AskedIn(Append(inFlight, r), currentQuery)
    BY <1>1, <1>4, AskedAppend DEF LastAsked
  <2> QED BY <1>4, <2>1 DEF LastAsked
<1>5. ASSUME NEW q \in Query, Type(q) PROVE LastAsked'
  BY <1>2, <1>5 DEF Type, search, history
<1>6. CASE Erase \/ Clear
  BY <1>3, <1>6 DEF Erase, Clear, RenderEmpty
<1>7. CASE TimerFires
  <2>1. DoSearch(debounceTimer, inFlight) /\ debounceTimer \in Query
    BY <1>7 DEF TimerFires, TypeOK
  <2> QED BY <1>1, <2>1, SearchAsks
<1>8. CASE LoadMore
  <2> DEFINE r == [kind |-> "more", query |-> currentQuery, page |-> currentPage + 1]
  <2>1. r \in Request /\ r.kind # "search" /\ r.query = currentQuery
    BY DEF Request, TypeOK
  <2>2. inFlight' = Append(inFlight, r) /\ currentQuery' = currentQuery
        /\ overtaken' = overtaken
    BY <1>8 DEF LoadMore, search, history
  <2> HIDE DEF r
  <2> QED BY <1>4, <2>1, <2>2
<1>9. ASSUME NEW down \in BOOLEAN, Arrow(down) PROVE LastAsked'
  BY <1>2, <1>9 DEF Arrow, NoSelection, history
<1>10. ASSUME NEW i, SelectResult(i) PROVE LastAsked'
  BY <1>2, <1>10 DEF SelectResult, NoSelection, history
<1>11. ASSUME NEW kind \in {"toggle", "reset"}, Ask(kind) PROVE LastAsked'
  <2>1. Simple(kind) \in Request /\ Simple(kind).kind # "search"
        /\ Simple(kind).kind # "more"
    BY SimpleKinds
  <2>2. inFlight' = Append(inFlight, Simple(kind)) /\ currentQuery' = currentQuery
        /\ overtaken' = overtaken
    BY <1>11 DEF Ask, search, history
  <2> QED BY <1>4, <2>1, <2>2
<1>12. ASSUME NEW i \in DOMAIN inFlight, Answered(i) PROVE LastAsked'
  <2>1. Others(i) \in Seq(Request)
    BY OthersFacts
  <2>2. ASSUME NEW kind, Answer(i, kind), inFlight' = Others(i),
               currentQuery' = currentQuery
        PROVE  LastAsked'
    BY <2>2, AnswerKeepsAsked DEF LastAsked
  <2>3. ASSUME NEW kind, Answer(i, kind), currentQuery' = currentQuery,
               NEW r \in Request, r.kind # "search", r.kind # "more",
               inFlight' = Append(Others(i), r)
        PROVE  LastAsked'
    <3>1. ~overtaken' /\ currentQuery # None
            => AskedIn(Append(Others(i), r), currentQuery)
      BY <2>1, <2>3, AnswerKeepsAsked, AskedAppend
    <3> QED BY <2>3, <3>1 DEF LastAsked
  <2>4. CASE Resolved(i)
    BY <2>3, <2>4, SimpleKinds DEF Resolved, search
  <2>5. ASSUME NEW data, RecsAnswered(i, data) PROVE LastAsked'
    BY <2>2, <2>5 DEF RecsAnswered
  <2>6. ASSUME NEW data, Reloaded(i, data) PROVE LastAsked'
    BY <1>3, <2>2, <2>6 DEF Reloaded, RenderEmpty, search
  <2>7. CASE RecsFailed(i)
    BY <2>2, <2>7 DEF RecsFailed, search
  <2>8. ASSUME NEW refused \in BOOLEAN, SearchAnswered(i, refused) PROVE LastAsked'
    BY <2>2, <2>8 DEF SearchAnswered
  <2>9. CASE SearchFailed(i)
    BY <2>2, <2>9 DEF SearchFailed, search
  <2>10. CASE MoreAnswered(i)
    BY <2>2, <2>10 DEF MoreAnswered
  <2>11. CASE MoreFailed(i)
    BY <2>2, <2>11 DEF MoreFailed, search
  <2>12. CASE Toggled(i)
    <3>1. CASE searchInput # None
      <4>1. searchInput \in Query /\ DoSearch(searchInput, Others(i))
        BY <2>12, <3>1 DEF Toggled, TypeOK
      <4> QED BY <2>1, <4>1, SearchAsks
    <3>2. CASE searchInput = None
      BY <2>2, <2>12, <3>2 DEF Toggled, search
    <3> QED BY <3>1, <3>2
  <2>13. CASE Reset(i)
    BY <2>2, <2>3, <2>13, SimpleKinds DEF Reset, search
  <2> QED
    BY <1>12, <2>4, <2>5, <2>6, <2>7, <2>8, <2>9, <2>10, <2>11, <2>12, <2>13 DEF Answered
<1>13. CASE UNCHANGED vars
  BY <1>2, <1>13 DEF vars, search, history
<1> QED
  BY <1>5, <1>6, <1>7, <1>8, <1>9, <1>10, <1>11, <1>12, <1>13
  DEF Next, Progress, Click, Enter

LEMMA BoxStep == TypeOK /\ BoxIsAsked /\ [Next]_vars => BoxIsAsked'
<1> SUFFICES ASSUME TypeOK, BoxIsAsked, [Next]_vars PROVE BoxIsAsked'
  OBVIOUS
<1>1. ASSUME UNCHANGED <<searchInput, debounceTimer, currentQuery>> PROVE BoxIsAsked'
  BY <1>1 DEF BoxIsAsked
<1>2. ASSUME searchInput' = None PROVE BoxIsAsked'
  BY <1>2 DEF BoxIsAsked
<1>3. ASSUME NEW q \in Query, Type(q) PROVE BoxIsAsked'
  BY <1>3 DEF Type, BoxIsAsked
<1>4. CASE Erase \/ Clear
  BY <1>2, <1>4 DEF Erase, Clear
<1>5. CASE TimerFires
  BY <1>5 DEF TimerFires, DoSearch, BoxIsAsked
<1>6. CASE LoadMore
  BY <1>1, <1>6 DEF LoadMore, search
<1>7. ASSUME NEW down \in BOOLEAN, Arrow(down) PROVE BoxIsAsked'
  BY <1>1, <1>7 DEF Arrow, NoSelection
<1>8. ASSUME NEW i, SelectResult(i) PROVE BoxIsAsked'
  BY <1>1, <1>8 DEF SelectResult, NoSelection
<1>9. ASSUME NEW kind, Ask(kind) PROVE BoxIsAsked'
  BY <1>1, <1>9 DEF Ask, search
<1>10. ASSUME NEW i \in DOMAIN inFlight, Answered(i) PROVE BoxIsAsked'
  <2>1. CASE Resolved(i) \/ RecsFailed(i) \/ SearchFailed(i) \/ MoreFailed(i) \/ Reset(i)
    BY <1>1, <2>1 DEF Resolved, RecsFailed, SearchFailed, MoreFailed, Reset, Uncached, search
  <2>2. ASSUME NEW data, RecsAnswered(i, data) PROVE BoxIsAsked'
    BY <1>1, <2>2 DEF RecsAnswered, Uncached
  <2>3. ASSUME NEW data, Reloaded(i, data) PROVE BoxIsAsked'
    BY <1>1, <1>2, <2>3 DEF Reloaded, Uncached, search
  <2>4. ASSUME NEW refused \in BOOLEAN, SearchAnswered(i, refused) PROVE BoxIsAsked'
    BY <1>1, <2>4 DEF SearchAnswered
  <2>5. CASE MoreAnswered(i)
    BY <1>1, <2>5 DEF MoreAnswered
  <2>6. CASE Toggled(i)
    BY <1>1, <2>6 DEF Toggled, DoSearch, search, BoxIsAsked
  <2> QED BY <1>10, <2>1, <2>2, <2>3, <2>4, <2>5, <2>6 DEF Answered
<1>11. CASE UNCHANGED vars
  BY <1>1, <1>11 DEF vars, search
<1> QED
  BY <1>3, <1>4, <1>5, <1>6, <1>7, <1>8, <1>9, <1>10, <1>11
  DEF Next, Progress, Click, Enter

\* Searches are sent and stay sent until answered: what a step can do to them.
LEMMA SearchLeft ==
    ASSUME TypeOK, NEW i \in DOMAIN inFlight, ~Sent("search")', inFlight' = Others(i),
           NEW j \in DOMAIN inFlight, inFlight[j].kind = "search"
    PROVE  j = i
<1>1. /\ Len(inFlight) \in Nat /\ i \in 1..Len(inFlight)
      /\ DOMAIN inFlight = 1..Len(inFlight)
      /\ DOMAIN Others(i) = 1..(Len(inFlight) - 1)
      /\ \A k \in 1..(Len(inFlight) - 1) :
            Others(i)[k] = inFlight[IF k < i THEN k ELSE k + 1]
  BY OthersFacts
<1>2. \A k \in DOMAIN Others(i) : Others(i)[k].kind # "search"
  <2>1. ~Has(Others(i), "search")
    BY SentIsHas, Zenon
  <2> QED BY <2>1, Zenon DEF Has
<1>3. ASSUME j < i PROVE FALSE
  <2>1. j \in 1..(Len(inFlight) - 1) /\ Others(i)[j] = inFlight[j]
    BY <1>1, <1>3
  <2> QED BY <1>1, <1>2, <2>1
<1>4. ASSUME j > i PROVE FALSE
  <2>1. j - 1 \in 1..(Len(inFlight) - 1) /\ ~(j - 1 < i) /\ (j - 1) + 1 = j
    BY <1>1, <1>4
  <2>2. Others(i)[j - 1] = inFlight[j]
    BY <1>1, <2>1
  <2> QED BY <1>1, <1>2, <2>1, <2>2
<1> QED BY <1>1, <1>3, <1>4

\* The answer to the last search that was out is the first page of the current query.
LEMMA LastAnswer ==
    ASSUME TypeOK, LastAsked, NEW i \in DOMAIN inFlight, Answer(i, "search"),
           inFlight' = Others(i), ~Sent("search")', ~overtaken', currentQuery # None
    PROVE  inFlight[i].query = currentQuery /\ currentQuery \in Query
<1>1. inFlight[i] \in Request /\ inFlight[i].kind = "search"
  BY DEF Answer, TypeOK
<1>2. inFlight[i].query \in Query /\ None \notin Query
  BY <1>1, FrontendAssumption DEF Request
<1>3. NoSearchAfter(inFlight, i)
  <2>1. DOMAIN inFlight \subseteq Nat
    BY DEF TypeOK
  <2> QED BY <2>1, SearchLeft DEF NoSearchAfter
<1>4. AskedIn(inFlight, currentQuery)
  BY AnswerKeepsAsked DEF LastAsked
<1>5. inFlight[i].query \in {currentQuery, None}
  BY <1>1, <1>3, <1>4 DEF AskedIn, Ordered
<1> QED BY <1>2, <1>5

LEMMA RowsStep ==
    TypeOK /\ BoxIsAsked /\ LastAsked /\ RowsAnswer /\ [Next]_vars => RowsAnswer'
<1> SUFFICES ASSUME TypeOK, BoxIsAsked, LastAsked, RowsAnswer, [Next]_vars
             PROVE  RowsAnswer'
  OBVIOUS
<1>1. inFlight \in Seq(Request) /\ None \notin Query
  BY FrontendAssumption DEF TypeOK
<1>2. ASSUME rows' = rows, searchInput' = searchInput, debounceTimer' = debounceTimer,
             overtaken => overtaken', failed => failed',
             Sent("search") => Sent("search")'
      PROVE  RowsAnswer'
  BY <1>2 DEF RowsAnswer
<1>3. ASSUME inFlight' = inFlight PROVE Sent("search") => Sent("search")'
  BY <1>3 DEF Sent
<1>4. ASSUME searchInput' = None \/ Sent("search")' \/ debounceTimer' # None \/ failed'
      PROVE  RowsAnswer'
  BY <1>4 DEF RowsAnswer
<1>5. ASSUME NEW q \in Query, Type(q) PROVE RowsAnswer'
  BY <1>1, <1>4, <1>5 DEF Type
<1>6. CASE Erase \/ Clear
  BY <1>4, <1>6 DEF Erase, Clear
<1>7. CASE TimerFires
  <2>1. DoSearch(debounceTimer, inFlight) /\ debounceTimer \in Query
    BY <1>7 DEF TimerFires, TypeOK
  <2> QED BY <1>1, <1>4, <2>1, SearchIsSent
<1>8. CASE LoadMore
  <2>1. [kind |-> "more", query |-> currentQuery, page |-> currentPage + 1] \in Request
    BY DEF Request, TypeOK
  <2>2. Sent("search") => Sent("search")'
    BY <1>8, <2>1, SearchStaysSent DEF LoadMore
  <2> QED BY <1>2, <1>8, <2>2 DEF LoadMore, screen, history
<1>9. ASSUME NEW down \in BOOLEAN, Arrow(down) PROVE RowsAnswer'
  BY <1>2, <1>3, <1>9 DEF Arrow, NoSelection, history
<1>10. ASSUME NEW i, SelectResult(i) PROVE RowsAnswer'
  BY <1>2, <1>3, <1>10 DEF SelectResult, NoSelection, history
<1>11. ASSUME NEW kind \in {"toggle", "reset"}, Ask(kind) PROVE RowsAnswer'
  <2>1. Sent("search") => Sent("search")'
    BY <1>11, SimpleKinds, SearchStaysSent DEF Ask
  <2> QED BY <1>2, <1>11, <2>1 DEF Ask, screen, history
<1>12. ASSUME NEW i \in DOMAIN inFlight, Answered(i) PROVE RowsAnswer'
  <2>1. ASSUME NEW kind, Answer(i, kind)
        PROVE  /\ inFlight[i].kind = kind
               /\ overtaken => overtaken'
    BY <2>1 DEF Answer, Received
  <2>2. ASSUME NEW kind, Answer(i, kind), kind # "search", NEW r \in Request,
               inFlight' = Others(i) \/ inFlight' = Append(Others(i), r)
        PROVE  Sent("search") => Sent("search")'
    BY <2>2, SearchStaysSent DEF Answer
  <2>3. Simple("recs") \in Request /\ Simple("reload") \in Request
    BY SimpleKinds
  <2>4. ASSUME NEW kind, Answer(i, kind), kind # "search", NEW r \in Request,
               inFlight' = Others(i) \/ inFlight' = Append(Others(i), r),
               rows' = rows, searchInput' = searchInput, debounceTimer' = debounceTimer,
               failed => failed'
        PROVE  RowsAnswer'
    BY <1>2, <2>1, <2>2, <2>4
  <2>5. CASE Resolved(i)
    BY <2>3, <2>4, <2>5 DEF Resolved, screen
  <2>6. ASSUME NEW data, RecsAnswered(i, data) PROVE RowsAnswer'
    BY <1>4, <2>3, <2>4, <2>6 DEF RecsAnswered, Uncached, screen
  <2>7. ASSUME NEW data, Reloaded(i, data) PROVE RowsAnswer'
    BY <1>4, <2>3, <2>4, <2>7 DEF Reloaded, Uncached, screen
  <2>8. CASE RecsFailed(i)
    BY <2>3, <2>4, <2>8 DEF RecsFailed, Uncached, screen
  <2>9. ASSUME NEW refused \in BOOLEAN, SearchAnswered(i, refused) PROVE RowsAnswer'
    <3>1. CASE refused
      BY <1>4, <2>9, <3>1 DEF SearchAnswered
    <3>2. CASE ~refused
      <4> SUFFICES ASSUME ~overtaken', searchInput # None, debounceTimer = None,
                          ~Sent("search")'
                   PROVE  /\ \A k \in DOMAIN rows' : rows'[k].item.query = searchInput
                          /\ rows' = <<>> => Total[searchInput] = 0
        BY <2>9 DEF RowsAnswer, SearchAnswered
      <4>1. currentQuery = searchInput
        BY DEF BoxIsAsked
      <4>2. inFlight[i].query = searchInput /\ searchInput \in Query
        BY <2>9, <4>1, LastAnswer DEF SearchAnswered
      <4> DEFINE items == Page(searchInput, 1)
      <4>3. /\ items \in Seq(Item)
            /\ items # <<>> => items = <<[query |-> searchInput, page |-> 1]>>
            /\ items = <<>> => ~(1 <= Total[searchInput])
        BY <4>2, PageFacts
      <4>4. rows' = RowsOf(items, 0)
        BY <2>9, <3>2, <4>2 DEF SearchAnswered
      <4> HIDE DEF items
      <4>5. /\ rows' \in Seq([index : Nat \ {0}, item : Item])
            /\ Len(rows') = Len(items)
            /\ \A k \in 1..Len(items) : rows'[k] = [index |-> 0 + k, item |-> items[k]]
        BY <4>3, <4>4, RowsOfFacts
      <4>6. ASSUME NEW k \in DOMAIN rows' PROVE rows'[k].item.query = searchInput
        <5>1. k \in 1..Len(items)
          BY <4>5
        <5>2. rows'[k] = [index |-> 0 + k, item |-> items[k]]
          BY <4>5, <5>1
        <5>3. rows'[k].item = items[k]
          BY <5>2
        <5>4. items[k] = [query |-> searchInput, page |-> 1]
          BY <4>3, <5>1
        <5> QED BY <5>3, <5>4
      <4>7. rows' = <<>> => Total[searchInput] = 0
        <5>1. rows' = <<>> => items = <<>>
          BY <4>3, <4>5, EmptySeq
        <5>2. Total[searchInput] \in Nat
          BY <4>2, FrontendAssumption
        <5> QED BY <4>3, <5>1, <5>2
      <4> QED BY <4>6, <4>7
    <3> QED BY <3>1, <3>2
  <2>10. CASE SearchFailed(i)
    BY <1>4, <2>10 DEF SearchFailed
  <2>11. CASE MoreAnswered(i)
    <3> DEFINE items == Page(inFlight[i].query, inFlight[i].page)
               new == RowsOf(items, Len(lastResults))
    <3>1. inFlight[i] \in Request /\ inFlight[i].kind = "more" /\ Answer(i, "more")
          /\ inFlight' = Others(i)
      BY <2>11 DEF MoreAnswered, Answer, TypeOK
    <3>2. inFlight[i].query \in Query \union {None} /\ inFlight[i].page \in Nat \ {0}
      BY <3>1 DEF Request
    <3>3. /\ items \in Seq(Item)
          /\ items # <<>> =>
                /\ items = <<[query |-> inFlight[i].query, page |-> inFlight[i].page]>>
                /\ inFlight[i].query \in Query
      BY <3>2, PageFacts
    <3>4. searchInput' = searchInput /\ debounceTimer' = debounceTimer /\ failed' = failed
          /\ (items # <<>> => rows' = rows \o new)
          /\ (items = <<>> => rows' = rows)
      BY <2>11 DEF MoreAnswered, Show, screen
    <3>5. Sent("search") => Sent("search")'
      BY <2>2, <2>3, <3>1
    <3> HIDE DEF items
    <3>6. CASE items = <<>>
      BY <1>2, <2>1, <3>1, <3>4, <3>5, <3>6
    <3>7. CASE items # <<>>
      <4> SUFFICES ASSUME ~overtaken', ~failed, searchInput # None, debounceTimer = None,
                          ~Sent("search")
                   PROVE  /\ \A k \in DOMAIN rows' : rows'[k].item.query = searchInput
                          /\ rows' = <<>> => Total[searchInput] = 0
        BY <3>4, <3>5 DEF RowsAnswer
      <4>1. /\ \A k \in DOMAIN rows : rows[k].item.query = searchInput
            /\ ~overtaken
        BY <2>1, <3>1 DEF RowsAnswer
      <4>2. currentQuery = searchInput
        BY DEF BoxIsAsked
      <4>3. inFlight[i].query = searchInput
        <5>1. AskedIn(inFlight, currentQuery)
          BY <4>1, <4>2 DEF LastAsked
        <5>2. NoSearchAfter(inFlight, i)
          BY DEF NoSearchAfter, Sent
        <5>3. inFlight[i].query \in {currentQuery, None}
          BY <3>1, <5>1, <5>2 DEF AskedIn, Ordered
        <5> QED BY <1>1, <3>3, <3>7, <4>2, <5>3
      <4>4. Len(lastResults) \in Nat
        BY DEF TypeOK
      <4>5. /\ new \in Seq([index : Nat \ {0}, item : Item])
            /\ Len(new) = Len(items)
            /\ \A k \in 1..Len(items) :
                  new[k] = [index |-> Len(lastResults) + k, item |-> items[k]]
        BY <3>3, <4>4, RowsOfFacts
      <4>6. ASSUME NEW k \in 1..Len(items) PROVE new[k].item.query = searchInput
        <5>1. items[k] = [query |-> searchInput, page |-> inFlight[i].page]
          BY <3>3, <3>7, <4>3
        <5>2. new[k] = [index |-> Len(lastResults) + k, item |-> items[k]]
          BY <4>5
        <5>3. new[k].item = items[k]
          BY <5>2
        <5> QED BY <5>1, <5>3
      <4>7. /\ Len(items) \in Nat \ {0}
        BY <3>3, <3>7
      <4> HIDE DEF new
      <4> DEFINE Row == [index : Nat \ {0}, item : Item]
      <4>8. rows \in Seq(Row) /\ new \in Seq(Row)
        BY <4>5 DEF TypeOK
      <4> HIDE DEF Row
      <4>9. /\ rows \o new \in Seq(Row)
            /\ Len(rows \o new) = Len(rows) + Len(new)
            /\ \A k \in 1..(Len(rows) + Len(new)) :
                  (rows \o new)[k] = IF k <= Len(rows) THEN rows[k] ELSE new[k - Len(rows)]
        BY <4>8, ConcatProperties
      <4>10. rows' = rows \o new /\ Len(rows) \in Nat /\ DOMAIN rows = 1..Len(rows)
             /\ DOMAIN rows' = 1..(Len(rows) + Len(new))
        BY <3>4, <3>7, <4>8, <4>9
      <4>11. ASSUME NEW k \in DOMAIN rows' PROVE rows'[k].item.query = searchInput
        <5>1. CASE k <= Len(rows)
          <6>1. k \in DOMAIN rows /\ rows'[k] = rows[k]
            BY <4>9, <4>10, <5>1
          <6> QED BY <4>1, <6>1
        <5>2. CASE ~(k <= Len(rows))
          <6>1. k - Len(rows) \in 1..Len(items) /\ rows'[k] = new[k - Len(rows)]
            BY <4>5, <4>9, <4>10, <5>2
          <6> QED BY <4>6, <6>1
        <5> QED BY <5>1, <5>2
      <4>12. rows' # <<>>
        BY <4>5, <4>7, <4>9, <4>10
      <4> QED BY <4>11, <4>12
    <3> QED BY <3>6, <3>7
  <2>12. CASE MoreFailed(i)
    BY <2>3, <2>4, <2>12 DEF MoreFailed, screen
  <2>13. CASE Toggled(i)
    <3>1. CASE searchInput # None
      <4>1. /\ searchInput \in Query /\ DoSearch(searchInput, Others(i))
            /\ Others(i) \in Seq(Request)
        BY <2>13, <3>1, OthersFacts DEF Toggled, TypeOK
      <4> QED BY <1>4, <4>1, SearchIsSent
    <3>2. CASE searchInput = None
      BY <1>4, <2>13, <3>2 DEF Toggled
    <3> QED BY <3>1, <3>2
  <2>14. CASE Reset(i)
    BY <2>3, <2>4, <2>14 DEF Reset, Uncached, screen
  <2> QED
    BY <1>12, <2>5, <2>6, <2>7, <2>8, <2>9, <2>10, <2>11, <2>12, <2>13, <2>14
    DEF Answered
<1>13. CASE UNCHANGED vars
  BY <1>2, <1>3, <1>13 DEF vars, screen, history
<1> QED
  BY <1>5, <1>6, <1>7, <1>8, <1>9, <1>10, <1>11, <1>12, <1>13
  DEF Next, Progress, Click, Enter

LEMMA AnswerInit == Init => AnswerInv
<1> SUFFICES ASSUME Init PROVE AnswerInv
  OBVIOUS
<1>1. BoxIsAsked /\ LastAsked /\ RowsAnswer
  BY DEF Init, BoxIsAsked, LastAsked, RowsAnswer
<1> QED BY <1>1, TypeInit DEF AnswerInv

\* When all is quiet, nothing was overtaken and nothing failed, the rows are the answer
\* to what the box holds.
THEOREM RestIsTheAnswer == Spec => []RestAnswersTheBox
<1>1. AnswerInv /\ [Next]_vars => AnswerInv'
  BY TypeStep, BoxStep, AskedStep, RowsStep DEF AnswerInv
<1>2. AnswerInv => RestAnswersTheBox
  <2>1. AtRest => ~Sent("search") /\ debounceTimer = None
    BY DEF AtRest, Sent
  <2> QED BY <2>1 DEF AnswerInv, RowsAnswer, RestAnswersTheBox, AtRest
<1> QED BY <1>1, <1>2, AnswerInit, PTL DEF Spec

-----------------------------------------------------------------------------
(* The pages. *)

LEMMA ContinuesAppend ==
    ASSUME NEW s \in Seq(Request), NEW r \in Request, NEW q, NEW p,
           r.kind # "search",
           \/ r.kind # "more" /\ ContinuesIn(s, q, p)
           \/ r.kind = "more" /\ ~Has(s, "more") /\ r.query = q /\ r.page = p + 1
    PROVE  ContinuesIn(Append(s, r), q, p)
<1>1. /\ \A j \in 1..Len(s) : Append(s, r)[j] = s[j]
      /\ Append(s, r)[Len(s) + 1] = r
      /\ DOMAIN Append(s, r) = 1..(Len(s) + 1)
      /\ DOMAIN s = 1..Len(s) /\ Len(s) \in Nat
  BY AppendProperties
<1> SUFFICES ASSUME NEW i \in 1..(Len(s) + 1), Append(s, r)[i].kind = "more"
             PROVE  /\ Append(s, r)[i].query = q /\ Append(s, r)[i].page = p + 1
                    /\ NoSearchAfter(Append(s, r), i)
  BY <1>1 DEF ContinuesIn
<1>2. CASE i = Len(s) + 1
  BY <1>1, <1>2 DEF NoSearchAfter
<1>3. CASE i # Len(s) + 1
  <2>1. i \in 1..Len(s) /\ Append(s, r)[i] = s[i]
    BY <1>1, <1>3
  <2>2. ContinuesIn(s, q, p)
    BY <1>1, <2>1 DEF Has
  <2>3. s[i].query = q /\ s[i].page = p + 1 /\ NoSearchAfter(s, i)
    BY <1>1, <2>1, <2>2 DEF ContinuesIn
  <2>4. NoSearchAfter(Append(s, r), i)
    BY <1>1, <2>3 DEF NoSearchAfter
  <2> QED BY <2>1, <2>3, <2>4
<1> QED BY <1>2, <1>3

LEMMA ContinuesOthers ==
    ASSUME TypeOK, NEW i \in DOMAIN inFlight, NEW q, NEW p, ContinuesIn(inFlight, q, p)
    PROVE  ContinuesIn(Others(i), q, p)
<1> DEFINE n == Len(inFlight)
           Was(j) == IF j < i THEN j ELSE j + 1
<1>1. /\ n \in Nat /\ i \in 1..n /\ DOMAIN inFlight = 1..n
      /\ DOMAIN Others(i) = 1..(n - 1)
      /\ \A j \in 1..(n - 1) : Others(i)[j] = inFlight[Was(j)]
  BY OthersFacts
<1> HIDE DEF n
<1> SUFFICES ASSUME NEW j \in 1..(n - 1), Others(i)[j].kind = "more"
             PROVE  /\ Others(i)[j].query = q /\ Others(i)[j].page = p + 1
                    /\ NoSearchAfter(Others(i), j)
  BY <1>1 DEF ContinuesIn
<1>2. Was(j) \in 1..n /\ Others(i)[j] = inFlight[Was(j)]
  BY <1>1
<1>3. /\ inFlight[Was(j)].query = q /\ inFlight[Was(j)].page = p + 1
      /\ NoSearchAfter(inFlight, Was(j))
  BY <1>1, <1>2 DEF ContinuesIn
<1>4. NoSearchAfter(Others(i), j)
  <2> SUFFICES ASSUME NEW k \in 1..(n - 1), k > j
               PROVE  Others(i)[k].kind # "search"
    BY <1>1 DEF NoSearchAfter
  <2>1. Was(k) \in 1..n /\ Was(k) > Was(j)
    BY <1>1
  <2> QED BY <1>1, <1>3, <2>1 DEF NoSearchAfter
<1> QED BY <1>2, <1>3, <1>4

\* With no loadMore in flight there is nothing to continue.
LEMMA NothingToContinue ==
    ASSUME TypeOK, OneMore', ~crossed' => ~isLoadingMore'
    PROVE  MoreContinues'
<1>1. ~crossed' => ~Has(inFlight', "more")
  BY SentIsHas DEF OneMore
<1> QED BY <1>1 DEF MoreContinues, ContinuesIn, Has

LEMMA MoreStep ==
    TypeOK /\ OneMore /\ MoreContinues /\ [Next]_vars => MoreContinues'
<1> SUFFICES ASSUME TypeOK, OneMore, MoreContinues, [Next]_vars PROVE MoreContinues'
  OBVIOUS
<1>1. inFlight \in Seq(Request) /\ OneMore'
  BY OneMoreStep DEF TypeOK
<1>2. ASSUME inFlight' = inFlight, currentQuery' = currentQuery,
             currentPage' = currentPage, crossed' = crossed
      PROVE  MoreContinues'
  BY <1>2 DEF MoreContinues
<1>3. ASSUME crossed' = (crossed \/ isLoadingMore), UNCHANGED isLoadingMore
      PROVE  MoreContinues'
  <2>1. ~crossed' => ~isLoadingMore'
    BY <1>3
  <2> QED BY <1>1, <2>1, NothingToContinue
<1>4. ASSUME NEW r \in Request, inFlight' = Append(inFlight, r),
             r.kind \notin {"search", "more"},
             currentQuery' = currentQuery, currentPage' = currentPage, crossed' = crossed
      PROVE  MoreContinues'
  <2>1. ~crossed => ContinuesIn(Append(inFlight, r), currentQuery, currentPage)
    BY <1>1, <1>4, ContinuesAppend DEF MoreContinues
  <2> QED BY <1>4, <2>1 DEF MoreContinues
<1>5. ASSUME NEW q \in Query, Type(q) PROVE MoreContinues'
  BY <1>2, <1>5 DEF Type, search, history
<1>6. CASE Erase \/ Clear
  BY <1>3, <1>6 DEF Erase, Clear, RenderEmpty, RenderRecommendations
<1>7. CASE TimerFires
  BY <1>3, <1>7 DEF TimerFires, DoSearch
<1>8. CASE LoadMore
  <2> DEFINE r == [kind |-> "more", query |-> currentQuery, page |-> currentPage + 1]
  <2>1. r \in Request /\ r.kind = "more" /\ r.query = currentQuery
        /\ r.page = currentPage + 1
    BY DEF Request, TypeOK
  <2>2. inFlight' = Append(inFlight, r) /\ currentQuery' = currentQuery
        /\ currentPage' = currentPage /\ ~isLoadingMore
    BY <1>8 DEF LoadMore, search
  <2> HIDE DEF r
  <2>3. ~Has(inFlight, "more")
    BY <2>2, SentIsHas DEF OneMore
  <2>4. ContinuesIn(Append(inFlight, r), currentQuery, currentPage)
    BY <1>1, <2>1, <2>3, ContinuesAppend
  <2> QED BY <2>2, <2>4 DEF MoreContinues
<1>9. ASSUME NEW down \in BOOLEAN, Arrow(down) PROVE MoreContinues'
  BY <1>2, <1>9 DEF Arrow, NoSelection, history
<1>10. ASSUME NEW i, SelectResult(i) PROVE MoreContinues'
  BY <1>2, <1>10 DEF SelectResult, NoSelection, history
<1>11. ASSUME NEW kind \in {"toggle", "reset"}, Ask(kind) PROVE MoreContinues'
  <2>1. Simple(kind) \in Request /\ Simple(kind).kind \notin {"search", "more"}
    BY SimpleKinds
  <2>2. /\ inFlight' = Append(inFlight, Simple(kind))
        /\ currentQuery' = currentQuery /\ currentPage' = currentPage /\ crossed' = crossed
    BY <1>11 DEF Ask, search, history
  <2> QED BY <1>4, <2>1, <2>2
<1>12. ASSUME NEW i \in DOMAIN inFlight, Answered(i) PROVE MoreContinues'
  <2>1. Others(i) \in Seq(Request)
    BY OthersFacts
  <2>2. ASSUME inFlight' = Others(i), currentQuery' = currentQuery,
               currentPage' = currentPage, crossed => crossed'
        PROVE  MoreContinues'
    <3>1. ~crossed => ContinuesIn(Others(i), currentQuery, currentPage)
      BY ContinuesOthers DEF MoreContinues
    <3> QED BY <2>2, <3>1 DEF MoreContinues
  <2>3. ASSUME NEW r \in Request, inFlight' = Append(Others(i), r),
               r.kind \notin {"search", "more"}, currentQuery' = currentQuery,
               currentPage' = currentPage, crossed' = crossed
        PROVE  MoreContinues'
    <3>1. ~crossed => ContinuesIn(Append(Others(i), r), currentQuery, currentPage)
      BY <2>1, <2>3, ContinuesOthers, ContinuesAppend DEF MoreContinues
    <3> QED BY <2>3, <3>1 DEF MoreContinues
  <2>4. /\ Simple("recs") \in Request /\ Simple("recs").kind \notin {"search", "more"}
        /\ Simple("reload") \in Request /\ Simple("reload").kind \notin {"search", "more"}
    BY SimpleKinds
  <2>5. CASE Resolved(i)
    BY <2>3, <2>4, <2>5 DEF Resolved, search
  <2>6. ASSUME NEW data, RecsAnswered(i, data) PROVE MoreContinues'
    <3>1. crossed => crossed'
      BY <2>6 DEF RecsAnswered, RenderRecommendations
    <3> QED BY <2>2, <2>6, <3>1 DEF RecsAnswered
  <2>7. ASSUME NEW data, Reloaded(i, data) PROVE MoreContinues'
    <3>1. CASE searchInput = None
      BY <1>3, <2>7, <3>1 DEF Reloaded, RenderEmpty, RenderRecommendations, Uncached
    <3>2. CASE searchInput # None
      BY <2>2, <2>7, <3>2 DEF Reloaded, search
    <3> QED BY <3>1, <3>2
  <2>8. CASE RecsFailed(i)
    BY <2>2, <2>8 DEF RecsFailed, search
  <2>9. ASSUME NEW refused \in BOOLEAN, SearchAnswered(i, refused) PROVE MoreContinues'
    <3>1. crossed => crossed'
      BY <2>9 DEF SearchAnswered
    <3> QED BY <2>2, <2>9, <3>1 DEF SearchAnswered
  <2>10. CASE SearchFailed(i)
    BY <1>3, <2>10 DEF SearchFailed
  <2>11. CASE MoreAnswered(i)
    BY <1>1, <2>11, NothingToContinue DEF MoreAnswered
  <2>12. CASE MoreFailed(i)
    BY <2>2, <2>12 DEF MoreFailed, search
  <2>13. CASE Toggled(i)
    <3>1. CASE searchInput # None
      BY <1>3, <2>13, <3>1 DEF Toggled, DoSearch
    <3>2. CASE searchInput = None
      BY <2>2, <2>13, <3>2 DEF Toggled, search
    <3> QED BY <3>1, <3>2
  <2>14. CASE Reset(i)
    BY <2>2, <2>3, <2>4, <2>14 DEF Reset, search
  <2> QED
    BY <1>12, <2>5, <2>6, <2>7, <2>8, <2>9, <2>10, <2>11, <2>12, <2>13, <2>14
    DEF Answered
<1>13. CASE UNCHANGED vars
  BY <1>2, <1>13 DEF vars, search, history
<1> QED
  BY <1>5, <1>6, <1>7, <1>8, <1>9, <1>10, <1>11, <1>12, <1>13
  DEF Next, Progress, Click, Enter

\* The answer to a loadMore that nothing crossed, when none is overtaken: no search is out,
\* and what it shows is the page after the last.
LEMMA NextPageAnswer ==
    ASSUME PagesInv, NEW i \in DOMAIN inFlight, MoreAnswered(i), ~overtaken', ~crossed'
    PROVE  LET items == Page(inFlight[i].query, inFlight[i].page) IN
           /\ ~Sent("search") /\ ~overtaken /\ ~crossed
           /\ isLoadingMore
           /\ inFlight[i].page = currentPage + 1
           /\ items \in Seq(Item)
           /\ items # <<>> =>
                /\ items = <<[query |-> currentQuery, page |-> currentPage + 1]>>
                /\ currentPage = Len(lastResults)
<1> DEFINE items == Page(inFlight[i].query, inFlight[i].page)
<1>1. inFlight[i] \in Request /\ inFlight[i].kind = "more" /\ Answer(i, "more")
  BY DEF MoreAnswered, Answer, PagesInv, TypeOK
<1>2. inFlight[i].query \in Query \union {None} /\ inFlight[i].page \in Nat \ {0}
  BY <1>1 DEF Request
<1>3. ~overtaken /\ ~crossed
      /\ \A j \in 1..(i - 1) : inFlight[j].kind \notin Ordered
  BY <1>1 DEF MoreAnswered, Answer, Received, Ordered
<1>4. inFlight[i].query = currentQuery /\ inFlight[i].page = currentPage + 1
      /\ NoSearchAfter(inFlight, i)
  BY <1>1, <1>3 DEF PagesInv, MoreContinues, ContinuesIn
<1>5. ~Sent("search")
  <2> SUFFICES ASSUME NEW j \in DOMAIN inFlight, inFlight[j].kind = "search"
               PROVE  FALSE
    BY DEF Sent
  <2>1. /\ Len(inFlight) \in Nat /\ i \in 1..Len(inFlight) /\ j \in 1..Len(inFlight)
    BY DEF PagesInv, TypeOK
  <2>2. j < i
    BY <1>1, <1>4, <2>1 DEF NoSearchAfter
  <2>3. j \in 1..(i - 1)
    BY <2>1, <2>2
  <2> QED BY <1>3, <2>3 DEF Ordered
<1>6. isLoadingMore
  BY <1>1 DEF PagesInv, OneMore, Sent
<1>7. /\ items \in Seq(Item)
      /\ items # <<>> => /\ items = <<[query |-> currentQuery, page |-> currentPage + 1]>>
                         /\ currentQuery \in Query /\ currentPage + 1 <= Total[currentQuery]
  BY <1>2, <1>4, PageFacts
<1>8. ASSUME items # <<>> PROVE currentPage = Len(lastResults)
  <2>1. currentQuery # None /\ Total[currentQuery] \in Nat /\ currentPage \in Nat
    BY <1>7, <1>8, FrontendAssumption DEF PagesInv, TypeOK
  <2>2. ~(Total[currentQuery] <= currentPage)
    BY <1>7, <1>8, <2>1
  <2> QED BY <1>3, <1>5, <1>6, <2>1, <2>2 DEF PagesInv, NextPageContinues
<1> QED BY <1>3, <1>4, <1>5, <1>6, <1>7, <1>8

\* What is left to show when the list, its page and what grows it are as they were.
LEMMA PagesStutter ==
    ASSUME PagesInv, UNCHANGED <<currentQuery, currentPage, lastResults>>,
           overtaken => overtaken', crossed => crossed',
           Sent("search")' <=> Sent("search"),
           sentinel' \/ isLoadingMore' => sentinel \/ isLoadingMore
    PROVE  FirstPage' /\ NextPageContinues' /\ PagesInOrder'
<1>1. FirstPage'
  BY DEF PagesInv, FirstPage
<1>2. NextPageContinues'
  BY DEF PagesInv, NextPageContinues
<1>3. PagesInOrder'
  BY DEF PagesInv, PagesInOrder
<1> QED BY <1>1, <1>2, <1>3

LEMMA RenderingPages ==
    ASSUME TypeOK, NEW data, RenderRecommendations(data)
    PROVE  PagesInOrder'
<1>1. lastResults' = <<[query |-> Recs, page |-> 1]>> \/ lastResults' = <<>>
  BY DEF RenderRecommendations
<1>2. \A k \in DOMAIN lastResults' : lastResults'[k].page = k
  BY <1>1
<1> QED BY <1>2 DEF PagesInOrder

LEMMA EmptyPages ==
    ASSUME TypeOK, NEW data, RenderEmpty(data)
    PROVE  FirstPage' /\ NextPageContinues' /\ PagesInOrder'
<1>1. PagesInOrder'
  BY RenderingPages DEF RenderEmpty
<1>2. currentPage' = 1 /\ currentQuery' = None
  BY DEF RenderEmpty
<1> QED BY <1>1, <1>2 DEF FirstPage, NextPageContinues

LEMMA SearchPages ==
    ASSUME PagesInv, NEW q \in Query, NEW others \in Seq(Request), DoSearch(q, others),
           overtaken => overtaken'
    PROVE  FirstPage' /\ NextPageContinues' /\ PagesInOrder'
<1>1. Sent("search")'
  BY SearchIsSent DEF PagesInv
<1>2. currentPage' = 1 /\ lastResults' = lastResults
      /\ (crossed => crossed') /\ (overtaken => overtaken')
  BY DEF DoSearch
<1> QED BY <1>1, <1>2 DEF PagesInv, FirstPage, NextPageContinues, PagesInOrder

LEMMA OtherKindsStay ==
    ASSUME TypeOK
    PROVE  /\ inFlight' = inFlight => (Sent("search")' <=> Sent("search"))
           /\ \A r \in Request : r.kind # "search" /\ inFlight' = Append(inFlight, r)
                => (Sent("search")' <=> Sent("search"))
           /\ \A i \in DOMAIN inFlight : inFlight[i].kind # "search" =>
                /\ inFlight' = Others(i) => (Sent("search")' <=> Sent("search"))
                /\ \A r \in Request :
                      r.kind # "search" /\ inFlight' = Append(Others(i), r)
                        => (Sent("search")' <=> Sent("search"))
<1>1. inFlight \in Seq(Request)
  BY DEF TypeOK
<1>2. inFlight' = inFlight => (Sent("search")' <=> Sent("search"))
  BY DEF Sent
<1>3. ASSUME NEW r \in Request, r.kind # "search", inFlight' = Append(inFlight, r)
      PROVE  Sent("search")' <=> Sent("search")
  <2>1. Has(Append(inFlight, r), "search") <=> Has(inFlight, "search")
    BY <1>1, <1>3, HasAppend
  <2> QED BY <1>3, <2>1, SentIsHas
<1>4. ASSUME NEW i \in DOMAIN inFlight, inFlight[i].kind # "search"
      PROVE  /\ Has(Others(i), "search") <=> Has(inFlight, "search")
             /\ Others(i) \in Seq(Request)
  BY <1>4, HasOthers, OthersFacts
<1>5. ASSUME NEW i \in DOMAIN inFlight, inFlight[i].kind # "search",
             inFlight' = Others(i)
      PROVE  Sent("search")' <=> Sent("search")
  BY <1>4, <1>5, SentIsHas
<1>6. ASSUME NEW i \in DOMAIN inFlight, inFlight[i].kind # "search",
             NEW r \in Request, r.kind # "search", inFlight' = Append(Others(i), r)
      PROVE  Sent("search")' <=> Sent("search")
  <2>1. Has(Append(Others(i), r), "search") <=> Has(inFlight, "search")
    BY <1>4, <1>6, HasAppend
  <2> QED BY <1>6, <2>1, SentIsHas
<1> QED BY <1>2, <1>3, <1>5, <1>6

LEMMA PagesStep == PagesInv /\ [Next]_vars => PagesInv'
<1> SUFFICES ASSUME PagesInv, [Next]_vars
             PROVE  FirstPage' /\ NextPageContinues' /\ PagesInOrder'
  BY TypeStep, OneMoreStep, AskedStep, MoreStep DEF PagesInv
<1> DEFINE Goal == FirstPage' /\ NextPageContinues' /\ PagesInOrder'
<1>1. TypeOK /\ inFlight \in Seq(Request)
  BY DEF PagesInv, TypeOK
<1>2. ASSUME UNCHANGED <<currentQuery, currentPage, lastResults>>,
             overtaken => overtaken', crossed => crossed',
             Sent("search")' <=> Sent("search"),
             sentinel' \/ isLoadingMore' => sentinel \/ isLoadingMore
      PROVE  Goal
  BY <1>2, PagesStutter
<1>3. inFlight' = inFlight => (Sent("search")' <=> Sent("search"))
  BY <1>1, OtherKindsStay
<1>4. ASSUME NEW q \in Query, Type(q) PROVE Goal
  BY <1>2, <1>3, <1>4 DEF Type, search, screen, history
<1>5. CASE Erase \/ Clear
  <2>1. RenderEmpty(cached)
    BY <1>5 DEF Erase, Clear
  <2> QED BY <1>1, <2>1, EmptyPages
<1>6. CASE TimerFires
  <2>1. DoSearch(debounceTimer, inFlight) /\ debounceTimer \in Query
        /\ overtaken' = overtaken
    BY <1>1, <1>6 DEF TimerFires, TypeOK
  <2> QED BY <1>1, <2>1, SearchPages
<1>7. CASE LoadMore
  <2> DEFINE r == [kind |-> "more", query |-> currentQuery, page |-> currentPage + 1]
  <2>1. r \in Request /\ r.kind # "search"
    BY <1>1 DEF Request, TypeOK
  <2>2. inFlight' = Append(inFlight, r)
    BY <1>7 DEF LoadMore
  <2> HIDE DEF r
  <2>3. Sent("search")' <=> Sent("search")
    BY <1>1, <2>1, <2>2, OtherKindsStay
  <2>4. sentinel /\ UNCHANGED <<currentQuery, currentPage, lastResults, overtaken, crossed>>
    BY <1>7 DEF LoadMore, search, history
  <2> QED BY <1>2, <2>3, <2>4
<1>8. ASSUME NEW down \in BOOLEAN, Arrow(down) PROVE Goal
  BY <1>2, <1>3, <1>8 DEF Arrow, NoSelection, history
<1>9. ASSUME NEW i, SelectResult(i) PROVE Goal
  BY <1>2, <1>3, <1>9 DEF SelectResult, NoSelection, history
<1>10. ASSUME NEW kind \in {"toggle", "reset"}, Ask(kind) PROVE Goal
  <2>1. Simple(kind) \in Request /\ Simple(kind).kind # "search"
        /\ inFlight' = Append(inFlight, Simple(kind))
    BY <1>10, SimpleKinds DEF Ask
  <2>2. Sent("search")' <=> Sent("search")
    BY <1>1, <2>1, OtherKindsStay
  <2> QED BY <1>2, <1>10, <2>2 DEF Ask, search, screen, history
<1>11. ASSUME NEW i \in DOMAIN inFlight, Answered(i) PROVE Goal
  <2>1. ASSUME NEW kind, Answer(i, kind)
        PROVE  inFlight[i].kind = kind /\ (overtaken => overtaken')
    BY <2>1 DEF Answer, Received
  <2>2. ASSUME NEW kind, Answer(i, kind), kind # "search", NEW r \in Request,
               r.kind # "search",
               inFlight' = Others(i) \/ inFlight' = Append(Others(i), r)
        PROVE  Sent("search")' <=> Sent("search")
    BY <1>1, <2>1, <2>2, OtherKindsStay
  <2>3. /\ Simple("recs") \in Request /\ Simple("recs").kind # "search"
        /\ Simple("reload") \in Request /\ Simple("reload").kind # "search"
    BY SimpleKinds
  <2>4. ASSUME NEW kind, Answer(i, kind), kind # "search", NEW r \in Request,
               r.kind # "search",
               inFlight' = Others(i) \/ inFlight' = Append(Others(i), r),
               UNCHANGED <<currentQuery, currentPage, lastResults>>, crossed => crossed',
               sentinel' \/ isLoadingMore' => sentinel \/ isLoadingMore
        PROVE  Goal
    BY <1>2, <2>1, <2>2, <2>4
  <2>5. CASE Resolved(i)
    BY <2>3, <2>4, <2>5 DEF Resolved, search, screen
  <2>6. ASSUME NEW data, RecsAnswered(i, data) PROVE Goal
    <3>1. CASE searchInput = None
      <4>1. RenderRecommendations(data) /\ Answer(i, "recs") /\ inFlight' = Others(i)
            /\ currentPage' = currentPage /\ isLoadingMore' = isLoadingMore
        BY <2>6, <3>1 DEF RecsAnswered, Uncached
      <4>2. Sent("search")' <=> Sent("search")
        BY <2>2, <2>3, <4>1
      <4>3. overtaken => overtaken'
        BY <2>1, <4>1
      <4>4. (crossed => crossed') /\ ~sentinel' /\ (isLoadingMore' => crossed')
        BY <4>1 DEF RenderRecommendations
      <4>5. FirstPage'
        BY <4>1, <4>2, <4>3, <4>4 DEF FirstPage, PagesInv
      <4>6. NextPageContinues'
        BY <4>4 DEF NextPageContinues
      <4> QED BY <1>1, <4>1, <4>5, <4>6, RenderingPages
    <3>2. CASE searchInput # None
      BY <2>3, <2>4, <2>6, <3>2 DEF RecsAnswered, Uncached, screen
    <3> QED BY <3>1, <3>2
  <2>7. ASSUME NEW data, Reloaded(i, data) PROVE Goal
    <3>1. CASE searchInput = None
      BY <1>1, <2>7, <3>1, EmptyPages DEF Reloaded
    <3>2. CASE searchInput # None
      BY <2>3, <2>4, <2>7, <3>2 DEF Reloaded, Uncached, search, screen
    <3> QED BY <3>1, <3>2
  <2>8. CASE RecsFailed(i)
    BY <2>3, <2>4, <2>8 DEF RecsFailed, Uncached, search, screen
  <2>9. ASSUME NEW refused \in BOOLEAN, SearchAnswered(i, refused) PROVE Goal
    <3> DEFINE q == inFlight[i].query
               items == Page(q, 1)
    <3>1. inFlight[i] \in Request /\ inFlight[i].kind = "search" /\ Answer(i, "search")
          /\ inFlight' = Others(i)
      BY <1>1, <2>9 DEF SearchAnswered, Answer, TypeOK
    <3>2. q \in Query
      BY <3>1 DEF Request
    <3>3. /\ items \in Seq(Item)
          /\ items # <<>> => items = <<[query |-> q, page |-> 1]>>
          /\ items = <<>> => ~(1 <= Total[q])
          /\ Total[q] \in Nat
      BY <3>2, PageFacts, FrontendAssumption
    <3>4. /\ currentPage' = currentPage /\ currentQuery' = currentQuery
          /\ isLoadingMore' = isLoadingMore
          /\ crossed => crossed'
          /\ refused /\ isLoadingMore => crossed'
          /\ refused => lastResults' = <<>> /\ sentinel' = (Len(<<>>) < 0)
          /\ ~refused => lastResults' = items
      BY <2>9 DEF SearchAnswered
    <3>5. overtaken => overtaken'
      BY <2>1, <3>1
    <3>6. Sent("search")
      BY <3>1 DEF Sent
    <3>7. PagesInOrder'
      <4>1. lastResults' = <<>> \/ lastResults' = <<[query |-> q, page |-> 1]>>
        BY <3>3, <3>4
      <4>2. \A k \in DOMAIN lastResults' : lastResults'[k].page = k
        BY <4>1
      <4> QED BY <4>2 DEF PagesInOrder
    <3>8. ~overtaken' /\ ~crossed' => currentPage' = 1
      BY <3>4, <3>5, <3>6 DEF PagesInv, FirstPage
    <3>9. FirstPage'
      BY <3>8 DEF FirstPage
    <3>10. NextPageContinues'
      <4> SUFFICES ASSUME ~overtaken', ~crossed', ~Sent("search")',
                          sentinel' \/ isLoadingMore', currentQuery # None
                   PROVE  \/ currentPage' = Len(lastResults')
                          \/ Total[currentQuery] <= currentPage'
        BY <3>4 DEF NextPageContinues
      <4>1. ~refused
        <5>1. ~(Len(<<>>) < 0)
          OBVIOUS
        <5> QED BY <3>4, <5>1
      <4>2. q = currentQuery
        BY <1>1, <3>1, LastAnswer DEF PagesInv
      <4>3. CASE items = <<>>
        BY <3>3, <3>8, <4>2, <4>3
      <4>4. CASE items # <<>>
        <5>1. Len(lastResults') = 1
          BY <3>3, <3>4, <4>1, <4>4
        <5> QED BY <3>8, <5>1
      <4> QED BY <4>3, <4>4
    <3> QED BY <3>7, <3>9, <3>10
  <2>10. CASE SearchFailed(i)
    <3>1. Answer(i, "search") /\ inFlight[i].kind = "search"
      BY <2>10 DEF SearchFailed, Answer
    <3>2. Sent("search") /\ (overtaken => overtaken')
      BY <2>1, <3>1 DEF Sent
    <3>3. /\ UNCHANGED <<currentPage, lastResults, isLoadingMore>>
          /\ ~sentinel' /\ (crossed => crossed') /\ (isLoadingMore' => crossed')
      BY <2>10 DEF SearchFailed, search
    <3>4. FirstPage'
      BY <3>2, <3>3 DEF PagesInv, FirstPage
    <3>5. NextPageContinues'
      BY <3>3 DEF NextPageContinues
    <3>6. PagesInOrder'
      BY <3>2, <3>3 DEF PagesInv, PagesInOrder
    <3> QED BY <3>4, <3>5, <3>6
  <2>11. CASE MoreAnswered(i)
    <3> DEFINE items == Page(inFlight[i].query, inFlight[i].page)
    <3>1. Answer(i, "more") /\ inFlight' = Others(i) /\ crossed' = crossed
          /\ currentQuery' = currentQuery
          /\ (items # <<>> => currentPage' = inFlight[i].page
                              /\ lastResults' = lastResults \o items)
          /\ (items = <<>> => UNCHANGED <<currentPage, lastResults>>)
      BY <2>11 DEF MoreAnswered, Show
    <3>2. Sent("search")' <=> Sent("search")
      BY <2>2, <2>3, <3>1
    <3> HIDE DEF items
    <3> SUFFICES ASSUME ~overtaken', ~crossed'
                 PROVE  Goal
      BY DEF FirstPage, NextPageContinues, PagesInOrder
    <3>3. /\ ~Sent("search") /\ ~overtaken /\ ~crossed /\ isLoadingMore
          /\ inFlight[i].page = currentPage + 1
          /\ items \in Seq(Item)
          /\ items # <<>> =>
                /\ items = <<[query |-> currentQuery, page |-> currentPage + 1]>>
                /\ currentPage = Len(lastResults)
      BY <2>11, NextPageAnswer DEF items
    <3>4. FirstPage'
      BY <3>2, <3>3 DEF FirstPage
    <3>5. CASE items = <<>>
      <4>1. NextPageContinues' /\ PagesInOrder'
        BY <3>1, <3>3, <3>5 DEF PagesInv, NextPageContinues, PagesInOrder
      <4> QED BY <3>4, <4>1
    <3>6. CASE items # <<>>
      <4>1. lastResults \in Seq(Item) /\ Len(lastResults) \in Nat
            /\ DOMAIN lastResults = 1..Len(lastResults)
        BY <1>1 DEF TypeOK
      <4>2. Len(items) = 1 /\ items[1].page = Len(lastResults) + 1
        BY <3>3, <3>6
      <4>3. /\ Len(lastResults') = Len(lastResults) + 1
            /\ DOMAIN lastResults' = 1..(Len(lastResults) + 1)
            /\ \A k \in 1..(Len(lastResults) + 1) :
                  lastResults'[k] = IF k <= Len(lastResults)
                                    THEN lastResults[k] ELSE items[k - Len(lastResults)]
        <5>1. /\ lastResults \o items \in Seq(Item)
              /\ Len(lastResults \o items) = Len(lastResults) + Len(items)
              /\ \A k \in 1..(Len(lastResults) + Len(items)) :
                    (lastResults \o items)[k]
                        = IF k <= Len(lastResults)
                          THEN lastResults[k] ELSE items[k - Len(lastResults)]
          BY <3>3, <4>1, ConcatProperties
        <5> QED BY <3>1, <3>6, <4>2, <5>1
      <4>4. currentPage' = Len(lastResults')
        BY <3>1, <3>3, <3>6, <4>3
      <4>5. NextPageContinues'
        BY <4>4 DEF NextPageContinues
      <4>6. ASSUME NEW k \in 1..(Len(lastResults) + 1) PROVE lastResults'[k].page = k
        <5>1. CASE k <= Len(lastResults)
          <6>1. k \in DOMAIN lastResults /\ lastResults'[k] = lastResults[k]
            BY <4>1, <4>3, <5>1
          <6> QED BY <3>3, <6>1 DEF PagesInv, PagesInOrder
        <5>2. CASE ~(k <= Len(lastResults))
          <6>1. k = Len(lastResults) + 1 /\ k - Len(lastResults) = 1
            BY <4>1, <5>2
          <6>2. lastResults'[k] = items[1]
            BY <4>3, <5>2, <6>1
          <6> QED BY <4>2, <6>1, <6>2
        <5> QED BY <5>1, <5>2
      <4>7. PagesInOrder'
        BY <4>3, <4>6 DEF PagesInOrder
      <4> QED BY <3>4, <4>5, <4>7
    <3> QED BY <3>5, <3>6
  <2>12. CASE MoreFailed(i)
    <3>1. isLoadingMore
      <4>1. inFlight[i].kind = "more"
        BY <2>12 DEF MoreFailed, Answer
      <4> QED BY <4>1 DEF PagesInv, OneMore, Sent
    <3> QED BY <2>3, <2>4, <2>12, <3>1 DEF MoreFailed, search, screen
  <2>13. CASE Toggled(i)
    <3>1. CASE searchInput # None
      <4>1. /\ searchInput \in Query /\ DoSearch(searchInput, Others(i))
            /\ Others(i) \in Seq(Request) /\ Answer(i, "toggle")
        BY <1>1, <2>13, <3>1, OthersFacts DEF Toggled, TypeOK
      <4>2. overtaken => overtaken'
        BY <2>1, <4>1
      <4> QED BY <4>1, <4>2, SearchPages
    <3>2. CASE searchInput = None
      BY <2>3, <2>4, <2>13, <3>2 DEF Toggled, search, screen
    <3> QED BY <3>1, <3>2
  <2>14. CASE Reset(i)
    BY <2>3, <2>4, <2>14 DEF Reset, Uncached, search, screen
  <2> QED
    BY <1>11, <2>5, <2>6, <2>7, <2>8, <2>9, <2>10, <2>11, <2>12, <2>13, <2>14
    DEF Answered
<1>12. CASE UNCHANGED vars
  BY <1>2, <1>3, <1>12 DEF vars, search, screen, history
<1> QED
  BY <1>4, <1>5, <1>6, <1>7, <1>8, <1>9, <1>10, <1>11, <1>12
  DEF Next, Progress, Click, Enter

LEMMA PagesInit == Init => PagesInv
<1> SUFFICES ASSUME Init PROVE PagesInv
  OBVIOUS
<1>1. /\ ~Sent("search") /\ ~Sent("more") /\ OneMoreIn(inFlight)
      /\ ContinuesIn(inFlight, currentQuery, currentPage)
  BY DEF Init, Sent, Simple, OneMoreIn, ContinuesIn
<1>2. LastAsked /\ NextPageContinues /\ PagesInOrder
  BY DEF Init, LastAsked, NextPageContinues, PagesInOrder
<1> QED
  BY <1>1, <1>2, TypeInit DEF PagesInv, OneMore, MoreContinues, FirstPage

\* Scrolling shows page after page, none skipped and none twice, unless an answer was
\* overtaken or the list was replaced under a loadMore.
THEOREM PagesFollow == Spec => []PagesInOrder
<1>1. PagesInv => PagesInOrder
  BY DEF PagesInv
<1> QED BY <1>1, PagesInit, PagesStep, PTL DEF Spec
=============================================================================
