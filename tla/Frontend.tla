------------------------------ MODULE Frontend ------------------------------
(***************************************************************************)
(* The search page (frontend/index.html): one JavaScript thread whose      *)
(* handlers run until they await the network, so that the user and the     *)
(* answers to several requests step in between.  A request remembers what  *)
(* its function had in local variables; nothing else tells an answer which *)
(* search it belongs to.                                                   *)
(*                                                                         *)
(* A page of results is one row, an item is a query and its page, and a    *)
(* query has Total pages.  The recommendations are one item.               *)
(***************************************************************************)
EXTENDS Integers, Sequences, FiniteSets, SequencesExt

CONSTANTS
    Query,      \* what the user types
    Total,      \* Total[q]: results there are for q
    MaxEvents   \* bound: what the user does

None == "none"   \* an empty search box, no timer, no query
Recs == "recs"   \* the recommendations

ASSUME FrontendAssumption ==
    /\ {None, Recs} \cap Query = {}
    /\ Total \in [Query -> Nat]
    /\ MaxEvents \in Nat

VARIABLES
    searchInput,   \* the text in the search box
    debounceTimer, \* the query that waits for DEBOUNCE_MS to pass, or None
    currentQuery, currentPage, currentTotal,
    lastResults,   \* what a click or Enter selects from, by index
    rows,          \* the result rows on the page, with the index a click selects
    marked,        \* the row marked as selected, or 0
    selectedIndex, \* what Enter selects from lastResults, or 0
    sentinel,      \* the scroll sentinel is on the page
    isLoadingMore,
    spinner,
    cached,        \* cachedRecommendations: None, "empty" or Recs
    inFlight,      \* requests, in the order they were sent
    events,        \* what the user has done so far
    overtaken,     \* history: a search or page was answered before an older one
    crossed,       \* history: the rows were replaced while loadMore was in flight
    failed         \* history: a request failed or was refused

search == <<currentQuery, currentPage, currentTotal, lastResults, selectedIndex>>
screen == <<rows, marked, sentinel>>
history == <<overtaken, crossed, failed>>
vars == <<searchInput, debounceTimer, search, screen, isLoadingMore, spinner, cached,
          inFlight, events, history>>

Item == [query : Query \union {Recs}, page : Nat \ {0}]
Request ==
    [kind : {"search"}, query : Query, page : {1}]
        \union [kind : {"more"}, query : Query \union {None}, page : Nat \ {0}]
        \union [kind : {"resolve", "recs", "reload", "toggle", "reset"}, query : {None},
                page : {0}]

Simple(kind) == [kind |-> kind, query |-> None, page |-> 0]

Init ==
    /\ searchInput = None /\ debounceTimer = None
    /\ currentQuery = None /\ currentPage = 1 /\ currentTotal = 0
    /\ lastResults = <<>> /\ rows = <<>> /\ sentinel = FALSE
    /\ marked = 0 /\ selectedIndex = 0
    /\ isLoadingMore = FALSE /\ spinner = FALSE
    /\ cached = None
    /\ inFlight = <<Simple("resolve")>>
    /\ events = 0
    /\ overtaken = FALSE /\ crossed = FALSE /\ failed = FALSE

-----------------------------------------------------------------------------
(* The functions of the page. *)

Sent(kind) == \E i \in DOMAIN inFlight : inFlight[i].kind = kind

\* A user event, within the bound.
Event ==
    /\ events < MaxEvents
    /\ events' = events + 1

\* The rows that show items, the first of them at index start of lastResults.
RowsOf(items, start) == [i \in DOMAIN items |-> [index |-> start + i, item |-> items[i]]]

\* Results of the server: page p of q.
Page(q, p) == IF q \in Query /\ p <= Total[q] THEN <<[query |-> q, page |-> p]>> ELSE <<>>

\* renderRecommendations, with renderEmptyStatic when there are none.
RenderRecommendations(data) ==
    /\ lastResults' = IF data = Recs THEN <<[query |-> Recs, page |-> 1]>> ELSE <<>>
    /\ rows' = RowsOf(lastResults', 0)
    /\ marked' = 0 /\ sentinel' = FALSE
    /\ crossed' = (crossed \/ isLoadingMore)

RenderEmpty(data) ==
    /\ RenderRecommendations(data)
    /\ currentPage' = 1 /\ currentTotal' = 0 /\ currentQuery' = None
    /\ selectedIndex' = 0

\* What if a new search went on counting pages?
DoSearchSamePage(q, others) ==
    /\ currentQuery' = q
    /\ UNCHANGED currentPage
    /\ rows' = <<>> /\ marked' = 0 /\ sentinel' = FALSE
    /\ spinner' = TRUE
    /\ inFlight' = Append(others, [kind |-> "search", query |-> q, page |-> 1])
    /\ crossed' = (crossed \/ isLoadingMore)
    /\ UNCHANGED <<currentTotal, lastResults, selectedIndex>>
\* doSearch up to its await; others are the requests in flight.
DoSearch(q, others) ==
    /\ currentQuery' = q
    /\ currentPage' = 1
    /\ rows' = <<>> /\ marked' = 0 /\ sentinel' = FALSE
    /\ spinner' = TRUE
    /\ inFlight' = Append(others, [kind |-> "search", query |-> q, page |-> 1])
    /\ crossed' = (crossed \/ isLoadingMore)
    /\ UNCHANGED <<currentTotal, lastResults, selectedIndex>>

-----------------------------------------------------------------------------
(* The user and the timer. *)

\* The input event.  Emptying the box stops the timer and leaves the spinner.
Type(q) ==
    /\ Event
    /\ searchInput' = q
    /\ debounceTimer' = q
    /\ spinner' = TRUE
    /\ UNCHANGED <<search, screen, isLoadingMore, cached, inFlight, history>>

Erase ==
    /\ Event
    /\ searchInput' = None
    /\ debounceTimer' = None
    /\ RenderEmpty(cached)
    /\ UNCHANGED <<isLoadingMore, spinner, cached, inFlight, overtaken, failed>>

\* The clear button, which shows when the box holds something and the spinner is off;
\* the timer stays.
Clear ==
    /\ Event
    /\ searchInput # None
    /\ ~spinner
    /\ searchInput' = None
    /\ RenderEmpty(cached)
    /\ UNCHANGED <<debounceTimer, isLoadingMore, spinner, cached, inFlight, overtaken, failed>>

\* What if the timer gave way to a search under way?
TimerGivesWay ==
    /\ debounceTimer # None
    /\ debounceTimer' = None
    /\ IF Sent("search")
       THEN UNCHANGED <<search, screen, spinner, inFlight, crossed>>
       ELSE DoSearch(debounceTimer, inFlight)
    /\ UNCHANGED <<searchInput, isLoadingMore, cached, events, overtaken, failed>>
TimerFires ==
    /\ debounceTimer # None
    /\ debounceTimer' = None
    /\ DoSearch(debounceTimer, inFlight)
    /\ UNCHANGED <<searchInput, isLoadingMore, cached, events, overtaken, failed>>

\* The user scrolls to the sentinel: loadMore up to its await.
LoadMore ==
    /\ Event
    /\ sentinel
    /\ ~isLoadingMore
    /\ isLoadingMore' = TRUE
    /\ inFlight' = Append(inFlight, [kind |-> "more", query |-> currentQuery,
                                     page |-> currentPage + 1])
    /\ UNCHANGED <<searchInput, debounceTimer, search, screen, spinner, cached, history>>

NoSelection == <<searchInput, debounceTimer, currentQuery, currentPage, currentTotal, lastResults,
                 rows, sentinel, isLoadingMore, spinner, cached, inFlight, history>>

\* The row marked when that index is selected; a list may have fewer rows.
MarkedAt(i) == IF i <= Len(rows) THEN i ELSE 0

\* The arrow keys move over the rows of the page.
Arrow(down) ==
    /\ Event
    /\ rows # <<>>
    /\ selectedIndex' = IF down THEN Min({selectedIndex + 1, Len(rows)})
                               ELSE Max({selectedIndex - 1, 1})
    /\ marked' = MarkedAt(selectedIndex')
    /\ UNCHANGED NoSelection

\* selectResult: the place at that index of lastResults is shown on the map and posted as
\* a click; the row at that position is marked.
SelectResult(i) ==
    /\ Event
    /\ i \in DOMAIN lastResults
    /\ selectedIndex' = i
    /\ marked' = MarkedAt(i)
    /\ UNCHANGED NoSelection

Click(i) == i \in DOMAIN rows /\ SelectResult(rows[i].index)
Enter == rows # <<>> /\ SelectResult(selectedIndex)

\* The personalization toggle and the button that clears the history.
Ask(kind) ==
    /\ Event
    /\ kind \in {"toggle", "reset"}
    /\ kind = "reset" => ~Sent("reset")
    /\ inFlight' = Append(inFlight, Simple(kind))
    /\ UNCHANGED <<searchInput, debounceTimer, search, screen, isLoadingMore, spinner,
                   cached, history>>

-----------------------------------------------------------------------------
(* Answers, in any order. *)

Ordered == {"search", "more"}

Received(i) ==
    overtaken' = (\/ overtaken
                  \/ /\ inFlight[i].kind \in Ordered
                     /\ \E j \in 1..(i - 1) : inFlight[j].kind \in Ordered)

Others(i) == RemoveAt(inFlight, i)

Answer(i, kind) ==
    /\ i \in DOMAIN inFlight
    /\ inFlight[i].kind = kind
    /\ Received(i)

\* resolveIP, answered or not, then loadRecommendations.
Resolved(i) ==
    /\ Answer(i, "resolve")
    /\ inFlight' = Append(Others(i), Simple("recs"))
    /\ UNCHANGED <<searchInput, debounceTimer, search, screen, isLoadingMore, spinner, cached,
                   events, crossed, failed>>

Uncached == <<searchInput, debounceTimer, isLoadingMore, spinner, events>>

\* What if the recommendations were shown whatever the box holds?
RecsAnsweredAlways(i, data) ==
    /\ Answer(i, "recs")
    /\ data \in {Recs, "empty"}
    /\ inFlight' = Others(i)
    /\ cached' = data
    /\ RenderRecommendations(data)
    /\ selectedIndex' = IF data = Recs THEN 0 ELSE selectedIndex
    /\ UNCHANGED <<Uncached, currentQuery, currentPage, currentTotal, failed>>
\* loadRecommendations; they are shown when the box is empty.
RecsAnswered(i, data) ==
    /\ Answer(i, "recs")
    /\ data \in {Recs, "empty"}
    /\ inFlight' = Others(i)
    /\ cached' = data
    /\ IF searchInput = None
       THEN /\ RenderRecommendations(data)
            /\ selectedIndex' = IF data = Recs THEN 0 ELSE selectedIndex
       ELSE UNCHANGED <<lastResults, selectedIndex, screen, crossed>>
    /\ UNCHANGED <<Uncached, currentQuery, currentPage, currentTotal, failed>>

RecsFailed(i) ==
    /\ Answer(i, "recs")
    /\ inFlight' = Others(i)
    /\ failed' = TRUE
    /\ UNCHANGED <<Uncached, search, screen, cached, crossed>>

\* The same after a reset of the history, when renderEmpty follows, whether the
\* recommendations came or not.
Reloaded(i, data) ==
    /\ Answer(i, "reload")
    /\ inFlight' = Others(i)
    /\ \/ data \in {Recs, "empty"} /\ UNCHANGED failed
       \/ data = cached /\ failed' = TRUE
    /\ cached' = data
    /\ IF searchInput = None
       THEN RenderEmpty(data)
       ELSE UNCHANGED <<search, screen, crossed>>
    /\ UNCHANGED Uncached

\* appendResults.
Show(items) ==
    /\ lastResults' = lastResults \o items
    /\ rows' = rows \o RowsOf(items, Len(lastResults))
    /\ sentinel' = (Len(lastResults') < currentTotal)
    /\ UNCHANGED <<marked, selectedIndex>>

\* What if new results kept the selection?
MarkOnly == marked' = 0 /\ UNCHANGED selectedIndex
Unselected == marked' = 0 /\ selectedIndex' = 0

\* doSearch after its await; an answer that is not a 200 has no results.
SearchAnswered(i, refused) ==
    /\ Answer(i, "search")
    /\ inFlight' = Others(i)
    /\ lastResults' = IF refused THEN <<>> ELSE Page(inFlight[i].query, 1)
    /\ currentTotal' = IF refused THEN 0 ELSE Total[inFlight[i].query]
    /\ rows' = RowsOf(lastResults', 0)
    /\ Unselected
    /\ sentinel' = (Len(lastResults') < currentTotal')
    /\ spinner' = FALSE
    /\ failed' = (failed \/ refused)
    /\ crossed' = (crossed \/ (refused /\ isLoadingMore))
    /\ UNCHANGED <<currentQuery, currentPage, searchInput, debounceTimer, isLoadingMore, cached,
                   events>>

\* What if only an answer stopped the spinner?
SearchFailedSpinning(i) ==
    /\ Answer(i, "search")
    /\ inFlight' = Others(i)
    /\ rows' = <<>> /\ marked' = 0 /\ sentinel' = FALSE
    /\ failed' = TRUE
    /\ crossed' = (crossed \/ isLoadingMore)
    /\ UNCHANGED <<search, searchInput, debounceTimer, isLoadingMore, cached, events,
                   spinner>>
\* renderError leaves lastResults.
SearchFailed(i) ==
    /\ Answer(i, "search")
    /\ inFlight' = Others(i)
    /\ rows' = <<>> /\ marked' = 0 /\ sentinel' = FALSE
    /\ spinner' = FALSE
    /\ failed' = TRUE
    /\ crossed' = (crossed \/ isLoadingMore)
    /\ UNCHANGED <<search, searchInput, debounceTimer, isLoadingMore, cached, events>>

\* loadMore after its await.
MoreAnswered(i) ==
    LET items == Page(inFlight[i].query, inFlight[i].page) IN
    /\ Answer(i, "more")
    /\ inFlight' = Others(i)
    /\ isLoadingMore' = FALSE
    /\ IF items # <<>>
       THEN currentPage' = inFlight[i].page /\ Show(items)
       ELSE UNCHANGED <<currentPage, lastResults, selectedIndex, screen>>
    /\ UNCHANGED <<currentQuery, currentTotal, searchInput, debounceTimer, spinner, cached,
                   events, crossed, failed>>

\* It fails, or the answer is not a 200 and has no results.
MoreFailed(i) ==
    /\ Answer(i, "more")
    /\ inFlight' = Others(i)
    /\ isLoadingMore' = FALSE
    /\ failed' = TRUE
    /\ UNCHANGED <<search, screen, searchInput, debounceTimer, spinner, cached, events, crossed>>

\* The toggle was set, or not: search again for what the box holds now.
Toggled(i) ==
    /\ Answer(i, "toggle")
    /\ IF searchInput # None
       THEN DoSearch(searchInput, Others(i))
       ELSE inFlight' = Others(i) /\ UNCHANGED <<search, screen, spinner, crossed>>
    /\ UNCHANGED <<searchInput, debounceTimer, isLoadingMore, cached, events, failed>>

\* The history is cleared: load the recommendations anew.
Reset(i) ==
    /\ Answer(i, "reset")
    /\ \/ inFlight' = Append(Others(i), Simple("reload")) /\ UNCHANGED failed
       \/ inFlight' = Others(i) /\ failed' = TRUE
    /\ UNCHANGED <<Uncached, search, screen, cached, crossed>>

-----------------------------------------------------------------------------

Answered(i) ==
    \/ Resolved(i)
    \/ \E data \in {None, "empty", Recs} : RecsAnswered(i, data) \/ Reloaded(i, data)
    \/ RecsFailed(i)
    \/ \E refused \in BOOLEAN : SearchAnswered(i, refused)
    \/ SearchFailed(i) \/ MoreAnswered(i) \/ MoreFailed(i)
    \/ Toggled(i) \/ Reset(i)

\* What the page and the network do on their own.
Progress == TimerFires \/ \E i \in DOMAIN inFlight : Answered(i)

Next ==
    \/ \E q \in Query : Type(q)
    \/ Erase \/ Clear \/ LoadMore \/ Enter
    \/ \E down \in BOOLEAN : Arrow(down)
    \/ \E i \in DOMAIN rows : Click(i)
    \/ \E kind \in {"toggle", "reset"} : Ask(kind)
    \/ Progress

Spec == Init /\ [][Next]_vars

\* Timers fire, and the browser answers or fails every request in the end.
FairSpec == Spec /\ WF_vars(Progress)

-----------------------------------------------------------------------------
(* Properties. *)

TypeOK ==
    /\ searchInput \in Query \union {None}
    /\ debounceTimer \in Query \union {None}
    /\ currentQuery \in Query \union {None}
    /\ currentPage \in Nat \ {0} /\ currentTotal \in Nat
    /\ lastResults \in Seq(Item)
    /\ rows \in Seq([index : Nat \ {0}, item : Item])
    /\ marked \in 0..Len(rows) /\ selectedIndex \in Nat
    /\ sentinel \in BOOLEAN /\ isLoadingMore \in BOOLEAN /\ spinner \in BOOLEAN
    /\ cached \in {None, "empty", Recs}
    /\ inFlight \in Seq(Request)
    /\ events \in 0..MaxEvents
    /\ overtaken \in BOOLEAN /\ crossed \in BOOLEAN /\ failed \in BOOLEAN

\* What is selected, and posted as a click, is what the row shows, whatever answers
\* arrived late, twice or never: for the mouse every row is where its index says in
\* lastResults, and for Enter the place at selectedIndex is the marked row's, unless
\* the rows were replaced while loadMore was in flight.
SelectsWhatItShows ==
    /\ \A i \in DOMAIN rows :
         /\ rows[i].index \in DOMAIN lastResults
         /\ lastResults[rows[i].index] = rows[i].item
    /\ rows # <<>> /\ selectedIndex > 0 /\ ~crossed =>
         /\ marked \in DOMAIN rows
         /\ lastResults[selectedIndex] = rows[marked].item

\* The spinner turns only while something is going on, or over an empty box.
SpinnerMeansWork ==
    spinner => debounceTimer # None \/ Sent("search") \/ searchInput = None

AtRest == debounceTimer = None /\ inFlight = <<>>

\* When all is quiet the rows answer the text in the box, unless an answer was
\* overtaken by a later one or a request failed.
RestAnswersTheBox ==
    AtRest /\ ~overtaken /\ ~failed /\ searchInput # None
        => /\ \A i \in DOMAIN rows : rows[i].item.query = searchInput
           /\ rows = <<>> => Total[searchInput] = 0

\* Scrolling neither skips a page nor shows one twice, unless answers were overtaken,
\* or a new search, its failure or the recommendations came between loadMore and its
\* answer.
PagesInOrder ==
    ~overtaken /\ ~crossed => \A i \in DOMAIN lastResults : lastResults[i].page = i

\* In the end every answer is in and the text in the box is the query that was
\* searched for: no keystroke is lost to the debouncing.
SettlesOnTheBox ==
    <>[](AtRest /\ (searchInput # None => currentQuery = searchInput))
=============================================================================
