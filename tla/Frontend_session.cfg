SPECIFICATION FairSpec
CONSTANTS
    q1 = q1
    q2 = q2
    Query <- TwoQueries
    Total <- TwoTotals
    MaxEvents = 5
INVARIANT SelectsWhatItShows
INVARIANT SpinnerMeansWork
INVARIANT RestAnswersTheBox
INVARIANT PagesInOrder
PROPERTY SettlesOnTheBox
CHECK_DEADLOCK FALSE
