----------------------------- MODULE FixedWindow -----------------------------
(***************************************************************************)
(* What the rate limiter promises: a client that is served opens a window  *)
(* of Window ticks and is given at most Limit grants before it ends; then  *)
(* the next request opens a new one.  RateLimit implements this.           *)
(***************************************************************************)
EXTENDS Integers

CONSTANTS
    IP,
    Window,  \* length of a window in ticks of the clock
    Limit    \* grants in a window

VARIABLES
    used,  \* used[ip]: grants in the open window
    left   \* left[ip]: ticks until it ends; 0 when no window is open

window == <<used, left>>

Init ==
    /\ used = [ip \in IP |-> 0]
    /\ left = [ip \in IP |-> 0]

\* A request opens a window, and gets its first grant if there is one to get.
Open(ip) ==
    /\ left[ip] = 0
    /\ Window > 0
    /\ left' = [left EXCEPT ![ip] = Window]
    /\ used' = [used EXCEPT ![ip] = IF Limit >= 1 THEN 1 ELSE 0]

Grant(ip) ==
    /\ left[ip] > 0
    /\ used[ip] < Limit
    /\ used' = [used EXCEPT ![ip] = @ + 1]
    /\ UNCHANGED left

Tick ==
    /\ left' = [ip \in IP |-> IF left[ip] > 0 THEN left[ip] - 1 ELSE 0]
    /\ used' = [ip \in IP |-> IF left[ip] > 1 THEN used[ip] ELSE 0]

\* The store loses everything it holds.
Forget ==
    /\ used' = [ip \in IP |-> 0]
    /\ left' = [ip \in IP |-> 0]

Next ==
    \/ \E ip \in IP : Open(ip) \/ Grant(ip)
    \/ Tick
    \/ Forget

Spec == Init /\ [][Next]_window
=============================================================================
