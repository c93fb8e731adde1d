------------------------------- MODULE MCApi -------------------------------
(* Instances of Api for TLC. *)
EXTENDS Api

CONSTANTS h1, ip1, ip2

OneHandler == {h1}
TwoIPs == {ip1, ip2}

\* The four keys behave alike: the first stands for the hashes, the other for the list.
TwoReads == <<"countries", "recent">>

Plain == [route |-> "options", query |-> None, forwarded |-> None, remote |-> ip1,
          key |-> None, body |-> None, valid |-> TRUE, filtered |-> FALSE, enabled |-> FALSE]

\* The address from each of its sources; the next one must not count.
FewRequests ==
    {Plain}
    \union { [Plain EXCEPT !.route = "search", !.filtered = f, !.valid = v] :
               f \in BOOLEAN, v \in BOOLEAN }
    \union { [Plain EXCEPT !.route = "reset mine", !.query = q, !.forwarded = ip2] :
               q \in {None, ip1} }
    \union { [Plain EXCEPT !.route = "profile", !.query = q, !.forwarded = ip2] :
               q \in {None, ip1} }
    \union { [Plain EXCEPT !.route = "reset", !.query = q, !.key = k] :
               q \in {None, ip1}, k \in {None, "wrong", "right"} }
    \union { [Plain EXCEPT !.route = "toggle ip", !.body = ip1, !.key = "right", !.enabled = e] :
               e \in BOOLEAN }
    \union { [Plain EXCEPT !.route = "toggle global", !.key = k, !.enabled = e] :
               k \in {"wrong", "right"}, e \in BOOLEAN }
    \union { [Plain EXCEPT !.route = "health"] }
=============================================================================
