----------------------------- MODULE EventLedger -----------------------------
(***************************************************************************)
(* What the personalizer promises, without the loop that does it: each     *)
(* message of the topic is settled (counted into the profile, refused by   *)
(* the profile store with a warning, or of no use) before the group's      *)
(* committed offset passes it.                                             *)
(*                                                                         *)
(* The committed offset of a partition may go back, it may stay behind for *)
(* ever, and a message may be counted again: none of that is promised      *)
(* away.  Personalizer implements this specification.                      *)
(***************************************************************************)
EXTENDS Naturals, Sequences

CONSTANTS
    Partition,  \* partitions of the topic
    Message,    \* what a partition may hold
    Useful      \* the messages that carry a search event worth counting

VARIABLES
    log,        \* log[p]: the messages of partition p, for ever
    committed,  \* committed[p]: how many of them the group has committed
    counted,    \* positions <<p, o>> whose update succeeded
    refused     \* positions whose update came back with an error

ledger == <<log, committed, counted, refused>>

Settled(p, o) ==
    \/ <<p, o>> \in counted
    \/ <<p, o>> \in refused
    \/ log[p][o] \notin Useful

Init ==
    /\ log = [p \in Partition |-> <<>>]
    /\ committed = [p \in Partition |-> 0]
    /\ counted = {}
    /\ refused = {}

Publish(p, m) ==
    /\ log' = [log EXCEPT ![p] = Append(@, m)]
    /\ UNCHANGED <<committed, counted, refused>>

Count(p, o) ==
    /\ o \in 1..Len(log[p])
    /\ counted' = counted \union {<<p, o>>}
    /\ UNCHANGED <<log, committed, refused>>

Refuse(p, o) ==
    /\ o \in 1..Len(log[p])
    /\ refused' = refused \union {<<p, o>>}
    /\ UNCHANGED <<log, committed, counted>>

Commit(p, o) ==
    /\ o \in 1..Len(log[p])
    /\ \A i \in 1..o : Settled(p, i)
    /\ committed' = [committed EXCEPT ![p] = o]
    /\ UNCHANGED <<log, counted, refused>>

Next ==
    \E p \in Partition :
        \/ \E m \in Message : Publish(p, m)
        \/ \E o \in 1..Len(log[p]) : Count(p, o) \/ Refuse(p, o) \/ Commit(p, o)

Spec == Init /\ [][Next]_ledger
=============================================================================
