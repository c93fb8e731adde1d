---------------------------- MODULE MCBulkImport ----------------------------
(* Instances of BulkImport for TLC. *)
EXTENDS BulkImport

CONSTANTS w1, w2, byCountry

TwoWorkers == {w1, w2}
OneIndex == {byCountry}

Flags(truncate, pg, ts) == [truncate |-> truncate, pg |-> pg, ts |-> ts]

\* What the Kubernetes Job passes, and what a person may type: a second import
\* without -truncate, or one store alone.
SomeFlags == { Flags(TRUE, TRUE, TRUE), Flags(FALSE, TRUE, TRUE), Flags(TRUE, FALSE, TRUE),
               Flags(TRUE, TRUE, FALSE) }
=============================================================================
