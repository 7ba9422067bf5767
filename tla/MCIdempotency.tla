---------------------------- MODULE MCIdempotency ----------------------------
(* Two requests at a time, an issue and a comment, with one key.           *)
EXTENDS Idempotency

CONSTANTS c1, c2, k1, k2, issue, comment

TwoClients == {c1, c2}
OneKey == {k1}
TwoRequests == {issue, comment}
IssueOnly == {issue}
=============================================================================
