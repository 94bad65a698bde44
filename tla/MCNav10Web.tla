----------------------------- MODULE MCNav10Web -----------------------------
(***************************************************************************)
(* Instance of Nav10Web: a task that connects and reads, and one that      *)
(* saves and closes the client, so that every pair of a connect, a         *)
(* request, and a close() can meet.                                        *)
(***************************************************************************)
EXTENDS Nav10Web, TLC

CONSTANTS a, b, s1, s2, s3

MCTask == {a, b}
MCSock == {s1, s2, s3}
MCCalls == (a :> {"connect", "read"}) @@ (b :> {"save", "close"})
=============================================================================
