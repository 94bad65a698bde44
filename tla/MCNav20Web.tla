----------------------------- MODULE MCNav20Web -----------------------------
(***************************************************************************)
(* An instance of Nav20Web: two pages, and two paths for the login form,   *)
(* of which the second is right.                                           *)
(***************************************************************************)
EXTENDS Nav20Web, TLC

CONSTANTS a, b

MCTask == {a, b}
MCPages == {1, 2}

(* A reader, and a task that reads the statistics, sets the clock and      *)
(* closes the client.                                                      *)
MCCalls == (a :> {"read"}) @@ (b :> {"statistics", "clock", "close"})

(* The right PIN, on a firmware that serves the second start page only; a  *)
(* wrong one on a firmware that refuses it in every way.                   *)
ShowsTheForm == [pin |-> TRUE, refusals |-> {"form"}, front |-> {2}, odd |-> FALSE]
WrongPin == [pin |-> FALSE, refusals |-> {"form", "denied"}, front |-> {1}, odd |-> TRUE]
Either == {ShowsTheForm, WrongPin}
=============================================================================
