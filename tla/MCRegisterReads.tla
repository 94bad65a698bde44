--------------------------- MODULE MCRegisterReads ---------------------------
(* Instances of RegisterReads for TLC: three adjacent registers, of which  *)
(* one is sound, one fails now and then and one does not exist.            *)
EXTENDS RegisterReads, TLC

CONSTANTS coordinator, diagnostics

OnePoller == {coordinator}
TwoPollers == {coordinator, diagnostics}
PollerSymmetry == Permutations(TwoPollers)
Block == 1 .. 3
Failing == {2}
Missing == {3}
Polled == {{1, 2, 3}, {2, 3}}
=============================================================================
