--------------------------- MODULE MCGovernedCall ---------------------------
(* Calls with one argument; the edge may rewrite it, add another, or both.   *)
EXTENDS GovernedCall, TLC

MCInputs == {("cmd" :> "own")}
MCUpdates == {NoUpdate, ("cmd" :> "edge"), ("cmd" :> "edge") @@ ("cwd" :> "edge")}
MCSymmetry == Permutations(Calls)
=============================================================================
