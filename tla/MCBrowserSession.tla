-------------------------- MODULE MCBrowserSession --------------------------
(* Small instances of BrowserSession. *)
EXTENDS BrowserSession, TLC

TwoLives == {1, 2}

Symmetry == Permutations(Visits)
=============================================================================
