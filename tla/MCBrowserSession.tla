--------------------------- MODULE MCBrowserSession ---------------------------
(***************************************************************************)
(* Instances of BrowserSession for TLC.                                    *)
(***************************************************************************)
EXTENDS BrowserSession, TLC

CONSTANTS t1, t2, r1, r2, alice, bob

TabSymmetry == Permutations(Tabs) \cup Permutations({r1, r2})
Symmetry == TabSymmetry \cup Permutations({alice, bob})
=============================================================================
