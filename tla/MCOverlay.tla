------------------------------ MODULE MCOverlay ------------------------------
(***************************************************************************)
(* Instances of Overlay for TLC.                                           *)
(***************************************************************************)
EXTENDS Overlay, TLC

CONSTANTS s1, s2, i1, i2, i3, k1, k2, c1, c2

\* One map server with both scripts: the deployment the documentation describes.
OneServer == [s \in {s1} |-> {"tier1", "tier2"}]

\* Two map servers that both run Tier 1: two consumers on one lane.
TwoConsumers == [s \in {s1, s2} |-> {"tier1"}]

Symmetry     == Permutations({i1, i2}) \cup Permutations({k1, k2})
RaceSymmetry == Permutations({i1, i2, i3}) \cup Permutations({k1, k2})
                  \cup Permutations({s1, s2})
=============================================================================
