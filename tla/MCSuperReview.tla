--------------------------- MODULE MCSuperReview ---------------------------
(* Instances of SuperReview for TLC. *)
EXTENDS SuperReview, TLC

CONSTANTS a1, a2, x, y

OneAgent == {a1}
TwoAgents == {a1, a2}
OneText == {x}
TwoTexts == {x, y}
Symmetric == Permutations({a1, a2}) \cup Permutations({x, y})
=============================================================================
