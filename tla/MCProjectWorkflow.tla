------------------------- MODULE MCProjectWorkflow -------------------------
EXTENDS ProjectWorkflow, TLC

CONSTANTS a, b, e1, e2

TwoServers == {a, b}
OneServer == {a}
TwoEdits == {e1, e2}
OneEdit == {e1}
Symmetry == Permutations(TwoServers) \cup Permutations(TwoEdits)
=============================================================================
