--------------------------- MODULE MCIntentGrants ---------------------------
EXTENDS IntentGrants, TLC
\* Two rules of equal priority: either may win.
MCPriority == [p \in Policies |-> 0]
Symmetry == Permutations(Requests)
=============================================================================
