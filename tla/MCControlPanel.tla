--------------------------- MODULE MCControlPanel ---------------------------
EXTENDS ControlPanel, TLC

\* Browsers are interchangeable, and so are tabs.
Symmetry == Permutations(Browsers) \cup Permutations(Tabs)
=============================================================================
