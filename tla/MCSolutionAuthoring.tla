------------------------ MODULE MCSolutionAuthoring ------------------------
EXTENDS SolutionAuthoring, TLC

CONSTANTS c1, c2, t1, t2

MCCallLists == {c1, c2}
MCTexts == {t1, t2}
MCSymmetry == Permutations(MCCallLists) \cup Permutations(MCTexts)
=============================================================================
