------------------------------- MODULE MCCopy -------------------------------
EXTENDS Copy
CONSTANTS a, b
MCOneMarket == {<<a, 0>>, <<a, 1>>}
MCCond == {a, b}
MCKey == {<<a, 0>>, <<a, 1>>, <<b, 0>>}
LargeEquity == {6}
MCMayResolve == {a}
MCExitPx == {0}

\* A lagging API may answer all that one which caught up does: for safety, the
\* states after ApiSync show nothing new.
Lagging == ~synced
=============================================================================
