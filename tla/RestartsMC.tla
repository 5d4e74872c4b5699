----------------------------- MODULE RestartsMC -----------------------------
EXTENDS Restarts

CONSTANTS f1, f2, p1, p2, p3, i1, i2, peer, self

MCFiles == {f1, f2}
MCGood == {f1}
=============================================================================
