----------------------------- MODULE MCSalsaGc -----------------------------
EXTENDS SalsaGc
CONSTANTS g1, g2, g3, g4, g5, g6
MCOrder == <<g1, g2, g3, g4, g5, g6>>
MCSegs == Range(MCOrder)
=============================================================================
